---------------------------- MODULE RouterProofs ----------------------------
(***************************************************************************)
(* Theorems about Router, for any methods, parts, patterns and number of   *)
(* routes, and about Engine, which adds them by groups.                    *)
(*                                                                         *)
(* The argument.  An insertion leaves a tree (IsTree), in which only one   *)
(* node gets a pattern, as deep as the pattern is long; so a node that is  *)
(* found has a handler and the path has the parameters (ServesSafely).     *)
(* If no pattern has another part where an earlier one has a wildcard,     *)
(* insertions go to the pattern's own place, and the nodes are the         *)
(* prefixes of the patterns (ExactTree).  There the search finds a node    *)
(* whenever a pattern fits (RoutesExact): going up from the pattern's      *)
(* node, at every node above it the search succeeds below one of the       *)
(* children, the one towards the pattern or an earlier one.                *)
(*                                                                         *)
(* A route has the prefix of its group, which has the prefix of the group  *)
(* it was made in; so a path that a route without wildcards in the prefix  *)
(* fits has all of these prefixes.  The middlewares of the groups around a *)
(* route, and those ServeHTTP collects, both stand in the order of the     *)
(* groups, so that the former are within the latter (GroupsEnclose).       *)
(*                                                                         *)
(* Induction is over a set of numbers (SetInduction), which the            *)
(* well-foundedness of < on Nat gives.                                     *)
(***************************************************************************)
EXTENDS Engine, SequenceTheorems, WellFoundedInduction, TLAPS

-----------------------------------------------------------------------------
(* Numbers and sequences *)

\* Induction, on a set of numbers.
LEMMA SetInduction ==
  ASSUME NEW T, 0 \in T, \A n \in Nat : n \in T => n + 1 \in T
  PROVE  Nat \subseteq T
<1> SUFFICES ASSUME Nat \ T # {} PROVE FALSE
  OBVIOUS
<1>1. PICK m \in Nat \ T : \A i \in Nat \ T : ~(<<i, m>> \in OpToRel(<, Nat))
  BY NatLessThanWellFounded, WFMin
<1>2. m \in Nat /\ m # 0
  OBVIOUS
<1>3. m - 1 \in Nat /\ (m - 1) + 1 = m
  BY <1>2
<1>4. m - 1 \in Nat \ T
  BY <1>3
<1>5. <<m - 1, m>> \in OpToRel(<, Nat)
  <2>1. <<m - 1, m>> \in Nat \X Nat /\ <<m - 1, m>>[1] < <<m - 1, m>>[2]
    BY <1>2, <1>3
  <2>2. QED
    BY <2>1, Zenon DEF OpToRel
<1>6. QED
  BY <1>1, <1>4, <1>5

\* First is the least number of a set.
LEMMA FirstIsLeast ==
  ASSUME NEW C \in SUBSET Nat, C # {}
  PROVE  First(C) \in C
<1>1. PICK m \in C : \A i \in C : ~(<<i, m>> \in OpToRel(<, Nat))
  BY NatLessThanWellFounded, WFMin
<1>2. ASSUME NEW i \in C, i < m PROVE FALSE
  <2>1. <<i, m>> \in Nat \X Nat /\ <<i, m>>[1] < <<i, m>>[2]
    BY <1>2
  <2>2. <<i, m>> \in OpToRel(<, Nat)
    BY <2>1, Zenon DEF OpToRel
  <2>3. QED
    BY <1>1, <2>2
<1>3. \A i \in C : m <= i
  BY <1>2
<1>4. QED
  BY <1>3 DEF First

\* The first n parts.
Prefix(p, n) == SubSeq(p, 1, n)

\* What a prefix is.
LEMMA PrefixProperties ==
  ASSUME NEW S, NEW p \in Seq(S), NEW n \in 0 .. Len(p)
  PROVE  /\ Prefix(p, n) \in Seq(S)
         /\ Len(Prefix(p, n)) = n
         /\ \A i \in 1 .. n : Prefix(p, n)[i] = p[i]
<1>1. \A i \in 1 .. n : p[i] \in S
  BY ElementOfSeq
<1>2. QED
  BY <1>1, SubSeqProperties DEF Prefix

\* Two sequences that agree everywhere are equal.
LEMMA SameSequence ==
  ASSUME NEW S, NEW p \in Seq(S), NEW q \in Seq(S), Len(p) = Len(q),
         \A i \in 1 .. Len(p) : p[i] = q[i]
  PROVE  p = q
BY SeqEqual

\* The whole is a prefix, and so are the prefixes of a prefix.
LEMMA PrefixOfPrefix ==
  ASSUME NEW S, NEW p \in Seq(S), NEW n \in 0 .. Len(p), NEW m \in 0 .. n
  PROVE  /\ Prefix(Prefix(p, n), m) = Prefix(p, m)
         /\ Prefix(p, Len(p)) = p
         /\ Prefix(p, 0) = <<>>
<1>1. PICK q \in Seq(S) : q = Prefix(p, n) /\ Len(q) = n /\ \A i \in 1 .. n : q[i] = p[i]
  BY PrefixProperties
<1>2. m \in 0 .. Len(q) /\ m \in 0 .. Len(p)
  BY <1>1
<1>3. /\ Prefix(q, m) \in Seq(S) /\ Len(Prefix(q, m)) = m
      /\ \A i \in 1 .. m : Prefix(q, m)[i] = q[i]
  BY <1>2, PrefixProperties
<1>4. /\ Prefix(p, m) \in Seq(S) /\ Len(Prefix(p, m)) = m
      /\ \A i \in 1 .. m : Prefix(p, m)[i] = p[i]
  BY <1>2, PrefixProperties
<1>5. \A i \in 1 .. m : Prefix(q, m)[i] = Prefix(p, m)[i]
  BY <1>1, <1>3, <1>4
<1>6. Prefix(q, m) = Prefix(p, m)
  BY <1>3, <1>4, <1>5, SameSequence
<1>7. Prefix(p, Len(p)) = p
  BY SubSeqFull DEF Prefix
<1>8. Prefix(p, 0) = <<>>
  BY SubSeqEmpty DEF Prefix
<1>9. QED
  BY <1>1, <1>6, <1>7, <1>8

\* Adding a part to a sequence leaves its prefixes as they are.
LEMMA AppendPrefix ==
  ASSUME NEW S, NEW p \in Seq(S), NEW x \in S
  PROVE  /\ Append(p, x) \in Seq(S)
         /\ Len(Append(p, x)) = Len(p) + 1
         /\ Front(Append(p, x)) = p
         /\ Last(Append(p, x)) = x
         /\ Append(p, x) # <<>>
         /\ \A n \in 0 .. Len(p) : Prefix(Append(p, x), n) = Prefix(p, n)
<1>1. PICK q \in Seq(S) :
        /\ q = Append(p, x) /\ Len(q) = Len(p) + 1 /\ q # <<>>
        /\ \A i \in 1 .. Len(p) : q[i] = p[i]
        /\ q[Len(p) + 1] = x
  BY AppendProperties
<1>2. ASSUME NEW n \in 0 .. Len(p) PROVE Prefix(q, n) = Prefix(p, n)
  <2>1. /\ Prefix(p, n) \in Seq(S) /\ Len(Prefix(p, n)) = n
        /\ \A i \in 1 .. n : Prefix(p, n)[i] = p[i]
    BY PrefixProperties
  <2>2. n \in 0 .. Len(q)
    BY <1>1
  <2>3. /\ Prefix(q, n) \in Seq(S) /\ Len(Prefix(q, n)) = n
        /\ \A i \in 1 .. n : Prefix(q, n)[i] = q[i]
    BY <2>2, PrefixProperties
  <2>4. \A i \in 1 .. n : Prefix(q, n)[i] = Prefix(p, n)[i]
    BY <1>1, <2>1, <2>3
  <2>5. QED
    BY <2>1, <2>3, <2>4, SameSequence
<1>3. Front(q) = p
  <2>1. Len(p) \in 0 .. Len(p) /\ Len(q) - 1 = Len(p)
    BY <1>1
  <2>2. Prefix(q, Len(p)) = Prefix(p, Len(p))
    BY <1>2, <2>1
  <2>3. Prefix(p, Len(p)) = p
    BY <2>1, PrefixOfPrefix
  <2>4. QED
    BY <2>1, <2>2, <2>3 DEF Front, Prefix
<1>4. QED
  BY <1>1, <1>2, <1>3 DEF Last

\* A sequence is its front and its last part.
LEMMA FrontAndLast ==
  ASSUME NEW S, NEW p \in Seq(S), p # <<>>
  PROVE  /\ Len(p) \in Nat \ {0}
         /\ Front(p) = Prefix(p, Len(p) - 1)
         /\ Front(p) \in Seq(S)
         /\ Last(p) = p[Len(p)]
         /\ Last(p) \in S
         /\ p = Append(Front(p), Last(p))
<1>1. Len(p) \in Nat \ {0} /\ Len(p) - 1 \in 0 .. Len(p)
  OBVIOUS
<1>2. Front(p) = Prefix(p, Len(p) - 1)
  BY DEF Front, Prefix
<1>3. /\ Front(p) \in Seq(S) /\ Len(Front(p)) = Len(p) - 1
      /\ \A i \in 1 .. Len(p) - 1 : Front(p)[i] = p[i]
  BY <1>1, <1>2, PrefixProperties
<1>4. Last(p) = p[Len(p)] /\ Last(p) \in S
  BY <1>1, ElementOfSeq DEF Last
<1>5. PICK q \in Seq(S) :
        /\ q = Append(Front(p), Last(p)) /\ Len(q) = Len(Front(p)) + 1
        /\ \A i \in 1 .. Len(Front(p)) : q[i] = Front(p)[i]
        /\ q[Len(Front(p)) + 1] = Last(p)
  BY <1>3, <1>4, AppendProperties
<1>6. \A i \in 1 .. Len(p) : p[i] = q[i]
  BY <1>1, <1>3, <1>4, <1>5
<1>7. p = q
  BY <1>1, <1>3, <1>5, <1>6, SameSequence
<1>8. QED
  BY <1>1, <1>2, <1>3, <1>4, <1>5, <1>7

\* The next prefix has one part more.
LEMMA NextPrefix ==
  ASSUME NEW S, NEW p \in Seq(S), NEW n \in 0 .. Len(p) - 1
  PROVE  Prefix(p, n + 1) = Append(Prefix(p, n), p[n + 1])
<1>1. n + 1 \in 0 .. Len(p) /\ n \in 0 .. n + 1
  OBVIOUS
<1>2. PICK q \in Seq(S) :
        /\ q = Prefix(p, n + 1) /\ Len(q) = n + 1
        /\ \A i \in 1 .. n + 1 : q[i] = p[i]
  BY <1>1, PrefixProperties
<1>3. q # <<>> /\ Len(q) - 1 = n
  BY <1>2
<1>4. q = Append(Front(q), Last(q)) /\ Front(q) = Prefix(q, n) /\ Last(q) = q[n + 1]
  BY <1>2, <1>3, FrontAndLast
<1>5. Prefix(q, n) = Prefix(p, n)
  BY <1>1, <1>2, PrefixOfPrefix
<1>6. q[n + 1] = p[n + 1]
  BY <1>2
<1>7. QED
  BY <1>2, <1>4, <1>5, <1>6

-----------------------------------------------------------------------------
(* The tree *)

\* What patterns are made of.
Parts == Names \cup Wild

Node == [path : Seq(Parts), pattern : Patterns \cup {NoPattern}]

\* The root comes first, every other node behind those above it, and no two nodes
\* stand for the same parts.
IsTree(nodes) ==
  /\ nodes \in Seq(Node)
  /\ nodes # <<>>
  /\ nodes[1].path = <<>>
  /\ \A n \in 1 .. Len(nodes) : \A i \in 0 .. Len(nodes[n].path) :
       \E m \in 1 .. n : nodes[m].path = Prefix(nodes[n].path, i)
  /\ \A n, m \in 1 .. Len(nodes) : nodes[n].path = nodes[m].path => n = m

\* The nodes of a tree have a path of parts.
LEMMA TreeNodes ==
  ASSUME NEW nodes, IsTree(nodes)
  PROVE  /\ Len(nodes) \in Nat \ {0}
         /\ DOMAIN nodes = 1 .. Len(nodes)
         /\ \A n \in 1 .. Len(nodes) :
              /\ nodes[n] \in Node
              /\ nodes[n].path \in Seq(Parts)
              /\ Len(nodes[n].path) \in Nat
              /\ nodes[n].pattern \in Patterns \cup {NoPattern}
<1>1. nodes \in Seq(Node) /\ nodes # <<>>
  BY DEF IsTree
<1>2. Len(nodes) \in Nat \ {0} /\ DOMAIN nodes = 1 .. Len(nodes)
  BY <1>1
<1>3. ASSUME NEW n \in 1 .. Len(nodes)
      PROVE  /\ nodes[n] \in Node
             /\ nodes[n].path \in Seq(Parts)
             /\ nodes[n].pattern \in Patterns \cup {NoPattern}
  <2>1. nodes[n] \in Node
    BY <1>1, ElementOfSeq
  <2>2. QED
    BY <2>1 DEF Node
<1>4. QED
  BY <1>2, <1>3

\* A child has its parent's parts and one more, and comes later.
LEMMA ChildFacts ==
  ASSUME NEW nodes, IsTree(nodes), NEW n \in 1 .. Len(nodes), NEW c \in Children(nodes, n)
  PROVE  /\ c \in 1 .. Len(nodes)
         /\ n < c
         /\ Len(nodes[c].path) = Len(nodes[n].path) + 1
         /\ Last(nodes[c].path) \in Parts
         /\ nodes[c].path = Append(nodes[n].path, Last(nodes[c].path))
<1>1. c \in 1 .. Len(nodes) /\ nodes[c].path # <<>> /\ Front(nodes[c].path) = nodes[n].path
  BY TreeNodes DEF Children
<1>2. PICK p \in Seq(Parts) : p = nodes[c].path
  BY <1>1, TreeNodes
<1>3. /\ Len(p) \in Nat \ {0}
      /\ Front(p) = Prefix(p, Len(p) - 1)
      /\ Front(p) \in Seq(Parts)
      /\ Last(p) \in Parts
      /\ p = Append(Front(p), Last(p))
  BY <1>1, <1>2, FrontAndLast
<1>4. Len(p) = Len(Front(p)) + 1
  BY <1>3, AppendPrefix
<1>5. PICK m \in 1 .. c : nodes[m].path = Prefix(p, Len(p) - 1)
  <2>1. Len(p) - 1 \in 0 .. Len(p)
    BY <1>3
  <2>2. QED
    BY <1>1, <1>2, <2>1 DEF IsTree
<1>6. m = n
  <2>1. Len(nodes) \in Nat
    BY TreeNodes
  <2>2. m \in 1 .. Len(nodes)
    BY <1>1, <2>1
  <2>3. nodes[m].path = nodes[n].path
    BY <1>1, <1>2, <1>3, <1>5
  <2>4. QED
    BY <2>2, <2>3 DEF IsTree
<1>7. m # c
  <2>1. nodes[n].path = Front(p)
    BY <1>1, <1>2
  <2>2. Len(nodes[n].path) # Len(nodes[c].path)
    BY <1>2, <1>3, <1>4, <2>1
  <2>3. QED
    BY <1>6, <2>2
<1>8. n < c
  BY <1>1, <1>5, <1>6, <1>7
<1>9. QED
  BY <1>1, <1>2, <1>3, <1>4, <1>8

\* A tree grows by nodes without a pattern.
Grows(nodes, more) ==
  /\ Len(nodes) <= Len(more)
  /\ \A n \in 1 .. Len(nodes) : more[n] = nodes[n]
  /\ \A n \in 1 .. Len(more) : n \notin 1 .. Len(nodes) => more[n].pattern = NoPattern

\* Adding a child with a part that no child has leaves a tree.
LEMMA AddChildFacts ==
  ASSUME NEW nodes, IsTree(nodes), NEW at \in 1 .. Len(nodes), NEW part \in Parts,
         MatchChildren(nodes, at, part) = {}
  PROVE  LET more == AddChild([nodes |-> nodes, at |-> at], part).nodes IN
         /\ AddChild([nodes |-> nodes, at |-> at], part)
              = [nodes |-> more, at |-> Len(nodes) + 1]
         /\ IsTree(more)
         /\ Len(more) = Len(nodes) + 1
         /\ Grows(nodes, more)
         /\ more[Len(nodes) + 1]
              = [path |-> Append(nodes[at].path, part), pattern |-> NoPattern]
<1>1. /\ Len(nodes) \in Nat \ {0}
      /\ nodes \in Seq(Node)
      /\ nodes[at].path \in Seq(Parts)
  BY TreeNodes DEF IsTree
<1>2. PICK p \in Seq(Parts) :
        /\ p = Append(nodes[at].path, part)
        /\ Len(p) = Len(nodes[at].path) + 1
        /\ Front(p) = nodes[at].path
        /\ Last(p) = part
        /\ p # <<>>
        /\ \A i \in 0 .. Len(nodes[at].path) : Prefix(p, i) = Prefix(nodes[at].path, i)
  <2>1. PICK b \in Seq(Parts) : b = nodes[at].path
    BY <1>1
  <2>2. PICK p \in Seq(Parts) : p = Append(b, part)
    BY AppendPrefix
  <2>3. /\ Len(p) = Len(b) + 1
        /\ Front(p) = b
        /\ Last(p) = part
        /\ p # <<>>
        /\ \A i \in 0 .. Len(b) : Prefix(p, i) = Prefix(b, i)
    BY <2>2, AppendPrefix
  <2>4. QED
    BY <2>1, <2>2, <2>3
<1>3. PICK child \in Node : child = [path |-> p, pattern |-> NoPattern]
  BY DEF Node
<1>4. PICK more \in Seq(Node) :
        /\ more = Append(nodes, child)
        /\ Len(more) = Len(nodes) + 1
        /\ \A n \in 1 .. Len(nodes) : more[n] = nodes[n]
        /\ more[Len(nodes) + 1] = child
  BY <1>1, AppendProperties
<1>5. AddChild([nodes |-> nodes, at |-> at], part) = [nodes |-> more, at |-> Len(nodes) + 1]
  BY <1>2, <1>3, <1>4 DEF AddChild
<1> DEFINE N == Len(nodes)
<1>6. N \in Nat \ {0} /\ Len(more) = N + 1 /\ N = Len(nodes)
  BY <1>1, <1>4
<1> HIDE DEF N
<1>7. \A k \in 1 .. Len(more) : k \in 1 .. Len(nodes) \/ k = Len(nodes) + 1
  BY <1>6
<1>8. \A n \in 1 .. Len(nodes) : nodes[n].path # p
  <2>1. SUFFICES ASSUME NEW n \in 1 .. Len(nodes), nodes[n].path = p PROVE FALSE
    OBVIOUS
  <2>2. n \in Children(nodes, at)
    BY <1>2, <2>1, TreeNodes DEF Children
  <2>3. n \in MatchChildren(nodes, at, part)
    BY <1>2, <2>1, <2>2 DEF MatchChildren
  <2>4. QED
    BY <2>3
<1>9. ASSUME NEW n \in 1 .. Len(more), NEW i \in 0 .. Len(more[n].path)
      PROVE  \E m \in 1 .. n : more[m].path = Prefix(more[n].path, i)
  <2>1. CASE n \in 1 .. Len(nodes)
    <3>1. more[n] = nodes[n]
      BY <1>4, <2>1
    <3>2. PICK m \in 1 .. n : nodes[m].path = Prefix(nodes[n].path, i)
      BY <1>9, <2>1, <3>1 DEF IsTree
    <3>3. m \in 1 .. Len(nodes)
      BY <1>1, <2>1
    <3>4. QED
      BY <1>4, <3>1, <3>2, <3>3
  <2>2. CASE n = Len(nodes) + 1
    <3>1. more[n].path = p
      BY <1>3, <1>4, <2>2
    <3>2. CASE i = Len(p)
      <4>1. 0 \in 0 .. Len(p)
        OBVIOUS
      <4>2. Prefix(p, i) = p
        BY <3>2, <4>1, PrefixOfPrefix
      <4>3. n \in 1 .. n
        BY <1>1, <2>2
      <4>4. QED
        BY <3>1, <4>2, <4>3
    <3>3. CASE i # Len(p)
      <4>1. i \in 0 .. Len(nodes[at].path)
        BY <1>1, <1>2, <1>9, <3>1, <3>3
      <4>2. PICK m \in 1 .. at : nodes[m].path = Prefix(nodes[at].path, i)
        BY <4>1 DEF IsTree
      <4>3. m \in 1 .. Len(nodes) /\ m \in 1 .. n
        BY <1>1, <2>2
      <4>4. QED
        BY <1>2, <1>4, <3>1, <4>1, <4>2, <4>3
    <3>4. QED
      BY <3>2, <3>3
  <2>3. QED
    BY <1>7, <2>1, <2>2
<1>10. ASSUME NEW n \in 1 .. Len(more), NEW m \in 1 .. Len(more),
             more[n].path = more[m].path
      PROVE  n = m
  <2>1. \A k \in 1 .. Len(more) : k \in 1 .. Len(nodes) \/ k = Len(nodes) + 1
    BY <1>7
  <2>2. \A k \in 1 .. Len(nodes) : more[k].path = nodes[k].path
    BY <1>4
  <2>3. more[Len(nodes) + 1].path = p
    BY <1>3, <1>4
  <2>4. CASE n \in 1 .. Len(nodes) /\ m \in 1 .. Len(nodes)
    BY <1>10, <2>2, <2>4 DEF IsTree
  <2>5. QED
    BY <1>8, <1>10, <2>1, <2>2, <2>3, <2>4
<1>11. more # <<>> /\ more[1].path = <<>>
  <2>1. 1 \in 1 .. Len(nodes)
    BY <1>1
  <2>2. QED
    BY <1>1, <1>4, <2>1 DEF IsTree
<1>12. IsTree(more)
  BY <1>9, <1>10, <1>11 DEF IsTree
<1>13. Grows(nodes, more)
  <2>1. Len(nodes) <= Len(more)
    BY <1>6
  <2>2. more[Len(nodes) + 1].pattern = NoPattern
    BY <1>3, <1>4
  <2>3. QED
    BY <1>4, <1>7, <2>1, <2>2 DEF Grows
<1>14. more[Len(nodes) + 1] = [path |-> Append(nodes[at].path, part), pattern |-> NoPattern]
  BY <1>2, <1>3, <1>4
<1>15. AddChild([nodes |-> nodes, at |-> at], part).nodes = more
  BY <1>5
<1>16. QED
  BY <1>4, <1>5, <1>12, <1>13, <1>14, <1>15

\* One level of an insertion: a child that fits is taken, or one is added.
LEMMA StepFacts ==
  ASSUME NEW nodes, IsTree(nodes), NEW at \in 1 .. Len(nodes), NEW part \in Parts
  PROVE  \E more, next :
           /\ Step([nodes |-> nodes, at |-> at], part) = [nodes |-> more, at |-> next]
           /\ IsTree(more)
           /\ Grows(nodes, more)
           /\ next \in 1 .. Len(more)
           /\ Len(more[next].path) = Len(nodes[at].path) + 1
           /\ \/ more = nodes /\ next \in MatchChildren(nodes, at, part)
              \/ /\ Len(more) = Len(nodes) + 1
                 /\ next = Len(nodes) + 1
                 /\ more[next].path = Append(nodes[at].path, part)
<1> DEFINE children == MatchChildren(nodes, at, part)
<1>1. Len(nodes) \in Nat \ {0} /\ nodes[at].path \in Seq(Parts)
  BY TreeNodes
<1>2. CASE children # {}
  <2>1. children \subseteq Children(nodes, at)
    BY DEF MatchChildren
  <2>2. Children(nodes, at) \in SUBSET Nat
    BY <1>1, TreeNodes DEF Children
  <2>3. PICK c : c = First(children) /\ c \in children
    BY <1>2, <2>1, <2>2, FirstIsLeast
  <2>4. Step([nodes |-> nodes, at |-> at], part) = [nodes |-> nodes, at |-> c]
    BY <1>2, <2>3 DEF Step
  <2>5. c \in 1 .. Len(nodes) /\ Len(nodes[c].path) = Len(nodes[at].path) + 1
    BY <2>1, <2>3, ChildFacts
  <2>6. Grows(nodes, nodes)
    BY <1>1 DEF Grows
  <2>7. QED
    BY <2>3, <2>4, <2>5, <2>6
<1>3. CASE children = {}
  <2>1. Step([nodes |-> nodes, at |-> at], part) = AddChild([nodes |-> nodes, at |-> at], part)
    BY <1>3 DEF Step
  <2>2. PICK more : 
         /\ AddChild([nodes |-> nodes, at |-> at], part)
              = [nodes |-> more, at |-> Len(nodes) + 1]
         /\ IsTree(more)
         /\ Len(more) = Len(nodes) + 1
         /\ Grows(nodes, more)
         /\ more[Len(nodes) + 1]
              = [path |-> Append(nodes[at].path, part), pattern |-> NoPattern]
    BY <1>3, AddChildFacts
  <2>3. Len(nodes) + 1 \in 1 .. Len(more)
    BY <1>1, <2>2
  <2>4. more[Len(nodes) + 1].path = Append(nodes[at].path, part)
    BY <2>2
  <2>5. Len(more[Len(nodes) + 1].path) = Len(nodes[at].path) + 1
    BY <1>1, <2>4, AppendPrefix
  <2>6. QED
    BY <2>1, <2>2, <2>3, <2>4, <2>5
<1>4. QED
  BY <1>2, <1>3

-----------------------------------------------------------------------------
(* Insertion *)

\* A tree that has grown twice has grown.
LEMMA GrowsTransitive ==
  ASSUME NEW a1, NEW b1, NEW c1, Len(a1) \in Nat, Len(b1) \in Nat, Len(c1) \in Nat,
         Grows(a1, b1), Grows(b1, c1)
  PROVE  Grows(a1, c1)
<1>1. Len(a1) <= Len(b1) /\ Len(b1) <= Len(c1)
  BY DEF Grows
<1>2. \A n \in 1 .. Len(a1) : n \in 1 .. Len(b1)
  BY <1>1
<1>3. \A n \in 1 .. Len(a1) : c1[n] = a1[n]
  BY <1>2 DEF Grows
<1>4. ASSUME NEW n \in 1 .. Len(c1), n \notin 1 .. Len(a1) PROVE c1[n].pattern = NoPattern
  <2>1. CASE n \in 1 .. Len(b1)
    BY <1>4, <2>1 DEF Grows
  <2>2. CASE n \notin 1 .. Len(b1)
    BY <1>4, <2>2 DEF Grows
  <2>3. QED
    BY <2>1, <2>2
<1>5. QED
  BY <1>1, <1>3, <1>4 DEF Grows

\* Patterns are sequences of parts.
LEMMA PatternProperties ==
  ASSUME NEW q \in Patterns
  PROVE  /\ q \in Seq(Parts)
         /\ Len(q) \in Nat
         /\ DOMAIN q = 1 .. Len(q)
         /\ \A i \in 1 .. Len(q) : q[i] \in Parts /\ (q[i] \in Stars => i = Len(q))
<1>1. PICK m \in 0 .. MaxParts : q \in [1 .. m -> Parts]
  BY DEF Patterns, BoundedSeq, SeqOf, Parts
<1>2. m \in Nat
  BY RouterAssumption
<1>3. q \in Seq(Parts)
  BY <1>1, <1>2, SeqDef
<1>4. \A i \in DOMAIN q : q[i] \in Stars => i = Len(q)
  BY DEF Patterns
<1>5. QED
  BY <1>3, <1>4

\* The recursive function in Insert exists.
LEMMA InsertRecursion ==
  ASSUME NEW nodes, NEW q, Len(q) \in Nat
  PROVE  \E f : /\ f = [i \in 0 .. Len(q) |->
                          IF i = 0 THEN [nodes |-> nodes, at |-> 1]
                                   ELSE Step(f[i - 1], q[i])]
                /\ Insert(nodes, q)
                     = [f[Len(q)].nodes EXCEPT ![f[Len(q)].at].pattern = q]
<1> DEFINE value(f, i) == IF i = 0 THEN [nodes |-> nodes, at |-> 1] ELSE Step(f[i - 1], q[i])
           body(f, m) == [i \in 0 .. m |-> value(f, i)]
           tree == CHOOSE f : f = body(f, Len(q))
           T == {m \in Nat : \E f : f = body(f, m)}
<1>1. 0 \in T
  <2> DEFINE f == [i \in 0 .. 0 |-> [nodes |-> nodes, at |-> 1]]
  <2>1. f = body(f, 0)
    OBVIOUS
  <2>2. QED
    BY <2>1
<1>2. ASSUME NEW m \in Nat, m \in T PROVE m + 1 \in T
  <2>1. PICK f : f = body(f, m)
    BY <1>2
  <2>2. PICK h : h = body(f, m + 1)
    OBVIOUS
  <2>3. ASSUME NEW i \in 0 .. m PROVE h[i] = f[i]
    <3>1. i \in 0 .. m + 1
      OBVIOUS
    <3> HIDE DEF value
    <3>2. h[i] = value(f, i) /\ f[i] = value(f, i)
      BY <2>1, <2>2, <3>1
    <3>3. QED
      BY <3>2
  <2>4. ASSUME NEW i \in 0 .. m + 1 PROVE value(f, i) = value(h, i)
    <3>1. CASE i = 0
      BY <3>1
    <3>2. CASE i # 0
      <4>1. i - 1 \in 0 .. m
        BY <3>2
      <4>2. f[i - 1] = h[i - 1]
        BY <2>3, <4>1
      <4>3. QED
        BY <4>2
    <3>3. QED
      BY <3>1, <3>2
  <2>5. h = body(h, m + 1)
    <3>1. PICK g : g = body(h, m + 1)
      OBVIOUS
    <3> DEFINE D == 0 .. m + 1
    <3>2. /\ h = [i \in D |-> value(f, i)]
          /\ g = [i \in D |-> value(h, i)]
      BY <2>2, <3>1
    <3>3. \A i \in D : value(f, i) = value(h, i)
      BY <2>4
    <3> HIDE DEF value, D
    <3>4. /\ \A i \in D : h[i] = g[i]
          /\ h = [i \in D |-> h[i]]
          /\ g = [i \in D |-> g[i]]
      BY <3>2, <3>3
    <3>5. h = g
      BY <3>4
    <3> HIDE DEF body
    <3>6. QED
      BY <3>1, <3>5
  <2> HIDE DEF body
  <2>6. QED
    BY <2>5
<1>3. \E f : f = body(f, Len(q))
  <2>1. Len(q) \in T
    <3> HIDE DEF T
    <3>1. QED
      BY <1>1, <1>2, SetInduction
  <2>2. QED
    BY <2>1
<1>4. tree = body(tree, Len(q))
  BY <1>3, Zenon
<1>5. Insert(nodes, q) = [tree[Len(q)].nodes EXCEPT ![tree[Len(q)].at].pattern = q]
  BY Zenon DEF Insert
<1>6. QED
  BY <1>4, <1>5, Zenon

\* No node has a wildcard where a pattern that agrees with it so far has another
\* part.
NoClash(nodes, q) ==
  \A n \in 1 .. Len(nodes) : \A i \in 1 .. Len(q) :
    /\ Len(nodes[n].path) = i
    /\ Prefix(nodes[n].path, i - 1) = Prefix(q, i - 1)
    /\ nodes[n].path[i] \in Wild
    => nodes[n].path[i] = q[i]

\* Where the insertion of a pattern is after i levels: as deep in a tree that has
\* grown; and if there is no clash, at the first i parts of the pattern, and there
\* are no other new nodes than those above.
Reached(nodes, q, tree, i) ==
  \E more, at :
    /\ tree = [nodes |-> more, at |-> at]
    /\ IsTree(more)
    /\ Grows(nodes, more)
    /\ at \in 1 .. Len(more)
    /\ Len(more[at].path) = i
    /\ NoClash(nodes, q) =>
         /\ more[at].path = Prefix(q, i)
         /\ \A n \in 1 .. Len(more) : n \notin 1 .. Len(nodes) =>
              \E j \in 0 .. Len(q) : more[n].path = Prefix(q, j)

\* Every level leads on.
LEMMA ReachedStep ==
  ASSUME NEW nodes, IsTree(nodes), NEW q \in Patterns, NEW i \in 0 .. Len(q) - 1,
         NEW tree, Reached(nodes, q, tree, i)
  PROVE  Reached(nodes, q, Step(tree, q[i + 1]), i + 1)
<1>1. PICK more, at :
        /\ tree = [nodes |-> more, at |-> at]
        /\ IsTree(more)
        /\ Grows(nodes, more)
        /\ at \in 1 .. Len(more)
        /\ Len(more[at].path) = i
        /\ NoClash(nodes, q) =>
             /\ more[at].path = Prefix(q, i)
             /\ \A n \in 1 .. Len(more) : n \notin 1 .. Len(nodes) =>
                  \E j \in 0 .. Len(q) : more[n].path = Prefix(q, j)
  BY DEF Reached
<1>2. /\ q \in Seq(Parts)
      /\ Len(q) \in Nat
      /\ i + 1 \in 1 .. Len(q)
      /\ q[i + 1] \in Parts
  BY PatternProperties
<1>3. PICK most, next :
        /\ Step(tree, q[i + 1]) = [nodes |-> most, at |-> next]
        /\ IsTree(most)
        /\ Grows(more, most)
        /\ next \in 1 .. Len(most)
        /\ Len(most[next].path) = Len(more[at].path) + 1
        /\ \/ most = more /\ next \in MatchChildren(more, at, q[i + 1])
           \/ /\ Len(most) = Len(more) + 1
              /\ next = Len(more) + 1
              /\ most[next].path = Append(more[at].path, q[i + 1])
  <2>1. PICK part \in Parts : part = q[i + 1]
    BY <1>2
  <2>2. PICK most, next :
          /\ Step([nodes |-> more, at |-> at], part) = [nodes |-> most, at |-> next]
          /\ IsTree(most)
          /\ Grows(more, most)
          /\ next \in 1 .. Len(most)
          /\ Len(most[next].path) = Len(more[at].path) + 1
          /\ \/ most = more /\ next \in MatchChildren(more, at, part)
             \/ /\ Len(most) = Len(more) + 1
                /\ next = Len(more) + 1
                /\ most[next].path = Append(more[at].path, part)
    BY <1>1, StepFacts
  <2>3. Step(tree, q[i + 1]) = [nodes |-> most, at |-> next]
    BY <1>1, <2>1, <2>2
  <2>4. QED
    BY <2>1, <2>2, <2>3
<1>4. Len(nodes) \in Nat /\ Len(more) \in Nat /\ Len(most) \in Nat
  BY <1>1, <1>3, TreeNodes
<1>5. Grows(nodes, most)
  BY <1>1, <1>3, <1>4, GrowsTransitive
<1>6. Len(most[next].path) = i + 1
  BY <1>1, <1>3
<1>7. Prefix(q, i + 1) = Append(Prefix(q, i), q[i + 1])
  BY <1>2, NextPrefix
<1>8. ASSUME NoClash(nodes, q)
      PROVE  /\ most[next].path = Prefix(q, i + 1)
             /\ \A n \in 1 .. Len(most) : n \notin 1 .. Len(nodes) =>
                  \E j \in 0 .. Len(q) : most[n].path = Prefix(q, j)
  <2>1. more[at].path = Prefix(q, i)
    BY <1>1, <1>8
  <2>2. CASE /\ Len(most) = Len(more) + 1
             /\ next = Len(more) + 1
             /\ most[next].path = Append(more[at].path, q[i + 1])
    <3>1. most[next].path = Prefix(q, i + 1)
      BY <1>7, <2>1, <2>2
    <3>2. \A n \in 1 .. Len(most) : n \in 1 .. Len(more) \/ n = next
      BY <1>4, <2>2
    <3>3. \A n \in 1 .. Len(more) : most[n] = more[n]
      BY <1>3 DEF Grows
    <3>4. i + 1 \in 0 .. Len(q)
      BY <1>2
    <3>5. QED
      BY <1>1, <1>8, <3>1, <3>2, <3>3, <3>4
  <2>3. CASE most = more /\ next \in MatchChildren(more, at, q[i + 1])
    <3>1. /\ next \in Children(more, at)
          /\ Last(more[next].path) \in {q[i + 1]} \cup Wild
      BY <2>3 DEF MatchChildren
    <3>2. PICK p \in Seq(Parts) : p = more[next].path
      BY <1>3, <2>3, TreeNodes
    <3>3. p = Append(Prefix(q, i), Last(p))
      BY <1>1, <2>1, <3>1, <3>2, ChildFacts
    <3>4. Len(p) = i + 1 /\ Last(p) = p[i + 1]
      BY <1>6, <2>3, <3>2 DEF Last
    <3>5. Last(p) = q[i + 1]
      <4>1. CASE next \in 1 .. Len(nodes)
        <5>1. nodes[next].path = p
          BY <1>1, <3>2, <4>1 DEF Grows
        <5>2. Prefix(p, i) = Prefix(q, i)
          <6>1. PICK b \in Seq(Parts) : b = Prefix(q, i) /\ Len(b) = i
            BY <1>2, PrefixProperties
          <6>2. PICK x \in Parts : x = Last(p)
            BY <1>1, <3>1, <3>2, ChildFacts
          <6>3. p = Append(b, x) /\ i \in 0 .. Len(b)
            BY <3>3, <6>1, <6>2
          <6>4. Prefix(p, i) = Prefix(b, i)
            BY <6>3, AppendPrefix
          <6>5. Prefix(b, i) = b
            BY <6>1, <6>3, PrefixOfPrefix
          <6>6. QED
            BY <6>1, <6>4, <6>5
        <5>3. (i + 1) - 1 = i
          OBVIOUS
        <5>4. p[i + 1] \in Wild => p[i + 1] = q[i + 1]
          BY <1>2, <1>8, <3>4, <4>1, <5>1, <5>2, <5>3 DEF NoClash
        <5>5. QED
          BY <3>1, <3>2, <3>4, <5>4
      <4>2. CASE next \notin 1 .. Len(nodes)
        <5>1. PICK j \in 0 .. Len(q) : p = Prefix(q, j)
          BY <1>1, <1>3, <1>8, <2>3, <3>2, <4>2
        <5>2. Len(p) = j /\ \A k \in 1 .. j : p[k] = q[k]
          BY <1>2, <5>1, PrefixProperties
        <5>3. i + 1 = j /\ i + 1 \in 1 .. j
          BY <3>4, <5>2
        <5>4. QED
          BY <3>4, <5>2, <5>3
      <4>3. QED
        BY <4>1, <4>2
    <3>6. most[next].path = Prefix(q, i + 1)
      BY <1>7, <2>3, <3>2, <3>3, <3>5
    <3>7. QED
      BY <1>1, <1>8, <2>3, <3>6
  <2>4. QED
    BY <1>3, <2>2, <2>3
<1>9. QED
  BY <1>3, <1>5, <1>6, <1>8 DEF Reached

\* An insertion reaches a node as deep as the pattern is long, and gives it the
\* pattern.
LEMMA InsertFacts ==
  ASSUME NEW nodes, IsTree(nodes), NEW q \in Patterns
  PROVE  \E tree, more, at :
           /\ Reached(nodes, q, tree, Len(q))
           /\ tree = [nodes |-> more, at |-> at]
           /\ Insert(nodes, q) = [more EXCEPT ![at].pattern = q]
<1>1. Len(q) \in Nat /\ Len(nodes) \in Nat \ {0}
  BY PatternProperties, TreeNodes
<1>2. PICK f : /\ f = [i \in 0 .. Len(q) |->
                         IF i = 0 THEN [nodes |-> nodes, at |-> 1]
                                  ELSE Step(f[i - 1], q[i])]
               /\ Insert(nodes, q)
                    = [f[Len(q)].nodes EXCEPT ![f[Len(q)].at].pattern = q]
  BY <1>1, InsertRecursion
<1> DEFINE T == {i \in Nat : i <= Len(q) => Reached(nodes, q, f[i], i)}
<1>3. 0 \in T
  <2>1. f[0] = [nodes |-> nodes, at |-> 1]
    <3>1. 0 \in 0 .. Len(q)
      BY <1>1
    <3>2. QED
      BY <1>2, <3>1
  <2>2. Grows(nodes, nodes)
    BY <1>1 DEF Grows
  <2>3. 1 \in 1 .. Len(nodes) /\ nodes[1].path = <<>>
    BY <1>1 DEF IsTree
  <2>4. Prefix(q, 0) = <<>>
    BY SubSeqEmpty DEF Prefix
  <2>5. Reached(nodes, q, f[0], 0)
    BY <2>1, <2>2, <2>3, <2>4 DEF Reached
  <2>6. QED
    BY <2>5
<1>4. ASSUME NEW i \in Nat, i \in T PROVE i + 1 \in T
  <2>1. SUFFICES ASSUME i + 1 <= Len(q) PROVE Reached(nodes, q, f[i + 1], i + 1)
    OBVIOUS
  <2>2. /\ i \in 0 .. Len(q) - 1
        /\ i + 1 \in 0 .. Len(q)
        /\ i + 1 # 0
        /\ (i + 1) - 1 = i
    BY <1>1, <2>1
  <2>3. Reached(nodes, q, f[i], i)
    BY <1>1, <1>4, <2>1
  <2>4. f[i + 1] = Step(f[i], q[i + 1])
    BY <1>2, <2>2
  <2>5. PICK tree : tree = f[i]
    OBVIOUS
  <2>6. Reached(nodes, q, Step(tree, q[i + 1]), i + 1)
    BY <2>2, <2>3, <2>5, ReachedStep
  <2>7. QED
    BY <2>4, <2>5, <2>6
<1>5. Len(q) \in T
  <2> HIDE DEF T
  <2>1. QED
    BY <1>1, <1>3, <1>4, SetInduction
<1>6. Reached(nodes, q, f[Len(q)], Len(q))
  BY <1>1, <1>5
<1>7. PICK more, at : f[Len(q)] = [nodes |-> more, at |-> at]
  BY <1>6 DEF Reached
<1>8. Insert(nodes, q) = [more EXCEPT ![at].pattern = q]
  <2>1. f[Len(q)].nodes = more /\ f[Len(q)].at = at
    BY <1>7
  <2>2. QED
    BY <1>2, <2>1, Zenon
<1>9. QED
  BY <1>6, <1>7, <1>8

\* A tree with a pattern inserted is a tree, in which a pattern is where it was or
\* where it has been inserted; and if there was no clash, the pattern stands at its
\* own parts, and the other nodes are old or above it.
LEMMA InsertTree ==
  ASSUME NEW nodes, IsTree(nodes), NEW q \in Patterns
  PROVE  /\ IsTree(Insert(nodes, q))
         /\ \A n \in 1 .. Len(Insert(nodes, q)) :
              \/ Insert(nodes, q)[n].pattern = NoPattern
              \/ /\ Insert(nodes, q)[n].pattern = q
                 /\ Len(Insert(nodes, q)[n].path) = Len(q)
              \/ n \in 1 .. Len(nodes) /\ Insert(nodes, q)[n] = nodes[n]
         /\ NoClash(nodes, q) =>
              /\ \E n \in 1 .. Len(Insert(nodes, q)) : Insert(nodes, q)[n].path = q
              /\ \A n \in 1 .. Len(nodes) : 
                   /\ n \in 1 .. Len(Insert(nodes, q))
                   /\ Insert(nodes, q)[n].path = nodes[n].path
              /\ \A n \in 1 .. Len(Insert(nodes, q)) :
                   /\ \/ n \in 1 .. Len(nodes)
                      \/ \E j \in 0 .. Len(q) : Insert(nodes, q)[n].path = Prefix(q, j)
                   /\ Insert(nodes, q)[n].pattern =
                        IF Insert(nodes, q)[n].path = q THEN q
                        ELSE IF n \in 1 .. Len(nodes) THEN nodes[n].pattern
                        ELSE NoPattern
<1>1. PICK tree, more, at :
        /\ Reached(nodes, q, tree, Len(q))
        /\ tree = [nodes |-> more, at |-> at]
        /\ Insert(nodes, q) = [more EXCEPT ![at].pattern = q]
  BY InsertFacts
<1>2. /\ IsTree(more)
      /\ Grows(nodes, more)
      /\ at \in 1 .. Len(more)
      /\ Len(more[at].path) = Len(q)
      /\ NoClash(nodes, q) =>
           /\ more[at].path = Prefix(q, Len(q))
           /\ \A n \in 1 .. Len(more) : n \notin 1 .. Len(nodes) =>
                \E j \in 0 .. Len(q) : more[n].path = Prefix(q, j)
  <2>1. PICK more2, at2 :
          /\ tree = [nodes |-> more2, at |-> at2]
          /\ IsTree(more2)
          /\ Grows(nodes, more2)
          /\ at2 \in 1 .. Len(more2)
          /\ Len(more2[at2].path) = Len(q)
          /\ NoClash(nodes, q) =>
               /\ more2[at2].path = Prefix(q, Len(q))
               /\ \A n \in 1 .. Len(more2) : n \notin 1 .. Len(nodes) =>
                    \E j \in 0 .. Len(q) : more2[n].path = Prefix(q, j)
    BY <1>1 DEF Reached
  <2>2. more2 = more /\ at2 = at
    BY <1>1, <2>1
  <2>3. QED
    BY <2>1, <2>2
<1>3. /\ Len(more) \in Nat
      /\ more \in Seq(Node)
      /\ \A n \in 1 .. Len(more) : more[n] \in Node /\ more[n].path \in Seq(Parts)
  BY <1>2, TreeNodes DEF IsTree
<1>4. PICK new : new = Insert(nodes, q)
  OBVIOUS
<1>5. /\ new \in Seq(Node)
      /\ Len(new) = Len(more)
      /\ \A n \in 1 .. Len(more) : n # at => new[n] = more[n]
      /\ new[at] = [path |-> more[at].path, pattern |-> q]
  <2>1. more[at] \in Node
    BY <1>2, <1>3
  <2>2. PICK node \in Node : node = [more[at] EXCEPT !.pattern = q]
    BY <2>1 DEF Node
  <2>3. new = [more EXCEPT ![at] = node]
    BY <1>1, <1>4, <2>2
  <2>4. node = [path |-> more[at].path, pattern |-> q]
    BY <2>1, <2>2 DEF Node
  <2>5. QED
    BY <1>2, <1>3, <2>3, <2>4, ExceptSeq
<1>6. \A n \in 1 .. Len(more) : new[n].path = more[n].path
  BY <1>5
<1>7. IsTree(new)
  <2>1. new # <<>>
    BY <1>2, <1>3, <1>5
  <2>2. new[1].path = <<>>
    BY <1>2, <1>3, <1>6 DEF IsTree
  <2>3. ASSUME NEW n \in 1 .. Len(new), NEW i \in 0 .. Len(new[n].path)
        PROVE  \E m \in 1 .. n : new[m].path = Prefix(new[n].path, i)
    <3>1. new[n].path = more[n].path /\ n \in 1 .. Len(more)
      BY <1>5, <1>6
    <3>2. PICK m \in 1 .. n : more[m].path = Prefix(more[n].path, i)
      BY <1>2, <3>1 DEF IsTree
    <3>3. m \in 1 .. Len(more)
      BY <1>3, <3>1
    <3>4. QED
      BY <1>6, <3>1, <3>2, <3>3
  <2>4. ASSUME NEW n \in 1 .. Len(new), NEW m \in 1 .. Len(new), new[n].path = new[m].path
        PROVE  n = m
    BY <1>2, <1>5, <1>6, <2>4 DEF IsTree
  <2>5. QED
    BY <1>5, <2>1, <2>2, <2>3, <2>4 DEF IsTree
<1>8. ASSUME NEW n \in 1 .. Len(new)
      PROVE  \/ new[n].pattern = NoPattern
             \/ new[n].pattern = q /\ Len(new[n].path) = Len(q)
             \/ n \in 1 .. Len(nodes) /\ new[n] = nodes[n]
  <2>1. CASE n = at
    BY <1>2, <1>5, <2>1
  <2>2. CASE n # at /\ n \in 1 .. Len(nodes)
    BY <1>2, <1>5, <2>2 DEF Grows
  <2>3. CASE n # at /\ n \notin 1 .. Len(nodes)
    BY <1>2, <1>5, <2>3 DEF Grows
  <2>4. QED
    BY <2>1, <2>2, <2>3
<1>9. ASSUME NoClash(nodes, q)
      PROVE  /\ \E n \in 1 .. Len(new) : new[n].path = q
             /\ \A n \in 1 .. Len(nodes) :
                  n \in 1 .. Len(new) /\ new[n].path = nodes[n].path
             /\ \A n \in 1 .. Len(new) :
                  /\ \/ n \in 1 .. Len(nodes)
                     \/ \E j \in 0 .. Len(q) : new[n].path = Prefix(q, j)
                  /\ new[n].pattern = IF new[n].path = q THEN q
                                      ELSE IF n \in 1 .. Len(nodes) THEN nodes[n].pattern
                                      ELSE NoPattern
  <2>1. more[at].path = q
    <3>1. Prefix(q, Len(q)) = q
      BY PatternProperties, SubSeqFull DEF Prefix
    <3>2. QED
      BY <1>2, <1>9, <3>1
  <2>2. \E n \in 1 .. Len(new) : new[n].path = q
    BY <1>2, <1>5, <2>1
  <2>3. \A n \in 1 .. Len(nodes) : n \in 1 .. Len(new) /\ new[n].path = nodes[n].path
    <3>1. Len(nodes) \in Nat /\ Len(nodes) <= Len(new)
      BY <1>2, <1>5, TreeNodes DEF Grows
    <3>2. \A n \in 1 .. Len(nodes) : n \in 1 .. Len(new)
      BY <1>3, <1>5, <3>1
    <3>3. QED
      BY <1>2, <1>5, <1>6, <3>2 DEF Grows
  <2>4. ASSUME NEW n \in 1 .. Len(new)
        PROVE  /\ \/ n \in 1 .. Len(nodes)
                  \/ \E j \in 0 .. Len(q) : new[n].path = Prefix(q, j)
               /\ new[n].pattern = IF new[n].path = q THEN q
                                   ELSE IF n \in 1 .. Len(nodes) THEN nodes[n].pattern
                                   ELSE NoPattern
    <3>1. n \in 1 .. Len(more) /\ new[n].path = more[n].path
      BY <1>5, <1>6
    <3>2. new[n].path = q <=> n = at
      BY <1>2, <2>1, <3>1 DEF IsTree
    <3>3. \/ n \in 1 .. Len(nodes)
          \/ \E j \in 0 .. Len(q) : new[n].path = Prefix(q, j)
      BY <1>2, <1>9, <3>1
    <3>4. CASE n = at
      BY <1>5, <3>2, <3>3, <3>4
    <3>5. CASE n # at
      <4>1. new[n] = more[n]
        BY <1>5, <3>1, <3>5
      <4>2. new[n].pattern = IF n \in 1 .. Len(nodes) THEN nodes[n].pattern ELSE NoPattern
        BY <1>2, <3>1, <4>1 DEF Grows
      <4>3. QED
        BY <3>2, <3>3, <3>5, <4>2
    <3>6. QED
      BY <3>4, <3>5
  <2>5. QED
    BY <2>2, <2>3, <2>4
<1>10. QED
  BY <1>4, <1>7, <1>8, <1>9

-----------------------------------------------------------------------------
(* Search *)

\* What the search finds from node n, if f tells what it finds from the nodes below.
FoundFrom(nodes, parts, f, n) ==
  IF Len(parts) = Len(nodes[n].path) \/ IsStar(nodes[n])
    THEN IF nodes[n].pattern = NoPattern THEN 0 ELSE n
    ELSE LET hits == {c \in MatchChildren(nodes, n, parts[Len(nodes[n].path) + 1]) : f[c] # 0}
         IN  IF hits = {} THEN 0 ELSE f[First(hits)]

\* It depends on the later nodes only.
LEMMA FoundFromLater ==
  ASSUME NEW nodes, IsTree(nodes), NEW parts, NEW n \in 1 .. Len(nodes), NEW f, NEW h,
         \A c \in 1 .. Len(nodes) : n < c => f[c] = h[c]
  PROVE  FoundFrom(nodes, parts, f, n) = FoundFrom(nodes, parts, h, n)
<1> DEFINE M == MatchChildren(nodes, n, parts[Len(nodes[n].path) + 1])
           F == {c \in M : f[c] # 0}
           H == {c \in M : h[c] # 0}
<1>1. \A c \in M : c \in 1 .. Len(nodes) /\ n < c
  BY ChildFacts DEF MatchChildren
<1> HIDE DEF M
<1>2. \A c \in M : f[c] = h[c]
  BY <1>1
<1>3. F = H
  BY <1>2
<1>4. F \in SUBSET Nat
  <2>1. Len(nodes) \in Nat
    BY TreeNodes
  <2>2. QED
    BY <1>1, <2>1
<1>5. F # {} => First(F) \in M
  <2>1. F # {} => First(F) \in F
    BY <1>4, FirstIsLeast
  <2>2. QED
    BY <2>1
<1> HIDE DEF F, H
<1>6. (IF F = {} THEN 0 ELSE f[First(F)]) = (IF H = {} THEN 0 ELSE h[First(H)])
  BY <1>2, <1>3, <1>5
<1>7. QED
  BY <1>6, Zenon DEF FoundFrom, F, H, M

\* The recursive function in Search exists.
LEMMA SearchRecursion ==
  ASSUME NEW nodes, IsTree(nodes), NEW parts
  PROVE  \E f : /\ \A n \in 1 .. Len(nodes) : f[n] = FoundFrom(nodes, parts, f, n)
                /\ Search(nodes, parts) = f[1]
<1> DEFINE N == Len(nodes)
           value(f, n) == FoundFrom(nodes, parts, f, n)
           body(f) == [n \in DOMAIN nodes |-> value(f, n)]
           found == CHOOSE f : f = body(f)
           Good(f, k) == f = [n \in 1 .. N |-> f[n]]
                         /\ \A n \in 1 .. N : N - k < n => f[n] = value(f, n)
           T == {k \in Nat : \E f : Good(f, k)}
<1>1. N \in Nat \ {0} /\ DOMAIN nodes = 1 .. N
  BY TreeNodes
<1>2. 0 \in T
  <2> DEFINE f == [n \in 1 .. N |-> 0]
  <2>1. Good(f, 0)
    BY <1>1
  <2>2. QED
    BY <2>1
<1>3. ASSUME NEW k \in Nat, k \in T PROVE k + 1 \in T
  <2>1. PICK f : Good(f, k)
    BY <1>3
  <2>2. PICK h : h = [n \in 1 .. N |-> IF N - k < n THEN f[n] ELSE value(f, n)]
    OBVIOUS
  <2>3. \A n \in 1 .. N : h[n] = IF N - k < n THEN f[n] ELSE value(f, n)
    BY <2>2
  <2>4. h = [n \in 1 .. N |-> h[n]]
    BY <2>2
  <2>5. ASSUME NEW n \in 1 .. N, N - (k + 1) < n PROVE h[n] = value(h, n)
    <3>1. \A c \in 1 .. N : n < c => f[c] = h[c]
      BY <1>1, <2>3, <2>5
    <3>2. value(f, n) = value(h, n)
      BY <3>1, FoundFromLater
    <3>3. CASE N - k < n
      BY <2>1, <2>3, <3>2, <3>3
    <3>4. CASE ~(N - k < n)
      BY <2>3, <3>2, <3>4
    <3>5. QED
      BY <3>3, <3>4
  <2>6. Good(h, k + 1)
    BY <2>4, <2>5
  <2> HIDE DEF Good
  <2>7. QED
    BY <2>6
<1>4. N \in T
  <2> HIDE DEF T
  <2>1. QED
    BY <1>1, <1>2, <1>3, SetInduction
<1>5. PICK f : Good(f, N)
  BY <1>4
<1>6. \A n \in 1 .. N : f[n] = value(f, n)
  BY <1>1, <1>5
<1>7. \E g : g = body(g)
  <2>1. PICK g : g = body(f)
    OBVIOUS
  <2> HIDE DEF value
  <2>2. /\ f = [n \in 1 .. N |-> f[n]]
        /\ g = [n \in 1 .. N |-> g[n]]
        /\ \A n \in 1 .. N : f[n] = g[n]
    BY <1>1, <1>5, <1>6, <2>1
  <2> HIDE DEF N
  <2>3. f = g
    BY <2>2
  <2> HIDE DEF body
  <2>4. QED
    BY <2>1, <2>3
<1>8. found = body(found)
  BY <1>7, Zenon
<1>9. Search(nodes, parts) = found[1]
  BY Zenon DEF Search, FoundFrom
<1> HIDE DEF value, found
<1>10. \A n \in 1 .. N : found[n] = value(found, n)
  BY <1>1, <1>8
<1>11. QED
  BY <1>9, <1>10, Zenon DEF value

\* The search gets to a node with these parts.
Leads(path, parts) ==
  /\ Len(path) <= Len(parts)
  /\ \A i \in 1 .. Len(path) : path[i] \in {parts[i]} \cup Wild

\* Where it can stop, the parts are those of a pattern that fits.
LEMMA LeadsFits ==
  ASSUME NEW path \in Seq(Parts), NEW parts, Len(parts) \in Nat
  PROVE  Fits(path, parts) <=>
           /\ Leads(path, parts)
           /\ Len(path) = Len(parts) \/ (path # <<>> /\ Last(path) \in Stars)
<1>1. Len(path) \in Nat /\ DOMAIN path = 1 .. Len(path)
  OBVIOUS
<1>2. ASSUME Fits(path, parts) PROVE Len(path) <= Len(parts)
  <2>1. CASE Len(path) = 0
    BY <2>1
  <2>2. CASE Len(path) # 0
    <3>1. Len(path) \in DOMAIN path
      BY <1>1, <2>2
    <3>2. QED
      BY <1>2, <3>1 DEF Fits
  <2>3. QED
    BY <2>1, <2>2
<1>3. ASSUME Leads(path, parts) PROVE \A i \in 1 .. Len(path) : i <= Len(parts)
  BY <1>1, <1>3 DEF Leads
<1> DEFINE ends == Len(path) = Len(parts) \/ (path # <<>> /\ Last(path) \in Stars)
<1>4. ASSUME Fits(path, parts) PROVE Leads(path, parts) /\ ends
  <2>1. \A i \in 1 .. Len(path) : path[i] \in {parts[i]} \cup Wild
    BY <1>1, <1>4 DEF Fits
  <2>2. Len(path) < Len(parts) => path # <<>> /\ Last(path) \in Stars
    BY <1>4 DEF Fits
  <2>3. Len(path) <= Len(parts)
    BY <1>2, <1>4
  <2>4. Leads(path, parts)
    BY <2>1, <2>3 DEF Leads
  <2>5. Len(path) < Len(parts) \/ Len(path) = Len(parts)
    BY <1>1, <2>3
  <2>6. QED
    BY <2>2, <2>4, <2>5, Zenon
<1>5. ASSUME Leads(path, parts), ends PROVE Fits(path, parts)
  <2>1. \A i \in DOMAIN path : i <= Len(parts) /\ path[i] \in {parts[i]} \cup Wild
    BY <1>1, <1>3, <1>5 DEF Leads
  <2>2. Len(path) < Len(parts) => path # <<>> /\ Last(path) \in Stars
    BY <1>1, <1>5
  <2>3. QED
    BY <2>1, <2>2 DEF Fits
<1>6. QED
  BY <1>4, <1>5

\* From a node it gets to, it gets to the children that match.
LEMMA ChildLeads ==
  ASSUME NEW nodes, IsTree(nodes), NEW parts, Len(parts) \in Nat,
         NEW n \in 1 .. Len(nodes), Leads(nodes[n].path, parts),
         Len(nodes[n].path) # Len(parts),
         NEW c \in MatchChildren(nodes, n, parts[Len(nodes[n].path) + 1])
  PROVE  c \in 1 .. Len(nodes) /\ n < c /\ Leads(nodes[c].path, parts)
<1>1. c \in Children(nodes, n) /\ Last(nodes[c].path) \in {parts[Len(nodes[n].path) + 1]} \cup Wild
  BY DEF MatchChildren
<1>2. PICK p \in Seq(Parts) : p = nodes[n].path
  BY TreeNodes
<1>3. PICK x \in Parts : x = Last(nodes[c].path)
  BY <1>1, ChildFacts
<1>4. c \in 1 .. Len(nodes) /\ n < c /\ nodes[c].path = Append(p, x)
  BY <1>1, <1>2, <1>3, ChildFacts
<1>5. PICK q \in Seq(Parts) :
        /\ q = Append(p, x) /\ Len(q) = Len(p) + 1
        /\ \A i \in 1 .. Len(p) : q[i] = p[i]
        /\ q[Len(p) + 1] = x
  BY AppendProperties
<1>6. Len(p) \in Nat /\ Len(p) <= Len(parts) /\ Len(p) # Len(parts)
  BY <1>2 DEF Leads
<1>7. \A i \in 1 .. Len(q) : i \in 1 .. Len(p) \/ i = Len(p) + 1
  BY <1>5, <1>6
<1>8. \A i \in 1 .. Len(p) : q[i] \in {parts[i]} \cup Wild
  BY <1>2, <1>5 DEF Leads
<1>9. q[Len(p) + 1] \in {parts[Len(p) + 1]} \cup Wild
  BY <1>1, <1>2, <1>3, <1>5
<1>10. Len(q) <= Len(parts)
  BY <1>5, <1>6
<1>11. Leads(q, parts)
  BY <1>7, <1>8, <1>9, <1>10 DEF Leads
<1>12. QED
  BY <1>4, <1>5, <1>11

\* What the search finds is a node with a pattern, and the node's parts fit the
\* path.
LEMMA SearchSound ==
  ASSUME NEW nodes, IsTree(nodes), NEW parts, Len(parts) \in Nat, Search(nodes, parts) # 0
  PROVE  /\ Search(nodes, parts) \in 1 .. Len(nodes)
         /\ nodes[Search(nodes, parts)].pattern # NoPattern
         /\ Fits(nodes[Search(nodes, parts)].path, parts)
<1> DEFINE N == Len(nodes)
           Right(x) == /\ x \in 1 .. Len(nodes)
                       /\ nodes[x].pattern # NoPattern
                       /\ Fits(nodes[x].path, parts)
<1>1. PICK f : /\ \A n \in 1 .. N : f[n] = FoundFrom(nodes, parts, f, n)
               /\ Search(nodes, parts) = f[1]
  BY SearchRecursion
<1> DEFINE Claim(n) == Leads(nodes[n].path, parts) /\ f[n] # 0 => Right(f[n])
           T == {k \in Nat : \A n \in 1 .. N : N - k < n => Claim(n)}
<1>2. N \in Nat \ {0}
  BY TreeNodes
<1>3. 0 \in T
  BY <1>2
<1>4. ASSUME NEW n \in 1 .. N, \A c \in 1 .. N : n < c => Claim(c),
             Leads(nodes[n].path, parts), f[n] # 0
      PROVE  Right(f[n])
  <2>1. f[n] = FoundFrom(nodes, parts, f, n)
    BY <1>1
  <2>2. PICK p \in Seq(Parts) : p = nodes[n].path
    BY TreeNodes
  <2>3. CASE Len(parts) = Len(p) \/ IsStar(nodes[n])
    <3>1. f[n] = n /\ nodes[n].pattern # NoPattern
      BY <1>2, <1>4, <2>1, <2>2, <2>3 DEF FoundFrom
    <3>2. Fits(p, parts)
      <4>1. Leads(p, parts)
        BY <1>4, <2>2
      <4>2. Len(p) = Len(parts) \/ (p # <<>> /\ Last(p) \in Stars)
        <5>1. IsStar(nodes[n]) => p # <<>> /\ Last(p) \in Stars
          BY <2>2, Zenon DEF IsStar
        <5>2. QED
          BY <2>3, <5>1
      <4>3. QED
        BY <4>1, <4>2, LeadsFits
    <3>3. QED
      BY <2>2, <3>1, <3>2
  <2>4. CASE ~(Len(parts) = Len(p) \/ IsStar(nodes[n]))
    <3> DEFINE M == MatchChildren(nodes, n, parts[Len(nodes[n].path) + 1])
               hits == {c \in M : f[c] # 0}
    <3>1. f[n] = IF hits = {} THEN 0 ELSE f[First(hits)]
      BY <2>1, <2>2, <2>4 DEF FoundFrom
    <3>2. \A c \in M : c \in 1 .. N /\ n < c /\ Leads(nodes[c].path, parts)
      BY <1>4, <2>2, <2>4, ChildLeads
    <3> HIDE DEF M
    <3>3. hits # {} /\ hits \in SUBSET Nat
      BY <1>2, <1>4, <3>1, <3>2
    <3>4. PICK c \in hits : c = First(hits)
      BY <3>3, FirstIsLeast
    <3>5. f[n] = f[c] /\ f[c] # 0
      BY <3>1, <3>3, <3>4
    <3>6. Claim(c) /\ Leads(nodes[c].path, parts)
      BY <1>4, <3>2
    <3>7. QED
      BY <3>5, <3>6
  <2>5. QED
    BY <2>3, <2>4
<1>5. ASSUME NEW k \in Nat, k \in T PROVE k + 1 \in T
  <2>1. ASSUME NEW n \in 1 .. N, N - (k + 1) < n PROVE Claim(n)
    <3>1. \A c \in 1 .. N : n < c => N - k < c
      BY <1>2, <2>1
    <3>2. \A c \in 1 .. N : n < c => Claim(c)
      BY <1>5, <3>1
    <3> HIDE DEF Right
    <3>3. QED
      BY <1>4, <3>2
  <2> HIDE DEF Claim
  <2>2. QED
    BY <2>1
<1>6. N \in T
  <2> HIDE DEF T
  <2>1. QED
    BY <1>2, <1>3, <1>5, SetInduction
<1>7. Claim(1)
  BY <1>2, <1>6
<1>8. Leads(nodes[1].path, parts)
  BY DEF IsTree, Leads
<1>9. QED
  BY <1>1, <1>7, <1>8

\* Nothing stands behind a star.
StarsLast(nodes) ==
  \A n \in 1 .. Len(nodes) : \A i \in 1 .. Len(nodes[n].path) :
    nodes[n].path[i] \in Stars => i = Len(nodes[n].path)

\* If a node's parts fit the path and it has a pattern, the search finds a node,
\* whatever other branches it looks at.
LEMMA SearchComplete ==
  ASSUME NEW nodes, IsTree(nodes), StarsLast(nodes), NEW parts, Len(parts) \in Nat,
         NEW x \in 1 .. Len(nodes), nodes[x].pattern # NoPattern,
         Fits(nodes[x].path, parts)
  PROVE  Search(nodes, parts) # 0
<1> DEFINE N == Len(nodes)
<1>1. PICK f : /\ \A n \in 1 .. N : f[n] = FoundFrom(nodes, parts, f, n)
               /\ Search(nodes, parts) = f[1]
  BY SearchRecursion
<1>2. N \in Nat \ {0}
  BY TreeNodes
<1>3. PICK p \in Seq(Parts) : p = nodes[x].path
  BY TreeNodes
<1>4. /\ Leads(p, parts)
      /\ Len(p) = Len(parts) \/ (p # <<>> /\ Last(p) \in Stars)
      /\ Len(p) \in Nat
  BY <1>3, LeadsFits
<1> DEFINE Above(n) == Len(nodes[n].path) <= Len(p) /\ nodes[n].path = Prefix(p, Len(nodes[n].path))
           Claim(n) == Above(n) => f[n] # 0
           T == {k \in Nat : \A n \in 1 .. N : N - k < n => Claim(n)}
<1>5. 0 \in T
  BY <1>2
<1>6. ASSUME NEW n \in 1 .. N, \A c \in 1 .. N : n < c => Claim(c), Above(n)
      PROVE  f[n] # 0
  <2>1. f[n] = FoundFrom(nodes, parts, f, n)
    BY <1>1
  <2>2. PICK h \in Nat : h = Len(nodes[n].path) /\ h <= Len(p)
    BY <1>6, TreeNodes
  <2>3. nodes[n].path = Prefix(p, h) /\ \A i \in 1 .. h : Prefix(p, h)[i] = p[i]
    BY <1>4, <1>6, <2>2, PrefixProperties
  <2>4. CASE h = Len(p)
    <3>1. nodes[n].path = p
      <4>1. Prefix(p, Len(p)) = p
        BY SubSeqFull DEF Prefix
      <4>2. QED
        BY <2>3, <2>4, <4>1
    <3>2. n = x
      BY <1>3, <3>1 DEF IsTree
    <3>3. Len(parts) = Len(nodes[n].path) \/ IsStar(nodes[n])
      BY <1>4, <3>1 DEF IsStar
    <3>4. f[n] = n
      BY <2>1, <3>2, <3>3 DEF FoundFrom
    <3>5. QED
      BY <3>4
  <2>5. CASE h # Len(p)
    <3>1. h + 1 \in 0 .. Len(p) /\ h + 1 \in 1 .. Len(p) /\ h \in 0 .. Len(p) - 1
      BY <1>4, <2>2, <2>5
    <3>2. PICK c \in 1 .. x : nodes[c].path = Prefix(p, h + 1)
      BY <1>3, <3>1 DEF IsTree
    <3>3. c \in 1 .. N
      BY <1>2
    <3>4. PICK q \in Seq(Parts) : q = nodes[n].path /\ Len(q) = h
      BY <2>2, TreeNodes
    <3>5. PICK part \in Parts : part = p[h + 1]
      BY <3>1, ElementOfSeq
    <3>6. nodes[c].path = Append(q, part)
      BY <2>3, <3>1, <3>2, <3>4, <3>5, NextPrefix
    <3>7. /\ Len(nodes[c].path) = h + 1
          /\ Front(nodes[c].path) = q
          /\ Last(nodes[c].path) = part
          /\ nodes[c].path # <<>>
      BY <3>4, <3>6, AppendPrefix
    <3>8. part \in {parts[h + 1]} \cup Wild
      BY <1>4, <3>1, <3>5 DEF Leads
    <3>9. c \in MatchChildren(nodes, n, parts[h + 1])
      <4>1. c \in Children(nodes, n)
        BY <3>3, <3>4, <3>7, TreeNodes DEF Children
      <4>2. QED
        BY <3>7, <3>8, <4>1 DEF MatchChildren
    <3>10. h # Len(parts)
      BY <1>4, <3>1 DEF Leads
    <3>11. ~IsStar(nodes[n])
      <4>1. SUFFICES ASSUME IsStar(nodes[n]) PROVE FALSE
        OBVIOUS
      <4>2. h \in 1 .. h /\ q[h] \in Stars
        BY <2>2, <3>4, <4>1 DEF IsStar, Last
      <4>3. p[h] \in Stars /\ h \in 1 .. Len(p)
        BY <2>2, <2>3, <3>4, <4>2
      <4>4. h = Len(p)
        BY <1>3, <4>3 DEF StarsLast
      <4>5. QED
        BY <2>5, <4>4
    <3>12. Claim(c) /\ Above(c)
      <4>1. n < c
        BY <3>9, ChildFacts DEF MatchChildren
      <4>2. Above(c)
        BY <3>1, <3>2, <3>7
      <4>3. QED
        BY <1>6, <3>3, <4>1, <4>2
    <3> DEFINE M == MatchChildren(nodes, n, parts[h + 1])
               hits == {d \in M : f[d] # 0}
    <3>13. f[n] = IF hits = {} THEN 0 ELSE f[First(hits)]
      BY <2>1, <2>2, <3>10, <3>11 DEF FoundFrom
    <3>14. \A d \in M : d \in 1 .. N
      BY ChildFacts DEF MatchChildren
    <3>15. c \in hits
      BY <3>9, <3>12
    <3> HIDE DEF M
    <3>16. hits \in SUBSET Nat
      BY <1>2, <3>14
    <3>17. First(hits) \in hits
      BY <3>15, <3>16, FirstIsLeast
    <3>18. f[First(hits)] # 0
      BY <3>17
    <3>19. QED
      BY <3>13, <3>15, <3>18
  <2>6. QED
    BY <2>4, <2>5
<1>7. ASSUME NEW k \in Nat, k \in T PROVE k + 1 \in T
  <2>1. ASSUME NEW n \in 1 .. N, N - (k + 1) < n PROVE Claim(n)
    <3>1. \A c \in 1 .. N : n < c => N - k < c
      BY <1>2, <2>1
    <3>2. \A c \in 1 .. N : n < c => Claim(c)
      BY <1>7, <3>1
    <3> HIDE DEF Above
    <3>3. QED
      BY <1>6, <3>2
  <2> HIDE DEF Claim
  <2>2. QED
    BY <2>1
<1>8. N \in T
  <2> HIDE DEF T
  <2>1. QED
    BY <1>2, <1>5, <1>7, SetInduction
<1>9. Claim(1)
  BY <1>2, <1>8
<1>10. Above(1)
  <2>1. nodes[1].path = <<>>
    BY DEF IsTree
  <2>2. Prefix(p, 0) = <<>>
    BY SubSeqEmpty DEF Prefix
  <2>3. QED
    BY <1>4, <2>1, <2>2
<1>11. QED
  BY <1>1, <1>9, <1>10

-----------------------------------------------------------------------------
(* The invariant *)

RouterTypeOK ==
  /\ routes \in Seq(Verbs \X Patterns)
  /\ roots \in [Methods -> Seq(Node)]

\* There is a tree for the methods that have a route.
GrownTrees ==
  \A m \in Methods :
    /\ roots[m] # <<>> => IsTree(roots[m])
    /\ roots[m] = <<>> => RoutesOf(m) = {}

\* A pattern in a tree has a handler, and stands as deep as it is long.
HandledPatterns ==
  \A m \in Methods : \A n \in 1 .. Len(roots[m]) :
    roots[m][n].pattern # NoPattern =>
      /\ <<m, roots[m][n].pattern>> \in DOMAIN handlers
      /\ Len(roots[m][n].pattern) = Len(roots[m][n].path)

\* The patterns that were added to a tree.
PatternsOf(m) == {routes[k][2] : k \in RoutesOf(m)}

\* The nodes of a tree are the prefixes of its patterns, each pattern at its own.
ExactTree(m) ==
  /\ \A n \in 1 .. Len(roots[m]) :
       \E p \in PatternsOf(m) : \E j \in 0 .. Len(p) : roots[m][n].path = Prefix(p, j)
  /\ \A n \in 1 .. Len(roots[m]) :
       roots[m][n].pattern =
         IF roots[m][n].path \in PatternsOf(m) THEN roots[m][n].path ELSE NoPattern
  /\ \A p \in PatternsOf(m) : \E n \in 1 .. Len(roots[m]) : roots[m][n].path = p

\* So it is if no insertion has taken a wildcard for another part.
ExactTrees == \A m \in Methods : Clean(m) => ExactTree(m)

RouterInv ==
  /\ RouterTypeOK
  /\ GrownTrees
  /\ HandledPatterns
  /\ ExactTrees

\* The patterns of a method.
LEMMA PatternsOfMethod ==
  ASSUME RouterTypeOK, NEW m
  PROVE  /\ PatternsOf(m) \subseteq Patterns
         /\ \A k \in RoutesOf(m) : k \in 1 .. Len(routes) /\ routes[k][2] \in Patterns
<1>1. routes \in Seq(Verbs \X Patterns)
  BY DEF RouterTypeOK
<1>2. DOMAIN routes = 1 .. Len(routes) /\ \A k \in 1 .. Len(routes) : routes[k] \in Verbs \X Patterns
  BY <1>1, ElementOfSeq
<1>3. QED
  BY <1>2 DEF RoutesOf, PatternsOf

\* A tree of a root has no pattern.
LEMMA RootTree == IsTree(<<Root>>) /\ Len(<<Root>>) = 1 /\ <<Root>>[1] = Root
<1>1. PICK root \in Node : root = Root /\ root.path = <<>>
  <2>1. PICK path \in Seq(Parts) : path = <<>>
    BY EmptySeq
  <2>2. [path |-> path, pattern |-> NoPattern] \in Node
    BY DEF Node
  <2>3. Root = [path |-> path, pattern |-> NoPattern]
    BY <2>1 DEF Root
  <2>4. Root.path = path
    BY <2>3
  <2>5. QED
    BY <2>1, <2>2, <2>3, <2>4
<1>2. <<root>> \in Seq(Node) /\ Len(<<root>>) = 1 /\ <<root>>[1] = root
  OBVIOUS
<1>3. PICK nodes \in Seq(Node) : nodes = <<root>> /\ Len(nodes) = 1 /\ nodes[1] = root
  BY <1>2
<1>4. ASSUME NEW n \in 1 .. Len(nodes), NEW i \in 0 .. Len(nodes[n].path)
      PROVE  \E m \in 1 .. n : nodes[m].path = Prefix(nodes[n].path, i)
  <2>1. n = 1 /\ i = 0 /\ nodes[1].path = <<>>
    BY <1>1, <1>3
  <2>2. Prefix(<<>>, 0) = <<>>
    BY SubSeqEmpty DEF Prefix
  <2>3. QED
    BY <2>1, <2>2
<1>5. IsTree(nodes)
  BY <1>1, <1>3, <1>4 DEF IsTree
<1>6. QED
  BY <1>1, <1>3, <1>5

\* The tree a route is inserted into.
Before(m) == IF roots[m] = <<>> THEN <<Root>> ELSE roots[m]

\* It is one, whose patterns have handlers.
LEMMA BeforeFacts ==
  ASSUME RouterInv, NEW m \in Methods
  PROVE  /\ IsTree(Before(m))
         /\ \A n \in 1 .. Len(Before(m)) :
              Before(m)[n].pattern # NoPattern =>
                /\ <<m, Before(m)[n].pattern>> \in DOMAIN handlers
                /\ Len(Before(m)[n].pattern) = Len(Before(m)[n].path)
         /\ Clean(m) =>
              \A n \in 1 .. Len(Before(m)) :
                /\ \/ Before(m)[n].path = <<>>
                   \/ \E p \in PatternsOf(m) : \E j \in 0 .. Len(p) : 
                        Before(m)[n].path = Prefix(p, j)
                /\ Before(m)[n].pattern =
                     IF Before(m)[n].path \in PatternsOf(m) THEN Before(m)[n].path ELSE NoPattern
         /\ Clean(m) => \A p \in PatternsOf(m) : \E n \in 1 .. Len(Before(m)) : Before(m)[n].path = p
<1>1. CASE roots[m] = <<>>
  <2>1. Before(m) = <<Root>> /\ PatternsOf(m) = {}
    BY <1>1 DEF Before, RouterInv, GrownTrees, PatternsOf
  <2>2. PICK nodes : /\ nodes = Before(m) /\ IsTree(nodes) /\ Len(nodes) = 1
                     /\ nodes[1].path = <<>> /\ nodes[1].pattern = NoPattern
    BY <2>1, RootTree DEF Root
  <2>3. \A n \in 1 .. Len(nodes) : nodes[n].path = <<>> /\ nodes[n].pattern = NoPattern
    BY <2>2
  <2>4. QED
    BY <2>1, <2>2, <2>3
<1>2. CASE roots[m] # <<>>
  <2>1. Before(m) = roots[m]
    BY <1>2 DEF Before
  <2>2. IsTree(roots[m])
    BY <1>2 DEF RouterInv, GrownTrees
  <2>3. \A n \in 1 .. Len(roots[m]) :
          roots[m][n].pattern # NoPattern =>
            /\ <<m, roots[m][n].pattern>> \in DOMAIN handlers
            /\ Len(roots[m][n].pattern) = Len(roots[m][n].path)
    BY DEF RouterInv, HandledPatterns
  <2>4. Clean(m) => ExactTree(m)
    BY DEF RouterInv, ExactTrees
  <2>5. QED
    BY <2>1, <2>2, <2>3, <2>4 DEF ExactTree
<1>3. QED
  BY <1>1, <1>2

\* What adding a route does to the routes of each method.
LEMMA RoutesAdded ==
  ASSUME RouterTypeOK, NEW verb \in Verbs, NEW q \in Patterns, AddRoute(verb, q), NEW m \in Methods
  PROVE  /\ routes' \in Seq(Verbs \X Patterns)
         /\ Registered(verb) \in Methods
         /\ Len(routes) \in Nat
         /\ \A k \in 1 .. Len(routes) : routes'[k] = routes[k]
         /\ routes'[Len(routes) + 1] = <<verb, q>>
         /\ m # Registered(verb) => RoutesOf(m)' = RoutesOf(m) /\ PatternsOf(m)' = PatternsOf(m)
         /\ m = Registered(verb) => /\ RoutesOf(m)' = RoutesOf(m) \cup {Len(routes) + 1}
                                    /\ PatternsOf(m)' = PatternsOf(m) \cup {q}
<1>1. routes \in Seq(Verbs \X Patterns) /\ routes' = Append(routes, <<verb, q>>)
  BY DEF RouterTypeOK, AddRoute
<1>2. /\ Len(routes) \in Nat
      /\ routes' \in Seq(Verbs \X Patterns)
      /\ Len(routes') = Len(routes) + 1
      /\ \A k \in 1 .. Len(routes) : routes'[k] = routes[k]
      /\ routes'[Len(routes) + 1] = <<verb, q>>
  BY <1>1, AppendProperties
<1>3. Registered(verb) \in Methods
  BY DEF Registered, Methods
<1>4. DOMAIN routes = 1 .. Len(routes) /\ DOMAIN routes' = 1 .. Len(routes) + 1
  BY <1>1, <1>2
<1>5. \A k \in 1 .. Len(routes) + 1 : k \in 1 .. Len(routes) \/ k = Len(routes) + 1
  BY <1>2
<1>6. Len(routes) + 1 \in 1 .. Len(routes) + 1 /\ \A k \in 1 .. Len(routes) : k \in 1 .. Len(routes) + 1
  BY <1>2
<1>7. routes'[Len(routes) + 1][1] = verb /\ routes'[Len(routes) + 1][2] = q
  BY <1>2
<1>8. ASSUME m # Registered(verb) PROVE RoutesOf(m)' = RoutesOf(m)
  BY <1>2, <1>4, <1>5, <1>6, <1>7, <1>8 DEF RoutesOf
<1>9. ASSUME m = Registered(verb) PROVE RoutesOf(m)' = RoutesOf(m) \cup {Len(routes) + 1}
  BY <1>2, <1>4, <1>5, <1>6, <1>7, <1>9 DEF RoutesOf
<1>10. \A k \in RoutesOf(m) : k \in 1 .. Len(routes) /\ routes'[k][2] = routes[k][2]
  BY <1>2, <1>4 DEF RoutesOf
<1>11. ASSUME m # Registered(verb) PROVE PatternsOf(m)' = PatternsOf(m)
  BY <1>8, <1>10, <1>11 DEF PatternsOf
<1>12. ASSUME m = Registered(verb) PROVE PatternsOf(m)' = PatternsOf(m) \cup {q}
  BY <1>7, <1>9, <1>10, <1>12 DEF PatternsOf
<1>13. QED
  BY <1>2, <1>3, <1>8, <1>9, <1>11, <1>12

\* Routes that are clean were clean without the last one.
LEMMA CleanBefore ==
  ASSUME RouterTypeOK, NEW verb \in Verbs, NEW q \in Patterns, AddRoute(verb, q),
         NEW m \in Methods, Clean(m)'
  PROVE  Clean(m)
<1>1. RoutesOf(m) \subseteq RoutesOf(m)' /\ \A k \in RoutesOf(m) : routes'[k] = routes[k]
  BY RoutesAdded, PatternsOfMethod
<1>2. SUFFICES ASSUME NEW j \in RoutesOf(m), NEW k \in RoutesOf(m), j < k,
                      NEW i \in DOMAIN routes[j][2],
                      Agree(routes[j][2], routes[k][2], i - 1),
                      i <= Len(routes[k][2]),
                      routes[j][2][i] \in Wild
               PROVE  routes[j][2][i] = routes[k][2][i]
  BY DEF Clean
<1>3. j \in RoutesOf(m)' /\ k \in RoutesOf(m)' /\ routes'[j] = routes[j] /\ routes'[k] = routes[k]
  BY <1>1
<1>4. \A l \in DOMAIN routes'[j][2] :
        Agree(routes'[j][2], routes'[k][2], l - 1) /\ l <= Len(routes'[k][2])
        /\ routes'[j][2][l] \in Wild
        => routes'[j][2][l] = routes'[k][2][l]
  BY <1>2, <1>3 DEF Clean, Agree
<1>5. QED
  BY <1>2, <1>3, <1>4

\* And the last one does not clash with the tree of the others.
LEMMA CleanNoClash ==
  ASSUME RouterInv, NEW verb \in Verbs, NEW q \in Patterns, AddRoute(verb, q),
         Clean(Registered(verb))'
  PROVE  NoClash(Before(Registered(verb)), q)
<1> DEFINE m == Registered(verb)
<1>1. RouterTypeOK /\ m \in Methods
  BY DEF RouterInv, Registered, Methods
<1>2. Clean(m)
  BY <1>1, CleanBefore
<1>3. SUFFICES ASSUME NEW n \in 1 .. Len(Before(m)), NEW i \in 1 .. Len(q),
                      Len(Before(m)[n].path) = i,
                      Prefix(Before(m)[n].path, i - 1) = Prefix(q, i - 1),
                      Before(m)[n].path[i] \in Wild
               PROVE  Before(m)[n].path[i] = q[i]
  BY DEF NoClash
<1>4. PICK path : path = Before(m)[n].path
  OBVIOUS
<1>5. Len(<<>>) # i
  OBVIOUS
<1>6. PICK p \in PatternsOf(m) : \E j \in 0 .. Len(p) : path = Prefix(p, j)
  BY <1>1, <1>2, <1>3, <1>4, <1>5, BeforeFacts
<1>7. PICK j \in 0 .. Len(p) : path = Prefix(p, j)
  BY <1>6
<1>8. PICK k \in RoutesOf(m) : p = routes[k][2]
  BY <1>6 DEF PatternsOf
<1>9. p \in Seq(Parts) /\ q \in Seq(Parts) /\ k \in 1 .. Len(routes) /\ DOMAIN p = 1 .. Len(p)
  BY <1>1, <1>8, PatternsOfMethod, PatternProperties
<1>10. j = i /\ \A l \in 1 .. j : path[l] = p[l]
  <2>1. Len(Prefix(p, j)) = j /\ \A l \in 1 .. j : Prefix(p, j)[l] = p[l]
    BY <1>9, PrefixProperties
  <2>2. QED
    BY <1>3, <1>4, <1>7, <2>1
<1>11. i - 1 \in 0 .. i /\ i - 1 <= Len(p) /\ i - 1 <= Len(q) /\ i \in 1 .. Len(p) /\ i <= Len(q)
  BY <1>9, <1>10
<1>12. Prefix(path, i - 1) = Prefix(p, i - 1)
  BY <1>7, <1>9, <1>10, <1>11, PrefixOfPrefix
<1>13. Agree(p, q, i - 1)
  BY <1>3, <1>4, <1>11, <1>12 DEF Agree, Prefix
<1>14. PICK last : last = Len(routes) + 1
  OBVIOUS
<1>15. /\ k \in RoutesOf(m)'
       /\ last \in RoutesOf(m)'
       /\ k < last
       /\ routes'[k][2] = p
       /\ routes'[last][2] = q
  BY <1>1, <1>8, <1>9, <1>14, RoutesAdded
<1>16. p[i] \in Wild
  BY <1>3, <1>4, <1>10, <1>11
<1>17. \A l \in DOMAIN p :
         Agree(p, q, l - 1) /\ l <= Len(q) /\ p[l] \in Wild => p[l] = q[l]
  BY <1>15 DEF Clean, Agree
<1>18. p[i] = q[i]
  BY <1>9, <1>11, <1>13, <1>16, <1>17
<1>19. QED
  BY <1>4, <1>10, <1>11, <1>18

\* No route has been added.
LEMMA RouterInvInit == Init => RouterInv
<1> SUFFICES ASSUME Init PROVE RouterInv
  OBVIOUS
<1>1. routes = <<>> /\ \A m \in Methods : roots[m] = <<>>
  BY DEF Init
<1>2. RouterTypeOK
  <2>1. <<>> \in Seq(Node) /\ <<>> \in Seq(Verbs \X Patterns)
    BY EmptySeq
  <2>2. QED
    BY <2>1 DEF Init, RouterTypeOK
<1>3. \A m \in Methods : RoutesOf(m) = {} /\ PatternsOf(m) = {}
  BY <1>1 DEF RoutesOf, PatternsOf
<1>4. GrownTrees
  BY <1>1, <1>3 DEF GrownTrees
<1>5. \A m \in Methods : 1 .. Len(roots[m]) = {}
  BY <1>1
<1>6. HandledPatterns
  BY <1>5 DEF HandledPatterns
<1>7. ExactTrees
  BY <1>3, <1>5 DEF ExactTrees, ExactTree
<1>8. QED
  BY <1>2, <1>4, <1>6, <1>7 DEF RouterInv

\* The tree of another method stays.
LEMMA OtherTree ==
  ASSUME RouterInv, NEW verb \in Verbs, NEW q \in Patterns, AddRoute(verb, q),
         NEW m \in Methods, m # Registered(verb)
  PROVE  /\ roots'[m] = roots[m]
         /\ RoutesOf(m)' = RoutesOf(m)
         /\ PatternsOf(m)' = PatternsOf(m)
         /\ Clean(m)' => ExactTree(m)'
<1>1. RouterTypeOK
  BY DEF RouterInv
<1>2. roots'[m] = roots[m]
  BY <1>1 DEF AddRoute, RouterTypeOK
<1>3. RoutesOf(m)' = RoutesOf(m) /\ PatternsOf(m)' = PatternsOf(m)
  BY <1>1, RoutesAdded
<1>4. ASSUME Clean(m)' PROVE ExactTree(m)'
  <2>1. Clean(m)
    BY <1>1, <1>4, CleanBefore
  <2>2. ExactTree(m)
    BY <2>1 DEF RouterInv, ExactTrees
  <2>3. QED
    BY <1>2, <1>3, <2>2 DEF ExactTree
<1>5. QED
  BY <1>2, <1>3, <1>4

\* The tree that gets the route, if the routes are clean.
LEMMA OwnTreeExact ==
  ASSUME RouterInv, NEW verb \in Verbs, NEW q \in Patterns, AddRoute(verb, q),
         Clean(Registered(verb))'
  PROVE  ExactTree(Registered(verb))'
<1> DEFINE m == Registered(verb)
<1>1. RouterTypeOK /\ m \in Methods
  BY DEF RouterInv, Registered, Methods
<1>2. PICK nodes, new : nodes = Before(m) /\ new = Insert(nodes, q)
  OBVIOUS
<1>3. roots'[m] = new
  BY <1>1, <1>2 DEF AddRoute, Before, RouterTypeOK
<1>4. IsTree(nodes) /\ NoClash(nodes, q) /\ Clean(m)
  BY <1>1, <1>2, BeforeFacts, CleanNoClash, CleanBefore
<1>5. /\ \A n \in 1 .. Len(nodes) :
           /\ \/ nodes[n].path = <<>>
              \/ \E p \in PatternsOf(m) : \E j \in 0 .. Len(p) : nodes[n].path = Prefix(p, j)
           /\ nodes[n].pattern =
                IF nodes[n].path \in PatternsOf(m) THEN nodes[n].path ELSE NoPattern
      /\ \A p \in PatternsOf(m) : \E n \in 1 .. Len(nodes) : nodes[n].path = p
  BY <1>1, <1>2, <1>4, BeforeFacts
<1>6. /\ \E n \in 1 .. Len(new) : new[n].path = q
      /\ \A n \in 1 .. Len(nodes) :
           /\ n \in 1 .. Len(new)
           /\ new[n].path = nodes[n].path
      /\ \A n \in 1 .. Len(new) :
           /\ \/ n \in 1 .. Len(nodes)
              \/ \E j \in 0 .. Len(q) : new[n].path = Prefix(q, j)
           /\ new[n].pattern =
                IF new[n].path = q THEN q
                ELSE IF n \in 1 .. Len(nodes) THEN nodes[n].pattern
                ELSE NoPattern
  BY <1>2, <1>4, InsertTree
<1>7. PatternsOf(m)' = PatternsOf(m) \cup {q}
  BY <1>1, RoutesAdded
<1>8. 0 \in 0 .. Len(q) /\ Prefix(q, 0) = <<>>
  BY PatternProperties, SubSeqEmpty DEF Prefix
<1>9. ASSUME NEW n \in 1 .. Len(new)
      PROVE  \E p \in PatternsOf(m) \cup {q} : \E j \in 0 .. Len(p) : new[n].path = Prefix(p, j)
  <2>1. CASE n \in 1 .. Len(nodes)
    <3>1. new[n].path = nodes[n].path
      BY <1>6, <2>1
    <3>2. CASE new[n].path = <<>>
      <4>1. new[n].path = Prefix(q, 0)
        BY <1>8, <3>2
      <4>2. \E j \in 0 .. Len(q) : new[n].path = Prefix(q, j)
        BY <1>8, <4>1
      <4>3. QED
        BY <4>2
    <3>3. CASE new[n].path # <<>>
      <4>1. \E p \in PatternsOf(m) : \E j \in 0 .. Len(p) : nodes[n].path = Prefix(p, j)
        BY <1>5, <2>1, <3>1, <3>3
      <4>2. \E p \in PatternsOf(m) : \E j \in 0 .. Len(p) : new[n].path = Prefix(p, j)
        BY <3>1, <4>1
      <4>3. QED
        BY <4>2
    <3>4. QED
      BY <3>2, <3>3
  <2>2. CASE \E j \in 0 .. Len(q) : new[n].path = Prefix(q, j)
    BY <2>2
  <2>3. QED
    BY <1>6, <2>1, <2>2
<1>10. IsTree(new)
  BY <1>2, <1>4, InsertTree
<1>11. ASSUME NEW n \in 1 .. Len(new)
       PROVE  new[n].pattern =
                IF new[n].path \in PatternsOf(m) \cup {q} THEN new[n].path ELSE NoPattern
  <2>1. CASE new[n].path = q
    BY <1>6, <2>1
  <2>2. CASE new[n].path # q /\ n \in 1 .. Len(nodes)
    BY <1>5, <1>6, <2>2
  <2>3. CASE new[n].path # q /\ n \notin 1 .. Len(nodes)
    <3>1. new[n].pattern = NoPattern
      BY <1>6, <2>3
    <3>2. new[n].path \notin PatternsOf(m)
      <4>1. SUFFICES ASSUME new[n].path \in PatternsOf(m) PROVE FALSE
        OBVIOUS
      <4>2. PICK x \in 1 .. Len(nodes) : nodes[x].path = new[n].path
        BY <1>5, <4>1
      <4>3. x \in 1 .. Len(new) /\ new[x].path = new[n].path
        BY <1>6, <4>2
      <4>4. x = n
        BY <1>10, <4>3 DEF IsTree
      <4>5. QED
        BY <2>3, <4>4
    <3>3. QED
      BY <2>3, <3>1, <3>2
  <2>4. QED
    BY <2>1, <2>2, <2>3
<1>12. \A p \in PatternsOf(m) \cup {q} : \E n \in 1 .. Len(new) : new[n].path = p
  BY <1>5, <1>6
<1>13. QED
  BY <1>3, <1>7, <1>9, <1>11, <1>12 DEF ExactTree

\* Adding a route preserves the invariant.
LEMMA AddRouteInv ==
  ASSUME RouterInv, NEW verb \in Verbs, NEW q \in Patterns, AddRoute(verb, q)
  PROVE  RouterInv'
<1> DEFINE m == Registered(verb)
<1>1. RouterTypeOK /\ m \in Methods
  BY DEF RouterInv, Registered, Methods
<1>2. PICK nodes, new : nodes = Before(m) /\ new = Insert(nodes, q)
  OBVIOUS
<1>3. roots' = [roots EXCEPT ![m] = new]
  BY <1>2 DEF AddRoute, Before
<1>4. IsTree(nodes) /\ IsTree(new)
  BY <1>1, <1>2, BeforeFacts, InsertTree
<1>5. RouterTypeOK'
  <2>1. new \in Seq(Node)
    BY <1>4 DEF IsTree
  <2>2. roots' \in [Methods -> Seq(Node)]
    BY <1>1, <1>3, <2>1 DEF RouterTypeOK
  <2>3. routes' \in Seq(Verbs \X Patterns)
    BY <1>1, RoutesAdded
  <2>4. QED
    BY <2>2, <2>3 DEF RouterTypeOK
<1>6. roots'[m] = new
  BY <1>1, <1>3 DEF RouterTypeOK
<1>7. GrownTrees'
  <2>1. ASSUME NEW k \in Methods
        PROVE  /\ roots'[k] # <<>> => IsTree(roots'[k])
               /\ roots'[k] = <<>> => RoutesOf(k)' = {}
    <3>1. CASE k = m
      <4>1. roots'[k] = new
        BY <1>6, <3>1
      <4>2. Len(new) # 0
        BY <1>4 DEF IsTree
      <4>3. Len(<<>>) = 0
        OBVIOUS
      <4>4. new # <<>>
        BY <4>2, <4>3
      <4>5. QED
        BY <1>4, <4>1, <4>4
    <3>2. CASE k # m
      BY <3>2, OtherTree DEF RouterInv, GrownTrees
    <3>3. QED
      BY <3>1, <3>2
  <2>2. QED
    BY <2>1 DEF GrownTrees
<1>8. HandledPatterns'
  <2>1. <<m, q>> \in DOMAIN handlers' /\ DOMAIN handlers \subseteq DOMAIN handlers'
    BY DEF AddRoute
  <2>2. ASSUME NEW k \in Methods, NEW n \in 1 .. Len(roots'[k]), roots'[k][n].pattern # NoPattern
        PROVE  /\ <<k, roots'[k][n].pattern>> \in DOMAIN handlers'
               /\ Len(roots'[k][n].pattern) = Len(roots'[k][n].path)
    <3>1. CASE k = m
      <4>1. \/ new[n].pattern = NoPattern
            \/ new[n].pattern = q /\ Len(new[n].path) = Len(q)
            \/ n \in 1 .. Len(nodes) /\ new[n] = nodes[n]
        BY <1>2, <1>4, <1>6, <2>2, <3>1, InsertTree
      <4>2. \A x \in 1 .. Len(nodes) :
              nodes[x].pattern # NoPattern =>
                /\ <<m, nodes[x].pattern>> \in DOMAIN handlers
                /\ Len(nodes[x].pattern) = Len(nodes[x].path)
        BY <1>1, <1>2, BeforeFacts
      <4>3. new[n].pattern # NoPattern
        BY <1>6, <2>2, <3>1
      <4>4. <<m, new[n].pattern>> \in DOMAIN handlers' /\ Len(new[n].pattern) = Len(new[n].path)
        BY <2>1, <4>1, <4>2, <4>3
      <4>5. QED
        BY <1>6, <3>1, <4>4
    <3>2. CASE k # m
      <4>1. roots'[k] = roots[k]
        BY <3>2, OtherTree
      <4>2. /\ <<k, roots[k][n].pattern>> \in DOMAIN handlers
            /\ Len(roots[k][n].pattern) = Len(roots[k][n].path)
        BY <2>2, <4>1 DEF RouterInv, HandledPatterns
      <4>3. QED
        BY <2>1, <4>1, <4>2
    <3>3. QED
      BY <3>1, <3>2
  <2>3. QED
    BY <2>2 DEF HandledPatterns
<1>9. ExactTrees'
  <2>1. ASSUME NEW k \in Methods, Clean(k)' PROVE ExactTree(k)'
    <3>1. CASE k = m
      BY <2>1, <3>1, OwnTreeExact
    <3>2. CASE k # m
      BY <2>1, <3>2, OtherTree
    <3>3. QED
      BY <3>1, <3>2
  <2>2. QED
    BY <2>1 DEF ExactTrees
<1>10. QED
  BY <1>5, <1>7, <1>8, <1>9 DEF RouterInv

\* A path is a sequence of parts.
LEMMA PathParts == \A parts \in Paths : parts \in Seq(Parts) /\ Len(parts) \in Nat
<1>1. SUFFICES ASSUME NEW parts \in Paths PROVE parts \in Seq(Parts)
  OBVIOUS
<1>2. PICK k \in 0 .. MaxParts + 1 : parts \in [1 .. k -> Names]
  BY DEF Paths, BoundedSeq, SeqOf
<1>3. k \in Nat /\ Names \subseteq Parts
  BY RouterAssumption DEF Parts
<1>4. parts \in Seq(Names)
  BY <1>2, <1>3, SeqDef
<1>5. QED
  BY <1>3, <1>4

\* In an exact tree nothing stands behind a star, as in the patterns.
LEMMA ExactStarsLast ==
  ASSUME RouterTypeOK, NEW m \in Methods, ExactTree(m)
  PROVE  StarsLast(roots[m])
<1>1. SUFFICES ASSUME NEW n \in 1 .. Len(roots[m]), NEW i \in 1 .. Len(roots[m][n].path),
                      roots[m][n].path[i] \in Stars
               PROVE  i = Len(roots[m][n].path)
  BY DEF StarsLast
<1>2. PICK path : path = roots[m][n].path
  OBVIOUS
<1>3. PICK p \in PatternsOf(m) : \E j \in 0 .. Len(p) : path = Prefix(p, j)
  BY <1>2 DEF ExactTree
<1>4. PICK j \in 0 .. Len(p) : path = Prefix(p, j)
  BY <1>3
<1>5. /\ p \in Seq(Parts)
      /\ Len(p) \in Nat
      /\ \A l \in 1 .. Len(p) : p[l] \in Stars => l = Len(p)
  BY <1>3, PatternsOfMethod, PatternProperties
<1>6. Len(path) = j /\ \A l \in 1 .. j : path[l] = p[l]
  BY <1>4, <1>5, PrefixProperties
<1>7. i \in 1 .. j /\ i \in 1 .. Len(p) /\ p[i] \in Stars
  BY <1>1, <1>2, <1>4, <1>5, <1>6
<1>8. i = Len(p)
  BY <1>5, <1>7
<1>9. QED
  BY <1>2, <1>6, <1>7, <1>8

\* The search of an exact tree finds a pattern that fits, if there is one.
LEMMA ExactSearch ==
  ASSUME RouterInv, NEW m \in Methods, ExactTree(m), roots[m] # <<>>, NEW parts \in Paths
  PROVE  IF Candidates(m, parts) = {}
           THEN GetRoute(m, parts) = NoPattern
           ELSE GetRoute(m, parts) \in Candidates(m, parts)
<1>1. PICK nodes, x : nodes = roots[m] /\ x = Search(nodes, parts)
  OBVIOUS
<1>2. RouterTypeOK /\ IsTree(nodes) /\ Len(parts) \in Nat
  BY <1>1, PathParts DEF RouterInv, GrownTrees
<1>3. Candidates(m, parts) = {p \in PatternsOf(m) : Fits(p, parts)}
  BY DEF Candidates, PatternsOf
<1>4. \A n \in 1 .. Len(nodes) :
        nodes[n].pattern = IF nodes[n].path \in PatternsOf(m) THEN nodes[n].path ELSE NoPattern
  BY <1>1 DEF ExactTree
<1>5. CASE x = 0
  <2>1. GetRoute(m, parts) = NoPattern
    BY <1>1, <1>5 DEF GetRoute
  <2>2. ASSUME NEW p \in PatternsOf(m), Fits(p, parts) PROVE FALSE
    <3>1. PICK n \in 1 .. Len(nodes) : nodes[n].path = p
      BY <1>1 DEF ExactTree
    <3>2. nodes[n].pattern = p /\ p \in Patterns
      BY <1>2, <1>4, <3>1, PatternsOfMethod
    <3>3. nodes[n].pattern # NoPattern
      BY <3>2, PatternAssumption
    <3>4. StarsLast(nodes)
      BY <1>1, <1>2, ExactStarsLast
    <3>5. Fits(nodes[n].path, parts)
      BY <2>2, <3>1
    <3>6. Search(nodes, parts) # 0
      BY <1>2, <3>1, <3>3, <3>4, <3>5, SearchComplete
    <3>7. QED
      BY <1>1, <1>5, <3>6
  <2>3. QED
    BY <1>3, <2>1, <2>2
<1>6. CASE x # 0
  <2>1. GetRoute(m, parts) = nodes[x].pattern
    BY <1>1, <1>6 DEF GetRoute
  <2>2. x \in 1 .. Len(nodes) /\ nodes[x].pattern # NoPattern /\ Fits(nodes[x].path, parts)
    BY <1>1, <1>2, <1>6, SearchSound
  <2>3. nodes[x].path \in PatternsOf(m) /\ nodes[x].pattern = nodes[x].path
    BY <1>4, <2>2
  <2>4. QED
    BY <1>3, <2>1, <2>2, <2>3
<1>7. QED
  BY <1>5, <1>6

-----------------------------------------------------------------------------
(* Theorems *)

\* The trees are trees whose patterns have handlers, and those of clean routes are
\* exact.
THEOREM RouterInvariance == Spec => []RouterInv
<1>1. RouterInv /\ [Next]_vars => RouterInv'
  <2>1. SUFFICES ASSUME RouterInv, [Next]_vars PROVE RouterInv'
    OBVIOUS
  <2>2. CASE UNCHANGED vars
    <3>1. roots' = roots /\ handlers' = handlers /\ routes' = routes
      BY <2>2 DEF vars
    <3>2. ASSUME NEW m PROVE RoutesOf(m)' = RoutesOf(m) /\ PatternsOf(m)' = PatternsOf(m)
      BY <3>1 DEF RoutesOf, PatternsOf
    <3>3. ASSUME NEW m PROVE (Clean(m) <=> Clean(m)') /\ (ExactTree(m) <=> ExactTree(m)')
      <4>1. RoutesOf(m)' = RoutesOf(m) /\ PatternsOf(m)' = PatternsOf(m)
        BY <3>2
      <4>2. Clean(m) <=> Clean(m)'
        BY <3>1, <4>1 DEF Clean
      <4>3. ExactTree(m) <=> ExactTree(m)'
        BY <3>1, <4>1 DEF ExactTree
      <4>4. QED
        BY <4>2, <4>3
    <3>4. RouterTypeOK'
      BY <2>1, <3>1 DEF RouterInv, RouterTypeOK
    <3>5. GrownTrees'
      BY <2>1, <3>1, <3>2 DEF RouterInv, GrownTrees
    <3>6. HandledPatterns'
      BY <2>1, <3>1 DEF RouterInv, HandledPatterns
    <3>7. ExactTrees'
      BY <2>1, <3>3 DEF RouterInv, ExactTrees
    <3>8. QED
      BY <3>4, <3>5, <3>6, <3>7 DEF RouterInv
  <2>3. CASE Next
    BY <2>1, <2>3, AddRouteInv DEF Next
  <2>4. QED
    BY <2>1, <2>2, <2>3
<1>2. QED
  BY <1>1, RouterInvInit, PTL DEF Spec

\* The trees have the types they should, the routes too.
THEOREM RouterTypeCorrect == Spec => []RouterTypeOK
<1>1. RouterInv => RouterTypeOK
  BY DEF RouterInv
<1>2. QED
  BY <1>1, RouterInvariance, PTL

\* Whatever patterns were merged in a tree, router.handle finds a handler for the
\* pattern it has found, and getRoute does not index past the end of the path.
THEOREM ServedSafely == Spec => []ServesSafely
<1>1. ASSUME RouterInv PROVE ServesSafely
  <2>1. SUFFICES ASSUME NEW m \in Methods, NEW parts \in Paths,
                        GetRoute(m, parts) # NoPattern
                 PROVE  /\ <<m, GetRoute(m, parts)>> \in DOMAIN handlers
                        /\ \A i \in DOMAIN GetRoute(m, parts) :
                             GetRoute(m, parts)[i] \in Wild => i <= Len(parts)
    BY DEF ServesSafely
  <2>2. PICK nodes, x : nodes = roots[m] /\ x = Search(nodes, parts)
    OBVIOUS
  <2>3. nodes # <<>> /\ x # 0 /\ GetRoute(m, parts) = nodes[x].pattern
    BY <2>1, <2>2 DEF GetRoute
  <2>4. IsTree(nodes)
    BY <1>1, <2>2, <2>3 DEF RouterInv, GrownTrees
  <2>5. Len(parts) \in Nat
    BY PathParts
  <2>6. x \in 1 .. Len(nodes) /\ nodes[x].pattern # NoPattern /\ Fits(nodes[x].path, parts)
    BY <2>2, <2>3, <2>4, <2>5, SearchSound
  <2>7. PICK p \in Patterns : p = nodes[x].pattern
    BY <2>4, <2>6, TreeNodes
  <2>8. <<m, p>> \in DOMAIN handlers /\ Len(p) = Len(nodes[x].path)
    BY <1>1, <2>2, <2>6, <2>7 DEF RouterInv, HandledPatterns
  <2>9. Len(nodes[x].path) <= Len(parts)
    BY <2>4, <2>5, <2>6, TreeNodes, LeadsFits DEF Leads
  <2>10. \A i \in DOMAIN p : i <= Len(parts)
    BY <2>5, <2>8, <2>9, PatternProperties
  <2>11. QED
    BY <2>3, <2>7, <2>8, <2>10
<1>2. QED
  BY <1>1, RouterInvariance, PTL

\* A request is answered by a route that fits it whenever there is one, and by
\* nothing else, if no insertion has taken a wildcard for another part: search
\* comes back from every branch that leads nowhere.
THEOREM RoutesExactly == Spec => []RoutesExact
<1>1. ASSUME RouterInv PROVE RoutesExact
  <2>1. SUFFICES ASSUME NEW m \in Methods, Clean(m), NEW parts \in Paths
                 PROVE  IF Candidates(m, parts) = {}
                          THEN GetRoute(m, parts) = NoPattern
                          ELSE GetRoute(m, parts) \in Candidates(m, parts)
    BY DEF RoutesExact
  <2>2. CASE roots[m] = <<>>
    <3>1. GetRoute(m, parts) = NoPattern
      BY <2>2 DEF GetRoute
    <3>2. RoutesOf(m) = {}
      BY <1>1, <2>2 DEF RouterInv, GrownTrees
    <3>3. Candidates(m, parts) = {}
      BY <3>2 DEF Candidates
    <3>4. QED
      BY <3>1, <3>3
  <2>3. CASE roots[m] # <<>>
    <3>1. ExactTree(m)
      BY <1>1, <2>1 DEF RouterInv, ExactTrees
    <3>2. QED
      BY <1>1, <2>3, <3>1, ExactSearch
  <2>4. QED
    BY <2>2, <2>3
<1>2. QED
  BY <1>1, RouterInvariance, PTL

\* The engine with its groups uses the router as Router says: making a group or
\* using a middleware leaves the trees alone, and a group adds its routes with
\* addRoute.
THEOREM RouterImplemented == EngineSpec => Spec
<1>1. EngineInit => Init
  BY DEF EngineInit
<1>2. [EngineNext]_engineVars => [Next]_vars
  <2>1. SUFFICES ASSUME [EngineNext]_engineVars PROVE [Next]_vars
    OBVIOUS
  <2>2. CASE UNCHANGED engineVars
    BY <2>2 DEF engineVars
  <2>3. CASE EngineNext
    <3>1. PICK g \in DOMAIN groups :
            \/ \E prefix \in GroupPrefixes : Group(g, prefix)
            \/ Use(g)
            \/ \E verb \in Verbs, pattern \in Patterns : AddTo(g, verb, pattern)
      BY <2>3 DEF EngineNext
    <3>2. CASE \E prefix \in GroupPrefixes : Group(g, prefix)
      BY <3>2 DEF Group
    <3>3. CASE Use(g)
      BY <3>3 DEF Use
    <3>4. CASE \E verb \in Verbs, pattern \in Patterns : AddTo(g, verb, pattern)
      BY <3>4 DEF AddTo, Next
    <3>5. QED
      BY <3>1, <3>2, <3>3, <3>4
  <2>4. QED
    BY <2>1, <2>2, <2>3
<1>3. QED
  BY <1>1, <1>2, PTL DEF EngineSpec, Spec

\* So whatever groups the routes are added with, requests are answered by a route
\* that fits them and find their handler.
THEOREM EngineRoutes == EngineSpec => [](RoutesExact /\ ServesSafely)
BY RouterImplemented, RoutesExactly, ServedSafely, PTL

-----------------------------------------------------------------------------
(* Groups *)

\* What a group of the engine is.
GroupRecord == [parent : Nat, prefix : Seq(Parts), middlewares : Seq(Nat \X Nat)]

\* The types of groups and owner.
EngineTypeOK ==
  /\ groups \in Seq(GroupRecord)
  /\ owner \in Seq(Nat)

\* A group comes behind the one it was made in, has its prefix, and knows its own
\* middlewares.
GroupInv ==
  \A g \in 1 .. Len(groups) :
    /\ groups[g].parent \in 0 .. g - 1
    /\ groups[g].parent # 0 => IsPrefix(groups[groups[g].parent].prefix, groups[g].prefix)
    /\ \A i \in 1 .. Len(groups[g].middlewares) : groups[g].middlewares[i] = <<g, i>>

\* A route begins with the prefix of its group.
OwnerInv ==
  /\ Len(owner) = Len(routes)
  /\ \A k \in 1 .. Len(routes) :
       owner[k] \in 1 .. Len(groups) /\ IsPrefix(groups[owner[k]].prefix, routes[k][2])

\* The invariant of the groups.
EngineInv == RouterTypeOK /\ EngineTypeOK /\ GroupInv /\ OwnerInv

\* A prefix has the first parts of what it is a prefix of.
LEMMA IsPrefixFacts ==
  ASSUME NEW p \in Seq(Parts), NEW q \in Seq(Parts)
  PROVE  IsPrefix(p, q) <=> Len(p) <= Len(q) /\ \A i \in 1 .. Len(p) : p[i] = q[i]
<1>1. Len(p) \in Nat /\ Len(q) \in Nat
  OBVIOUS
<1>2. CASE Len(p) <= Len(q)
  <2>1. Len(p) \in 0 .. Len(p) /\ Len(p) \in 0 .. Len(q)
    BY <1>1, <1>2
  <2>2. PICK m \in Nat : m = Len(p)
    BY <1>1
  <2>3. /\ Prefix(p, m) \in Seq(Parts) /\ Len(Prefix(p, m)) = m
        /\ \A i \in 1 .. m : Prefix(p, m)[i] = p[i]
    BY <2>1, <2>2, PrefixProperties
  <2>4. /\ Prefix(q, m) \in Seq(Parts) /\ Len(Prefix(q, m)) = m
        /\ \A i \in 1 .. m : Prefix(q, m)[i] = q[i]
    BY <2>1, <2>2, PrefixProperties
  <2>5. Prefix(p, m) = Prefix(q, m) <=> \A i \in 1 .. m : p[i] = q[i]
    <3>1. ASSUME \A i \in 1 .. m : p[i] = q[i] PROVE Prefix(p, m) = Prefix(q, m)
      BY <2>3, <2>4, <3>1, SameSequence
    <3>2. ASSUME Prefix(p, m) = Prefix(q, m), NEW i \in 1 .. m PROVE p[i] = q[i]
      BY <2>3, <2>4, <3>2
    <3>3. QED
      BY <3>1, <3>2
  <2>6. QED
    BY <1>2, <2>2, <2>5 DEF IsPrefix, Prefix
<1>3. CASE ~(Len(p) <= Len(q))
  BY <1>3 DEF IsPrefix
<1>4. QED
  BY <1>2, <1>3

\* A prefix of a prefix is one.
LEMMA IsPrefixTransitive ==
  ASSUME NEW p \in Seq(Parts), NEW q \in Seq(Parts), NEW r \in Seq(Parts),
         IsPrefix(p, q), IsPrefix(q, r)
  PROVE  IsPrefix(p, r)
<1>1. Len(p) \in Nat /\ Len(q) \in Nat /\ Len(r) \in Nat
  OBVIOUS
<1>2. Len(p) <= Len(q) /\ \A i \in 1 .. Len(p) : p[i] = q[i]
  BY IsPrefixFacts
<1>3. Len(q) <= Len(r) /\ \A i \in 1 .. Len(q) : q[i] = r[i]
  BY IsPrefixFacts
<1>4. Len(p) <= Len(r) /\ \A i \in 1 .. Len(p) : i \in 1 .. Len(q)
  BY <1>1, <1>2, <1>3
<1>5. \A i \in 1 .. Len(p) : p[i] = r[i]
  BY <1>2, <1>3, <1>4
<1>6. QED
  BY <1>4, <1>5, IsPrefixFacts

\* So is a sequence of itself, and of a longer one.
LEMMA IsPrefixConcat ==
  ASSUME NEW p \in Seq(Parts), NEW q \in Seq(Parts)
  PROVE  p \o q \in Seq(Parts) /\ IsPrefix(p, p \o q) /\ IsPrefix(p, p)
<1>1. PICK r \in Seq(Parts) :
        /\ r = p \o q /\ Len(r) = Len(p) + Len(q)
        /\ \A i \in 1 .. Len(p) + Len(q) : r[i] = IF i <= Len(p) THEN p[i] ELSE q[i - Len(p)]
  <2>1. PICK r : r = p \o q
    OBVIOUS
  <2>2. /\ r \in Seq(Parts) /\ Len(r) = Len(p) + Len(q)
        /\ \A i \in 1 .. Len(p) + Len(q) : r[i] = IF i <= Len(p) THEN p[i] ELSE q[i - Len(p)]
    BY <2>1, ConcatProperties
  <2>3. QED
    BY <2>1, <2>2
<1>2. Len(p) \in Nat /\ Len(q) \in Nat
  OBVIOUS
<1>3. Len(p) <= Len(r) /\ \A i \in 1 .. Len(p) : i \in 1 .. Len(p) + Len(q) /\ i <= Len(p)
  BY <1>1, <1>2
<1>4. \A i \in 1 .. Len(p) : p[i] = r[i]
  BY <1>1, <1>3
<1>5. IsPrefix(p, r)
  BY <1>3, <1>4, IsPrefixFacts
<1>6. IsPrefix(p, p)
  BY <1>2, IsPrefixFacts
<1>7. QED
  BY <1>1, <1>5, <1>6

\* What a group's fields are.
LEMMA GroupFacts ==
  ASSUME EngineTypeOK
  PROVE  /\ Len(groups) \in Nat
         /\ DOMAIN groups = 1 .. Len(groups)
         /\ \A g \in 1 .. Len(groups) :
              /\ groups[g] \in GroupRecord
              /\ groups[g].parent \in Nat
              /\ groups[g].prefix \in Seq(Parts)
              /\ groups[g].middlewares \in Seq(Nat \X Nat)
              /\ Len(groups[g].middlewares) \in Nat
<1>1. groups \in Seq(GroupRecord)
  BY DEF EngineTypeOK
<1>2. Len(groups) \in Nat /\ DOMAIN groups = 1 .. Len(groups)
  BY <1>1
<1>3. ASSUME NEW g \in 1 .. Len(groups) PROVE groups[g] \in GroupRecord
  BY <1>1, ElementOfSeq
<1>4. ASSUME NEW g \in 1 .. Len(groups)
      PROVE  /\ groups[g].parent \in Nat
             /\ groups[g].prefix \in Seq(Parts)
             /\ groups[g].middlewares \in Seq(Nat \X Nat)
  BY <1>3 DEF GroupRecord
<1>5. ASSUME NEW s \in Seq(Nat \X Nat) PROVE Len(s) \in Nat
  OBVIOUS
<1>6. QED
  BY <1>2, <1>3, <1>4, <1>5

\* There is the engine's own group.
LEMMA EngineInvInit == EngineInit => EngineInv
<1> SUFFICES ASSUME EngineInit PROVE EngineInv
  OBVIOUS
<1>1. RouterTypeOK /\ routes = <<>> /\ owner = <<>>
  BY RouterInvInit DEF EngineInit, RouterInv, Init
<1>2. PICK own \in GroupRecord : own = NewGroup(0, <<>>) /\ own.parent = 0 /\ own.middlewares = <<>>
  <2>1. PICK prefix \in Seq(Parts) : prefix = <<>>
    BY EmptySeq
  <2>2. PICK none \in Seq(Nat \X Nat) : none = <<>>
    BY EmptySeq
  <2>3. [parent |-> 0, prefix |-> prefix, middlewares |-> none] \in GroupRecord
    BY DEF GroupRecord
  <2>4. NewGroup(0, <<>>) = [parent |-> 0, prefix |-> prefix, middlewares |-> none]
    BY <2>1, <2>2 DEF NewGroup
  <2>5. QED
    BY <2>2, <2>3, <2>4
<1>3. groups = <<own>>
  BY <1>2 DEF EngineInit
<1>4. groups \in Seq(GroupRecord) /\ Len(groups) = 1 /\ groups[1] = own
  BY <1>3
<1>5. EngineTypeOK
  BY <1>1, <1>4, EmptySeq DEF EngineTypeOK
<1>6. GroupInv
  <2>1. ASSUME NEW g \in 1 .. Len(groups)
        PROVE  groups[g].parent = 0 /\ g = 1 /\ Len(groups[g].middlewares) = 0
    BY <1>2, <1>4, EmptySeq
  <2>2. QED
    BY <2>1 DEF GroupInv
<1>7. OwnerInv
  BY <1>1, EmptySeq DEF OwnerInv
<1>8. QED
  BY <1>1, <1>5, <1>6, <1>7 DEF EngineInv

\* What a new group has.
LEMMA GroupStep ==
  ASSUME EngineInv, NEW g \in 1 .. Len(groups), NEW prefix \in GroupPrefixes, Group(g, prefix)
  PROVE  EngineInv'
<1>1. EngineTypeOK /\ GroupInv /\ OwnerInv /\ RouterTypeOK
  BY DEF EngineInv
<1>2. PICK parent \in GroupRecord : parent = groups[g] /\ parent.prefix \in Seq(Parts)
  BY <1>1, GroupFacts
<1>3. prefix \in Seq(Parts)
  <2>1. prefix \in Seq(Names \cup Colons) /\ Names \cup Colons \subseteq Parts
    BY EngineAssumption DEF Parts, Wild
  <2>2. QED
    BY <2>1
<1>4. PICK p \in Seq(Parts) : p = parent.prefix \o prefix /\ IsPrefix(parent.prefix, p)
  BY <1>2, <1>3, IsPrefixConcat
<1>5. g \in Nat
  BY <1>1, GroupFacts
<1>6. PICK new \in GroupRecord :
        /\ new = NewGroup(g, p)
        /\ new.parent = g
        /\ new.prefix = p
        /\ new.middlewares = <<>>
  <2>1. PICK none \in Seq(Nat \X Nat) : none = <<>>
    BY EmptySeq
  <2>2. [parent |-> g, prefix |-> p, middlewares |-> none] \in GroupRecord
    BY <1>5 DEF GroupRecord
  <2>3. NewGroup(g, p) = [parent |-> g, prefix |-> p, middlewares |-> none]
    BY <2>1 DEF NewGroup
  <2>4. QED
    BY <2>1, <2>2, <2>3
<1>7. /\ groups' = Append(groups, new)
      /\ UNCHANGED vars /\ owner' = owner
  BY <1>2, <1>4, <1>6 DEF Group
<1>8. /\ groups' \in Seq(GroupRecord)
      /\ Len(groups') = Len(groups) + 1
      /\ \A h \in 1 .. Len(groups) : groups'[h] = groups[h]
      /\ groups'[Len(groups) + 1] = new
  BY <1>1, <1>7, AppendProperties DEF EngineTypeOK
<1>9. Len(groups) \in Nat
  BY <1>1, GroupFacts
<1>10. EngineTypeOK'
  BY <1>1, <1>7, <1>8 DEF EngineTypeOK
<1>11. GroupInv'
  <2>1. ASSUME NEW h \in 1 .. Len(groups')
        PROVE  /\ groups'[h].parent \in 0 .. h - 1
               /\ groups'[h].parent # 0 =>
                    IsPrefix(groups'[groups'[h].parent].prefix, groups'[h].prefix)
               /\ \A i \in 1 .. Len(groups'[h].middlewares) : groups'[h].middlewares[i] = <<h, i>>
    <3>1. CASE h \in 1 .. Len(groups)
      <4>1. groups'[h] = groups[h]
        BY <1>8, <3>1
      <4>2. /\ groups[h].parent \in 0 .. h - 1
            /\ groups[h].parent # 0 => IsPrefix(groups[groups[h].parent].prefix, groups[h].prefix)
            /\ \A i \in 1 .. Len(groups[h].middlewares) : groups[h].middlewares[i] = <<h, i>>
        BY <1>1, <3>1 DEF GroupInv
      <4>3. groups[h].parent # 0 => groups[h].parent \in 1 .. Len(groups)
        BY <1>9, <3>1, <4>2
      <4>4. QED
        BY <1>8, <4>1, <4>2, <4>3
    <3>2. CASE h = Len(groups) + 1
      <4>1. groups'[h] = new /\ groups'[g] = parent
        BY <1>2, <1>8, <3>2
      <4>2. Len(groups'[h].middlewares) = 0
        BY <1>6, <4>1, EmptySeq
      <4>3. g \in 0 .. h - 1
        BY <1>9, <3>2
      <4>4. /\ groups'[h].parent = g
            /\ groups'[h].prefix = p
            /\ groups'[g].prefix = parent.prefix
        BY <1>6, <4>1
      <4>5. IsPrefix(groups'[groups'[h].parent].prefix, groups'[h].prefix)
        BY <1>4, <4>4
      <4>6. \A i \in 1 .. Len(groups'[h].middlewares) : groups'[h].middlewares[i] = <<h, i>>
        BY <4>2
      <4>7. QED
        BY <4>3, <4>4, <4>5, <4>6
    <3>3. QED
      BY <1>8, <1>9, <3>1, <3>2
  <2>2. QED
    BY <2>1 DEF GroupInv
<1>12. OwnerInv'
  <2>1. routes' = routes /\ owner' = owner
    BY <1>7 DEF vars
  <2>2. ASSUME NEW k \in 1 .. Len(routes')
        PROVE  owner'[k] \in 1 .. Len(groups') /\ IsPrefix(groups'[owner'[k]].prefix, routes'[k][2])
    <3>1. owner[k] \in 1 .. Len(groups) /\ IsPrefix(groups[owner[k]].prefix, routes[k][2])
      BY <1>1, <2>1, <2>2 DEF OwnerInv
    <3>2. owner[k] \in 1 .. Len(groups')
      BY <1>8, <1>9, <3>1
    <3>3. QED
      BY <1>8, <2>1, <3>1, <3>2
  <2>3. QED
    BY <1>1, <2>1, <2>2 DEF OwnerInv
<1>13. RouterTypeOK'
  BY <1>1, <1>7 DEF RouterTypeOK, vars
<1>14. QED
  BY <1>10, <1>11, <1>12, <1>13 DEF EngineInv

\* A middleware is added to those of its group.
LEMMA UseStep ==
  ASSUME EngineInv, NEW g \in 1 .. Len(groups), Use(g)
  PROVE  EngineInv'
<1>1. EngineTypeOK /\ GroupInv /\ OwnerInv /\ RouterTypeOK
  BY DEF EngineInv
<1>2. PICK group \in GroupRecord : group = groups[g]
  BY <1>1, GroupFacts
<1>3. g \in Nat /\ Len(groups) \in Nat
  BY <1>1, GroupFacts
<1>4. PICK used \in Seq(Nat \X Nat) :
        /\ used = Append(group.middlewares, <<g, Len(group.middlewares) + 1>>)
        /\ Len(used) = Len(group.middlewares) + 1
        /\ \A i \in 1 .. Len(group.middlewares) : used[i] = group.middlewares[i]
        /\ used[Len(group.middlewares) + 1] = <<g, Len(group.middlewares) + 1>>
  <2>1. group.middlewares \in Seq(Nat \X Nat)
    BY DEF GroupRecord
  <2>2. Len(group.middlewares) \in Nat
    BY <2>1
  <2>3. <<g, Len(group.middlewares) + 1>> \in Nat \X Nat
    BY <1>3, <2>2
  <2>4. PICK list \in Seq(Nat \X Nat), last \in Nat \X Nat :
          list = group.middlewares /\ last = <<g, Len(group.middlewares) + 1>>
    BY <2>1, <2>3
  <2>5. /\ Append(list, last) \in Seq(Nat \X Nat)
        /\ Len(Append(list, last)) = Len(list) + 1
        /\ \A i \in 1 .. Len(list) : Append(list, last)[i] = list[i]
        /\ Append(list, last)[Len(list) + 1] = last
    BY AppendProperties
  <2>6. QED
    BY <2>4, <2>5
<1>5. PICK new \in GroupRecord :
        /\ new = [group EXCEPT !.middlewares = used]
        /\ new.parent = group.parent
        /\ new.prefix = group.prefix
        /\ new.middlewares = used
  <2>1. PICK new : new = [group EXCEPT !.middlewares = used]
    OBVIOUS
  <2>2. /\ new \in GroupRecord
        /\ new.parent = group.parent
        /\ new.prefix = group.prefix
        /\ new.middlewares = used
    BY <2>1 DEF GroupRecord
  <2>3. QED
    BY <2>1, <2>2
<1>6. /\ groups' = [groups EXCEPT ![g] = new]
      /\ UNCHANGED vars /\ owner' = owner
  BY <1>2, <1>4, <1>5 DEF Use
<1>7. /\ groups' \in Seq(GroupRecord)
      /\ Len(groups') = Len(groups)
      /\ \A h \in 1 .. Len(groups) : groups'[h] = IF h = g THEN new ELSE groups[h]
  BY <1>1, <1>6, ExceptSeq DEF EngineTypeOK
<1>8. ASSUME NEW h \in 1 .. Len(groups)
      PROVE  groups'[h].parent = groups[h].parent /\ groups'[h].prefix = groups[h].prefix
  BY <1>2, <1>5, <1>7
<1>9. EngineTypeOK'
  BY <1>1, <1>6, <1>7 DEF EngineTypeOK
<1>10. GroupInv'
  <2>1. ASSUME NEW h \in 1 .. Len(groups')
        PROVE  /\ groups'[h].parent \in 0 .. h - 1
               /\ groups'[h].parent # 0 =>
                    IsPrefix(groups'[groups'[h].parent].prefix, groups'[h].prefix)
    <3>1. /\ groups[h].parent \in 0 .. h - 1
          /\ groups[h].parent # 0 => IsPrefix(groups[groups[h].parent].prefix, groups[h].prefix)
      BY <1>1, <1>7, <2>1 DEF GroupInv
    <3>2. groups[h].parent # 0 => groups[h].parent \in 1 .. Len(groups)
      BY <1>3, <1>7, <2>1, <3>1
    <3>3. h \in 1 .. Len(groups)
      BY <1>7, <2>1
    <3>4. QED
      BY <1>8, <3>1, <3>2, <3>3
  <2>2. ASSUME NEW h \in 1 .. Len(groups'), NEW i \in 1 .. Len(groups'[h].middlewares)
        PROVE  groups'[h].middlewares[i] = <<h, i>>
    <3>1. CASE h = g
      <4>1. groups'[h].middlewares = used
        BY <1>5, <1>7, <3>1
      <4>2. i \in 1 .. Len(used)
        BY <2>2, <4>1
      <4>3. \A j \in 1 .. Len(group.middlewares) : group.middlewares[j] = <<g, j>>
        BY <1>1, <1>2 DEF GroupInv
      <4>4. Len(group.middlewares) \in Nat
        BY <1>1, <1>2, GroupFacts
      <4>5. i \in 1 .. Len(group.middlewares) \/ i = Len(group.middlewares) + 1
        BY <1>4, <4>2, <4>4
      <4>6. QED
        BY <1>4, <3>1, <4>1, <4>3, <4>5
    <3>2. CASE h # g
      BY <1>1, <1>7, <2>2, <3>2 DEF GroupInv
    <3>3. QED
      BY <3>1, <3>2
  <2>3. QED
    BY <2>1, <2>2 DEF GroupInv
<1>11. OwnerInv'
  <2>1. routes' = routes /\ owner' = owner
    BY <1>6 DEF vars
  <2>2. QED
    BY <1>1, <1>7, <1>8, <2>1 DEF OwnerInv
<1>12. RouterTypeOK'
  BY <1>1, <1>6 DEF RouterTypeOK, vars
<1>13. QED
  BY <1>9, <1>10, <1>11, <1>12 DEF EngineInv

\* A route is added with a group, whose prefix it gets.
LEMMA AddToStep ==
  ASSUME EngineInv, RouterTypeOK', NEW g \in 1 .. Len(groups),
         NEW verb \in Verbs, NEW q \in Patterns, AddTo(g, verb, q)
  PROVE  EngineInv'
<1>1. EngineTypeOK /\ GroupInv /\ OwnerInv /\ RouterTypeOK
  BY DEF EngineInv
<1>2. groups' = groups /\ owner' = Append(owner, g) /\ IsPrefix(groups[g].prefix, q)
  BY DEF AddTo
<1>3. g \in Nat /\ Len(groups) \in Nat
  BY <1>1, GroupFacts
<1>4. /\ owner' \in Seq(Nat)
      /\ Len(owner') = Len(owner) + 1
      /\ \A k \in 1 .. Len(owner) : owner'[k] = owner[k]
      /\ owner'[Len(owner) + 1] = g
  BY <1>1, <1>2, <1>3, AppendProperties DEF EngineTypeOK
<1>5. /\ Len(routes) \in Nat
      /\ Len(routes') = Len(routes) + 1
      /\ \A k \in 1 .. Len(routes) : routes'[k] = routes[k]
      /\ routes'[Len(routes) + 1][2] = q
  <2>1. routes \in Seq(Verbs \X Patterns) /\ routes' = Append(routes, <<verb, q>>)
    BY <1>1 DEF RouterTypeOK, AddTo, AddRoute
  <2>2. /\ Len(routes) \in Nat
        /\ Len(routes') = Len(routes) + 1
        /\ \A k \in 1 .. Len(routes) : routes'[k] = routes[k]
        /\ routes'[Len(routes) + 1] = <<verb, q>>
    BY <2>1, AppendProperties
  <2>3. QED
    BY <2>2
<1>6. OwnerInv'
  <2>1. ASSUME NEW k \in 1 .. Len(routes')
        PROVE  owner'[k] \in 1 .. Len(groups) /\ IsPrefix(groups[owner'[k]].prefix, routes'[k][2])
    <3>1. Len(owner) = Len(routes)
      BY <1>1 DEF OwnerInv
    <3>2. CASE k \in 1 .. Len(routes)
      <4>1. owner[k] \in 1 .. Len(groups) /\ IsPrefix(groups[owner[k]].prefix, routes[k][2])
        BY <1>1, <3>2 DEF OwnerInv
      <4>2. QED
        BY <1>4, <1>5, <3>1, <3>2, <4>1
    <3>3. CASE k = Len(routes) + 1
      BY <1>2, <1>4, <1>5, <3>1, <3>3
    <3>4. QED
      BY <1>5, <2>1, <3>2, <3>3
  <2>2. QED
    BY <1>1, <1>2, <1>4, <1>5, <2>1 DEF OwnerInv
<1>7. EngineTypeOK' /\ GroupInv'
  BY <1>1, <1>2, <1>4 DEF EngineTypeOK, GroupInv
<1>8. QED
  BY <1>6, <1>7 DEF EngineInv

\* Whatever is set up, groups, their middlewares and their routes fit together.
LEMMA EngineInvNext ==
  ASSUME EngineInv, RouterInv, [EngineNext]_engineVars
  PROVE  EngineInv'
<1>1. EngineTypeOK /\ DOMAIN groups = 1 .. Len(groups)
  BY GroupFacts DEF EngineInv
<1>2. CASE UNCHANGED engineVars
  BY <1>2 DEF EngineInv, RouterTypeOK, EngineTypeOK, GroupInv, OwnerInv, engineVars, vars
<1>3. CASE EngineNext
  <2>1. PICK g \in 1 .. Len(groups) :
          \/ \E prefix \in GroupPrefixes : Group(g, prefix)
          \/ Use(g)
          \/ \E verb \in Verbs, pattern \in Patterns : AddTo(g, verb, pattern)
    BY <1>1, <1>3 DEF EngineNext
  <2>2. CASE \E prefix \in GroupPrefixes : Group(g, prefix)
    BY <2>2, GroupStep
  <2>3. CASE Use(g)
    BY <2>3, UseStep
  <2>4. CASE \E verb \in Verbs, pattern \in Patterns : AddTo(g, verb, pattern)
    <3>1. PICK verb \in Verbs, pattern \in Patterns : AddTo(g, verb, pattern)
      BY <2>4
    <3>2. RouterTypeOK'
      BY <3>1, AddRouteInv DEF AddTo, RouterInv
    <3>3. QED
      BY <3>1, <3>2, AddToStep
  <2>5. QED
    BY <2>1, <2>2, <2>3, <2>4
<1>4. QED
  BY <1>2, <1>3

-----------------------------------------------------------------------------
(* Lists of middlewares *)

\* The middleware u stands before v: in an earlier group, or in the same one.
Sooner(u, v) == u[1] < v[1] \/ (u[1] = v[1] /\ u[2] < v[2])

\* A list of middlewares in the order of groups and of places in a group.
InPlace(list) ==
  /\ list \in Seq(Nat \X Nat)
  /\ \A i, j \in 1 .. Len(list) : i < j => Sooner(list[i], list[j])

\* The middlewares of a group.
OwnOf(g) == ToSet(groups[g].middlewares)

\* What comes sooner does not come later.
LEMMA SoonerOnce ==
  ASSUME NEW u \in Nat \X Nat, NEW v \in Nat \X Nat
  PROVE  ~(Sooner(u, v) /\ Sooner(v, u)) /\ ~Sooner(u, u)
<1>1. u[1] \in Nat /\ u[2] \in Nat /\ v[1] \in Nat /\ v[2] \in Nat
  OBVIOUS
<1>2. QED
  BY <1>1 DEF Sooner

\* A list in order, within another one, is within it in its order.
LEMMA InPlaceWithin ==
  ASSUME NEW s, NEW t, InPlace(s), InPlace(t), ToSet(s) \subseteq ToSet(t)
  PROVE  Within(s, t)
<1>1. DOMAIN s = 1 .. Len(s) /\ DOMAIN t = 1 .. Len(t) /\ Len(s) \in Nat /\ Len(t) \in Nat
  BY DEF InPlace
<1>2. ASSUME NEW i \in 1 .. Len(s), NEW j \in 1 .. Len(s),
             NEW k \in 1 .. Len(t), NEW l \in 1 .. Len(t),
             s[i] = t[k], s[j] = t[l]
      PROVE  i < j <=> k < l
  <2>1. s[i] \in Nat \X Nat /\ s[j] \in Nat \X Nat
    BY ElementOfSeq DEF InPlace
  <2>2. /\ i < j => Sooner(s[i], s[j])
        /\ j < i => Sooner(s[j], s[i])
        /\ k < l => Sooner(s[i], s[j])
        /\ l < k => Sooner(s[j], s[i])
    BY <1>2 DEF InPlace
  <2>3. ~(Sooner(s[i], s[j]) /\ Sooner(s[j], s[i])) /\ ~Sooner(s[i], s[i]) /\ ~Sooner(s[j], s[j])
    BY <2>1, SoonerOnce
  <2>4. i \in Nat /\ j \in Nat /\ k \in Nat /\ l \in Nat
    BY <1>1
  <2>5. i = j => Sooner(s[i], s[j]) = Sooner(s[i], s[i])
    OBVIOUS
  <2>6. k = l => s[i] = s[j]
    BY <1>2
  <2>7. QED
    BY <2>2, <2>3, <2>4, <2>5, <2>6
<1>3. QED
  BY <1>1, <1>2 DEF Within

\* Lists in order, of which the second begins behind the end of the first, are in
\* order one after the other.
LEMMA InPlaceConcat ==
  ASSUME NEW s, NEW t, InPlace(s), InPlace(t),
         \A u \in ToSet(s), v \in ToSet(t) : Sooner(u, v)
  PROVE  InPlace(s \o t) /\ ToSet(s \o t) = ToSet(s) \cup ToSet(t)
<1>1. s \in Seq(Nat \X Nat) /\ t \in Seq(Nat \X Nat)
  BY DEF InPlace
<1>2. PICK m \in Nat, n \in Nat : m = Len(s) /\ n = Len(t)
  BY <1>1
<1>3. PICK r : r = s \o t
  OBVIOUS
<1>4. /\ r \in Seq(Nat \X Nat)
      /\ Len(r) = m + n
      /\ \A i \in 1 .. m + n : r[i] = IF i <= m THEN s[i] ELSE t[i - m]
  BY <1>1, <1>2, <1>3, ConcatProperties
<1>5. DOMAIN s = 1 .. m /\ DOMAIN t = 1 .. n /\ DOMAIN r = 1 .. m + n
  BY <1>1, <1>2, <1>4
<1>6. /\ \A i \in 1 .. m : i \in 1 .. m + n /\ r[i] = s[i]
      /\ \A i \in 1 .. n : m + i \in 1 .. m + n /\ r[m + i] = t[i]
  <2>1. ASSUME NEW i \in 1 .. m PROVE i \in 1 .. m + n /\ r[i] = s[i]
    BY <1>4
  <2>2. ASSUME NEW i \in 1 .. n PROVE m + i \in 1 .. m + n /\ r[m + i] = t[i]
    <3>1. m + i \in 1 .. m + n /\ ~(m + i <= m) /\ (m + i) - m = i
      OBVIOUS
    <3>2. QED
      BY <1>4, <3>1
  <2>3. QED
    BY <2>1, <2>2
<1>7. \A i \in 1 .. m + n : i \in 1 .. m \/ \E k \in 1 .. n : i = m + k
  <2>1. ASSUME NEW i \in 1 .. m + n, i \notin 1 .. m PROVE \E k \in 1 .. n : i = m + k
    <3>1. i - m \in 1 .. n /\ i = m + (i - m)
      BY <2>1
    <3>2. QED
      BY <3>1
  <2>2. QED
    BY <2>1
<1>8. ASSUME NEW i \in 1 .. m + n, NEW j \in 1 .. m + n, i < j PROVE Sooner(r[i], r[j])
  <2>1. CASE i \in 1 .. m /\ j \in 1 .. m
    BY <1>2, <1>6, <1>8, <2>1 DEF InPlace
  <2>2. CASE i \in 1 .. m /\ \E k \in 1 .. n : j = m + k
    <3>1. PICK k \in 1 .. n : j = m + k
      BY <2>2
    <3>2. r[i] \in ToSet(s) /\ r[j] \in ToSet(t)
      BY <1>5, <1>6, <2>2, <3>1 DEF ToSet
    <3>3. QED
      BY <3>2
  <2>3. CASE (\E k \in 1 .. n : i = m + k) /\ (\E k \in 1 .. n : j = m + k)
    <3>1. PICK a \in 1 .. n, b \in 1 .. n : i = m + a /\ j = m + b
      BY <2>3
    <3>2. a < b
      BY <1>8, <3>1
    <3>3. r[i] = t[a] /\ r[j] = t[b]
      BY <1>6, <3>1
    <3>4. QED
      BY <1>2, <3>2, <3>3 DEF InPlace
  <2>4. CASE (\E k \in 1 .. n : i = m + k) /\ j \in 1 .. m
    BY <1>8, <2>4
  <2>5. QED
    BY <1>7, <2>1, <2>2, <2>3, <2>4
<1>9. InPlace(r)
  BY <1>4, <1>8 DEF InPlace
<1>10. ToSet(r) = ToSet(s) \cup ToSet(t)
  <2>1. ASSUME NEW x \in ToSet(r) PROVE x \in ToSet(s) \cup ToSet(t)
    <3>1. PICK i \in 1 .. m + n : x = r[i]
      BY <1>5, <2>1 DEF ToSet
    <3>2. QED
      BY <1>5, <1>6, <1>7, <3>1 DEF ToSet
  <2>2. ASSUME NEW x \in ToSet(s) PROVE x \in ToSet(r)
    <3>1. PICK i \in 1 .. m : x = s[i]
      BY <1>5, <2>2 DEF ToSet
    <3>2. QED
      BY <1>5, <1>6, <3>1 DEF ToSet
  <2>3. ASSUME NEW x \in ToSet(t) PROVE x \in ToSet(r)
    <3>1. PICK i \in 1 .. n : x = t[i]
      BY <1>5, <2>3 DEF ToSet
    <3>2. QED
      BY <1>5, <1>6, <3>1 DEF ToSet
  <2>4. QED
    BY <2>1, <2>2, <2>3
<1>11. QED
  BY <1>3, <1>9, <1>10

\* So are a group's own.
LEMMA OwnInPlace ==
  ASSUME EngineInv, NEW g \in 1 .. Len(groups)
  PROVE  InPlace(groups[g].middlewares) /\ \A u \in OwnOf(g) : u \in Nat \X Nat /\ u[1] = g
<1>1. EngineTypeOK /\ GroupInv
  BY DEF EngineInv
<1>2. PICK list \in Seq(Nat \X Nat) : list = groups[g].middlewares
  BY <1>1, GroupFacts
<1>3. \A i \in 1 .. Len(list) : list[i] = <<g, i>> /\ list[i] \in Nat \X Nat
  BY <1>1, <1>2, ElementOfSeq DEF GroupInv
<1>4. DOMAIN list = 1 .. Len(list)
  OBVIOUS
<1>5. ASSUME NEW i \in 1 .. Len(list), NEW j \in 1 .. Len(list), i < j
      PROVE  Sooner(list[i], list[j])
  BY <1>3, <1>5 DEF Sooner
<1>6. QED
  BY <1>2, <1>3, <1>4, <1>5 DEF InPlace, OwnOf, ToSet

\* The recursive function in ServeHTTP exists.
LEMMA ServeRecursion ==
  ASSUME NEW parts, Len(groups) \in Nat
  PROVE  \E f : /\ f = [n \in 0 .. Len(groups) |->
                          IF n = 0 THEN <<>>
                          ELSE IF HasPrefix(parts, groups[n].prefix)
                            THEN f[n - 1] \o groups[n].middlewares
                          ELSE f[n - 1]]
                /\ ServeHTTP(parts) = f[Len(groups)]
<1> DEFINE value(f, n) == IF n = 0 THEN <<>>
                          ELSE IF HasPrefix(parts, groups[n].prefix)
                            THEN f[n - 1] \o groups[n].middlewares
                          ELSE f[n - 1]
           body(f, m) == [n \in 0 .. m |-> value(f, n)]
           collected == CHOOSE f : f = body(f, Len(groups))
           T == {m \in Nat : \E f : f = body(f, m)}
<1>1. 0 \in T
  <2> DEFINE f == [n \in 0 .. 0 |-> <<>>]
  <2>1. f = body(f, 0)
    OBVIOUS
  <2>2. QED
    BY <2>1
<1>2. ASSUME NEW m \in Nat, m \in T PROVE m + 1 \in T
  <2>1. PICK f : f = body(f, m)
    BY <1>2
  <2>2. PICK h : h = body(f, m + 1)
    OBVIOUS
  <2>3. ASSUME NEW n \in 0 .. m PROVE h[n] = f[n]
    <3>1. n \in 0 .. m + 1
      OBVIOUS
    <3> HIDE DEF value
    <3>2. h[n] = value(f, n) /\ f[n] = value(f, n)
      BY <2>1, <2>2, <3>1
    <3>3. QED
      BY <3>2
  <2>4. ASSUME NEW n \in 0 .. m + 1 PROVE value(f, n) = value(h, n)
    <3>1. CASE n = 0
      BY <3>1
    <3>2. CASE n # 0
      <4>1. n - 1 \in 0 .. m
        BY <3>2
      <4>2. f[n - 1] = h[n - 1]
        BY <2>3, <4>1
      <4>3. QED
        BY <4>2
    <3>3. QED
      BY <3>1, <3>2
  <2>5. h = body(h, m + 1)
    <3>1. PICK g : g = body(h, m + 1)
      OBVIOUS
    <3> DEFINE D == 0 .. m + 1
    <3>2. /\ h = [n \in D |-> value(f, n)]
          /\ g = [n \in D |-> value(h, n)]
      BY <2>2, <3>1
    <3>3. \A n \in D : value(f, n) = value(h, n)
      BY <2>4
    <3> HIDE DEF value, D
    <3>4. /\ \A n \in D : h[n] = g[n]
          /\ h = [n \in D |-> h[n]]
          /\ g = [n \in D |-> g[n]]
      BY <3>2, <3>3
    <3>5. h = g
      BY <3>4
    <3> HIDE DEF body
    <3>6. QED
      BY <3>1, <3>5
  <2> HIDE DEF body
  <2>6. QED
    BY <2>5
<1>3. \E f : f = body(f, Len(groups))
  <2>1. Len(groups) \in T
    <3> HIDE DEF T
    <3>1. QED
      BY <1>1, <1>2, SetInduction
  <2>2. QED
    BY <2>1
<1>4. collected = body(collected, Len(groups))
  BY <1>3, Zenon
<1>5. ServeHTTP(parts) = collected[Len(groups)]
  BY Zenon DEF ServeHTTP
<1>6. QED
  BY <1>4, <1>5, Zenon

\* The recursive function in Enclosing exists, as a group's parent comes before it.
LEMMA EnclosingRecursion ==
  ASSUME EngineTypeOK, GroupInv
  PROVE  \E f : /\ f = [h \in 1 .. Len(groups) |->
                          IF groups[h].parent = 0 THEN groups[h].middlewares
                          ELSE f[groups[h].parent] \o groups[h].middlewares]
                /\ \A g : Enclosing(g) = f[g]
<1> DEFINE value(f, h) == IF groups[h].parent = 0 THEN groups[h].middlewares
                          ELSE f[groups[h].parent] \o groups[h].middlewares
           body(f, m) == [h \in 1 .. m |-> value(f, h)]
           all == CHOOSE f : f = [h \in DOMAIN groups |-> value(f, h)]
           N == Len(groups)
           T == {m \in Nat : m <= N => \E f : f = body(f, m)}
<1>1. N \in Nat /\ DOMAIN groups = 1 .. N
  BY GroupFacts
<1>2. \A h \in 1 .. N : groups[h].parent \in 0 .. h - 1
  BY DEF GroupInv
<1> HIDE DEF N
<1>3. 0 \in T
  <2> DEFINE f == [h \in 1 .. 0 |-> <<>>]
  <2>1. f = body(f, 0)
    OBVIOUS
  <2>2. QED
    BY <2>1
<1>4. ASSUME NEW m \in Nat, m \in T PROVE m + 1 \in T
  <2>1. SUFFICES ASSUME m + 1 <= N PROVE \E f : f = body(f, m + 1)
    <3> HIDE DEF body
    <3>1. QED
      OBVIOUS
  <2>2. PICK f : f = body(f, m)
    <3>1. m <= N
      BY <1>1, <2>1
    <3>2. QED
      BY <1>4, <3>1
  <2>3. PICK k : k = body(f, m + 1)
    OBVIOUS
  <2>4. ASSUME NEW h \in 1 .. m PROVE k[h] = f[h]
    <3>1. h \in 1 .. m + 1
      OBVIOUS
    <3> HIDE DEF value
    <3>2. k[h] = value(f, h) /\ f[h] = value(f, h)
      BY <2>2, <2>3, <3>1
    <3>3. QED
      BY <3>2
  <2>5. ASSUME NEW h \in 1 .. m + 1 PROVE value(f, h) = value(k, h)
    <3>1. CASE groups[h].parent = 0
      BY <3>1
    <3>2. CASE groups[h].parent # 0
      <4>1. h \in 1 .. N
        BY <1>1, <2>1
      <4>2. groups[h].parent \in 1 .. m
        BY <1>2, <3>2, <4>1
      <4>3. f[groups[h].parent] = k[groups[h].parent]
        BY <2>4, <4>2
      <4>4. QED
        BY <4>3
    <3>3. QED
      BY <3>1, <3>2
  <2>6. k = body(k, m + 1)
    <3>1. PICK g : g = body(k, m + 1)
      OBVIOUS
    <3> DEFINE D == 1 .. m + 1
    <3>2. /\ k = [h \in D |-> value(f, h)]
          /\ g = [h \in D |-> value(k, h)]
      BY <2>3, <3>1
    <3>3. \A h \in D : value(f, h) = value(k, h)
      BY <2>5
    <3> HIDE DEF value, D
    <3>4. /\ \A h \in D : k[h] = g[h]
          /\ k = [h \in D |-> k[h]]
          /\ g = [h \in D |-> g[h]]
      BY <3>2, <3>3
    <3>5. k = g
      BY <3>4
    <3> HIDE DEF body
    <3>6. QED
      BY <3>1, <3>5
  <2> HIDE DEF body
  <2>7. QED
    BY <2>6
<1>5. \E f : f = body(f, N)
  <2>1. N \in T
    <3> HIDE DEF T
    <3>1. QED
      BY <1>1, <1>3, <1>4, SetInduction
  <2> HIDE DEF body
  <2>2. QED
    BY <1>1, <2>1
<1>6. \E f : f = [h \in DOMAIN groups |-> value(f, h)]
  BY <1>1, <1>5
<1>7. all = [h \in DOMAIN groups |-> value(all, h)]
  BY <1>6, Zenon
<1>8. \A g : Enclosing(g) = all[g]
  BY Zenon DEF Enclosing
<1>9. DOMAIN groups = 1 .. Len(groups)
  BY GroupFacts
<1>10. all = [h \in 1 .. Len(groups) |-> value(all, h)]
  BY <1>7, <1>9
<1>11. QED
  BY <1>8, <1>10, Zenon

\* The groups around a group have a prefix of its own prefix, and their
\* middlewares stand in order.
LEMMA EnclosingFacts ==
  ASSUME EngineInv, NEW g \in 1 .. Len(groups)
  PROVE  /\ InPlace(Enclosing(g))
         /\ \A u \in ToSet(Enclosing(g)) :
              \E a \in 1 .. Len(groups) :
                u \in OwnOf(a) /\ IsPrefix(groups[a].prefix, groups[g].prefix)
<1>1. EngineTypeOK /\ GroupInv
  BY DEF EngineInv
<1>2. PICK all : /\ all = [h \in 1 .. Len(groups) |->
                             IF groups[h].parent = 0 THEN groups[h].middlewares
                             ELSE all[groups[h].parent] \o groups[h].middlewares]
                 /\ \A h : Enclosing(h) = all[h]
  BY <1>1, EnclosingRecursion
<1> DEFINE N == Len(groups)
           Right(h) ==
             /\ InPlace(all[h])
             /\ \A u \in ToSet(all[h]) :
                  \E a \in 1 .. h : u \in OwnOf(a) /\ IsPrefix(groups[a].prefix, groups[h].prefix)
           T == {m \in Nat : \A h \in 1 .. N : h <= m => Right(h)}
<1>3. N \in Nat
  BY <1>1, GroupFacts
<1>4. ASSUME NEW h \in 1 .. N, \A a \in 1 .. N : a < h => Right(a)
      PROVE  Right(h)
  <2>1. PICK own : own = groups[h].middlewares
    OBVIOUS
  <2>2. InPlace(own) /\ OwnOf(h) = ToSet(own) /\ \A u \in OwnOf(h) : u \in Nat \X Nat /\ u[1] = h
    BY <2>1, OwnInPlace DEF OwnOf
  <2>3. groups[h].prefix \in Seq(Parts) /\ IsPrefix(groups[h].prefix, groups[h].prefix)
    BY <1>1, GroupFacts, IsPrefixConcat
  <2>4. h \in 1 .. h /\ h \in Nat
    BY <1>3
  <2>5. CASE groups[h].parent = 0
    <3>1. all[h] = own
      BY <1>2, <2>1, <2>5
    <3>2. QED
      BY <2>2, <2>3, <2>4, <3>1
  <2>6. CASE groups[h].parent # 0
    <3>1. PICK p : p = groups[h].parent
      OBVIOUS
    <3>2. p \in 1 .. N /\ p \in 1 .. h /\ p < h /\ IsPrefix(groups[p].prefix, groups[h].prefix)
      BY <1>1, <1>3, <2>6, <3>1 DEF GroupInv
    <3>3. InPlace(all[p])
      BY <1>4, <3>2
    <3>4. \A u \in ToSet(all[p]) :
            \E a \in 1 .. p : u \in OwnOf(a) /\ IsPrefix(groups[a].prefix, groups[p].prefix)
      BY <1>4, <3>2
    <3>5. ASSUME NEW u \in ToSet(all[p])
          PROVE  /\ u[1] < h
                 /\ \E a \in 1 .. h : u \in OwnOf(a) /\ IsPrefix(groups[a].prefix, groups[h].prefix)
      <4>1. PICK a \in 1 .. p : u \in OwnOf(a) /\ IsPrefix(groups[a].prefix, groups[p].prefix)
        BY <3>4
      <4>2. a \in 1 .. N /\ a \in 1 .. h /\ a < h
        BY <1>3, <3>2
      <4>3. u[1] = a
        BY <4>1, <4>2, OwnInPlace
      <4>4. /\ groups[a].prefix \in Seq(Parts)
            /\ groups[p].prefix \in Seq(Parts)
        BY <1>1, <3>2, <4>2, GroupFacts
      <4>5. IsPrefix(groups[a].prefix, groups[h].prefix)
        BY <2>3, <3>2, <4>1, <4>4, IsPrefixTransitive
      <4>6. QED
        BY <4>1, <4>2, <4>3, <4>5
    <3>6. \A u \in ToSet(all[p]), v \in ToSet(own) : Sooner(u, v)
      BY <2>2, <3>5 DEF Sooner
    <3>7. InPlace(all[p] \o own) /\ ToSet(all[p] \o own) = ToSet(all[p]) \cup ToSet(own)
      BY <2>2, <3>3, <3>6, InPlaceConcat
    <3>8. all[h] = all[p] \o own
      BY <1>2, <2>1, <2>6, <3>1
    <3>9. ASSUME NEW u \in ToSet(all[h])
          PROVE  \E a \in 1 .. h : u \in OwnOf(a) /\ IsPrefix(groups[a].prefix, groups[h].prefix)
      <4>1. CASE u \in ToSet(all[p])
        BY <3>5, <4>1
      <4>2. CASE u \in ToSet(own)
        BY <2>2, <2>3, <2>4, <4>2
      <4>3. QED
        BY <3>7, <3>8, <4>1, <4>2
    <3>10. QED
      BY <3>7, <3>8, <3>9
  <2>7. QED
    BY <2>5, <2>6
<1> HIDE DEF Right
<1>5. 0 \in T
  BY <1>3
<1>6. ASSUME NEW m \in Nat, m \in T PROVE m + 1 \in T
  <2>1. ASSUME NEW h \in 1 .. N, h <= m + 1 PROVE Right(h)
    <3>1. \A a \in 1 .. N : a < h => a <= m
      BY <1>3, <2>1
    <3>2. \A a \in 1 .. N : a < h => Right(a)
      BY <1>6, <3>1
    <3>3. QED
      BY <1>4, <3>2
  <2>2. QED
    BY <2>1
<1>7. N \in T
  <2> HIDE DEF T, N
  <2>1. QED
    BY <1>3, <1>5, <1>6, SetInduction
<1>8. Right(g)
  BY <1>3, <1>7
<1>9. g \in Nat /\ \A a \in 1 .. g : a \in 1 .. N
  BY <1>3
<1>10. QED
  BY <1>2, <1>8, <1>9 DEF Right

\* ServeHTTP collects the middlewares of the groups whose prefix the path has, in
\* order.
LEMMA ServeFacts ==
  ASSUME EngineInv, NEW parts
  PROVE  /\ InPlace(ServeHTTP(parts))
         /\ \A a \in 1 .. Len(groups) :
              HasPrefix(parts, groups[a].prefix) => OwnOf(a) \subseteq ToSet(ServeHTTP(parts))
<1>1. EngineTypeOK
  BY DEF EngineInv
<1> DEFINE N == Len(groups)
<1>2. N \in Nat
  BY <1>1, GroupFacts
<1>3. PICK f : /\ f = [n \in 0 .. Len(groups) |->
                         IF n = 0 THEN <<>>
                         ELSE IF HasPrefix(parts, groups[n].prefix)
                           THEN f[n - 1] \o groups[n].middlewares
                         ELSE f[n - 1]]
               /\ ServeHTTP(parts) = f[Len(groups)]
  BY <1>2, ServeRecursion
<1> DEFINE Right(n) ==
             /\ InPlace(f[n])
             /\ \A u \in ToSet(f[n]) : u[1] \in 1 .. n
             /\ \A a \in 1 .. n : HasPrefix(parts, groups[a].prefix) => OwnOf(a) \subseteq ToSet(f[n])
           T == {n \in Nat : n <= N => Right(n)}
<1>4. Right(0)
  <2>1. f[0] = <<>>
    BY <1>2, <1>3
  <2>2. <<>> \in Seq(Nat \X Nat) /\ Len(<<>>) = 0
    BY EmptySeq
  <2>3. InPlace(<<>>)
    BY <2>2 DEF InPlace
  <2>4. ToSet(<<>>) = {}
    BY DEF ToSet
  <2>5. QED
    BY <2>1, <2>3, <2>4
<1>5. ASSUME NEW m \in Nat, m + 1 <= N, Right(m) PROVE Right(m + 1)
  <2>1. PICK n : n = m + 1
    OBVIOUS
  <2>2. n \in 1 .. N /\ n \in 0 .. N /\ n # 0 /\ n - 1 = m
    BY <1>2, <1>5, <2>1
  <2>3. PICK own : own = groups[n].middlewares
    OBVIOUS
  <2>4. InPlace(own) /\ OwnOf(n) = ToSet(own) /\ \A u \in OwnOf(n) : u \in Nat \X Nat /\ u[1] = n
    BY <2>2, <2>3, OwnInPlace DEF OwnOf
  <2>5. f[n] = IF HasPrefix(parts, groups[n].prefix) THEN f[m] \o own ELSE f[m]
    BY <1>3, <2>2, <2>3
  <2>6. \A a \in 1 .. n : a \in 1 .. m \/ a = n
    BY <2>1
  <2>7. \A a \in 1 .. m : a \in 1 .. n /\ a < n
    BY <2>1
  <2>8. n \in 1 .. n
    BY <2>2
  <2>9. CASE HasPrefix(parts, groups[n].prefix)
    <3>1. \A u \in ToSet(f[m]), v \in ToSet(own) : Sooner(u, v)
      BY <1>5, <2>4, <2>7 DEF Sooner
    <3>2. InPlace(f[m] \o own) /\ ToSet(f[m] \o own) = ToSet(f[m]) \cup ToSet(own)
      BY <1>5, <2>4, <3>1, InPlaceConcat
    <3>3. f[n] = f[m] \o own
      BY <2>5, <2>9
    <3>4. \A u \in ToSet(f[n]) : u[1] \in 1 .. n
      BY <1>5, <2>4, <2>7, <2>8, <3>2, <3>3
    <3>5. \A a \in 1 .. n : HasPrefix(parts, groups[a].prefix) => OwnOf(a) \subseteq ToSet(f[n])
      BY <1>5, <2>4, <2>6, <3>2, <3>3
    <3>6. Right(n)
      BY <3>2, <3>3, <3>4, <3>5
    <3>7. QED
      BY <2>1, <3>6
  <2>10. CASE ~HasPrefix(parts, groups[n].prefix)
    <3>1. f[n] = f[m]
      BY <2>5, <2>10
    <3>2. \A u \in ToSet(f[n]) : u[1] \in 1 .. n
      BY <1>5, <2>7, <3>1
    <3>3. \A a \in 1 .. n : HasPrefix(parts, groups[a].prefix) => OwnOf(a) \subseteq ToSet(f[n])
      BY <1>5, <2>6, <2>10, <3>1
    <3>4. Right(n)
      BY <1>5, <3>1, <3>2, <3>3
    <3>5. QED
      BY <2>1, <3>4
  <2>11. QED
    BY <2>9, <2>10
<1> HIDE DEF Right, N
<1>6. 0 \in T
  BY <1>4
<1>7. ASSUME NEW m \in Nat, m \in T PROVE m + 1 \in T
  <2>1. m + 1 <= N => m <= N
    BY <1>2
  <2>2. QED
    BY <1>5, <1>7, <2>1
<1>8. N \in T
  <2> HIDE DEF T
  <2>1. QED
    BY <1>2, <1>6, <1>7, SetInduction
<1>9. Right(N)
  BY <1>2, <1>8
<1>10. QED
  BY <1>3, <1>9 DEF Right, N

\* A path that begins with a prefix without wildcards has it as a text, too.
LEMMA PrefixApplies ==
  ASSUME NEW prefix \in Seq(Parts), NEW parts \in Seq(Parts), IsPrefix(prefix, parts)
  PROVE  HasPrefix(parts, prefix)
<1>1. CASE prefix = <<>>
  BY <1>1 DEF HasPrefix
<1>2. CASE prefix # <<>>
  <2>1. Len(prefix) \in Nat \ {0} /\ Len(parts) \in Nat
    BY <1>2, EmptySeq
  <2>2. Len(prefix) <= Len(parts) /\ \A i \in 1 .. Len(prefix) : prefix[i] = parts[i]
    BY IsPrefixFacts
  <2>3. PICK front \in Seq(Parts) :
          /\ front = Front(prefix)
          /\ Len(front) = Len(prefix) - 1
          /\ \A i \in 1 .. Len(prefix) - 1 : front[i] = prefix[i]
    <3>1. Len(prefix) - 1 \in 0 .. Len(prefix)
      BY <2>1
    <3>2. PICK n \in 0 .. Len(prefix) : n = Len(prefix) - 1
      BY <3>1
    <3>3. PICK front : front = Prefix(prefix, n)
      OBVIOUS
    <3>4. front \in Seq(Parts) /\ Len(front) = n /\ \A i \in 1 .. n : front[i] = prefix[i]
      BY <3>3, PrefixProperties
    <3>5. front = Front(prefix)
      BY <3>2, <3>3 DEF Front, Prefix
    <3>6. QED
      BY <3>2, <3>4, <3>5
  <2>4. Len(front) <= Len(parts) /\ \A i \in 1 .. Len(front) : i \in 1 .. Len(prefix)
    BY <2>1, <2>2, <2>3
  <2>5. \A i \in 1 .. Len(front) : front[i] = parts[i]
    BY <2>2, <2>3, <2>4
  <2>6. IsPrefix(Front(prefix), parts)
    BY <2>3, <2>4, <2>5, IsPrefixFacts
  <2>7. parts[Len(prefix)] = Last(prefix)
    BY <2>1, <2>2 DEF Last
  <2>8. QED
    BY <2>2, <2>6, <2>7 DEF HasPrefix
<1>3. QED
  BY <1>1, <1>2

\* A prefix without wildcards of a pattern that fits a path is one of the path.
LEMMA StaticPrefix ==
  ASSUME NEW prefix \in Seq(Parts), NEW pattern \in Seq(Parts), NEW parts \in Seq(Parts),
         IsPrefix(prefix, pattern), Static(prefix), Fits(pattern, parts)
  PROVE  IsPrefix(prefix, parts)
<1>1. /\ Len(prefix) \in Nat /\ Len(pattern) \in Nat /\ Len(parts) \in Nat
      /\ DOMAIN prefix = 1 .. Len(prefix) /\ DOMAIN pattern = 1 .. Len(pattern)
  OBVIOUS
<1>2. Len(prefix) <= Len(pattern) /\ \A i \in 1 .. Len(prefix) : prefix[i] = pattern[i]
  BY IsPrefixFacts
<1>3. \A i \in 1 .. Len(prefix) : i \in 1 .. Len(pattern)
  BY <1>1, <1>2
<1>4. \A i \in 1 .. Len(prefix) : i <= Len(parts) /\ prefix[i] = parts[i]
  <2>1. ASSUME NEW i \in 1 .. Len(prefix) PROVE i <= Len(parts) /\ prefix[i] = parts[i]
    <3>1. pattern[i] \notin Wild
      BY <1>1, <1>2, <2>1 DEF Static
    <3>2. i <= Len(parts) /\ pattern[i] \in {parts[i]} \cup Wild
      BY <1>1, <1>3, <2>1 DEF Fits
    <3>3. QED
      BY <1>2, <3>1, <3>2
  <2>2. QED
    BY <2>1
<1>5. Len(prefix) <= Len(parts)
  <2>1. CASE Len(prefix) = 0
    BY <1>1, <2>1
  <2>2. CASE Len(prefix) # 0
    <3>1. Len(prefix) \in 1 .. Len(prefix)
      BY <1>1, <2>2
    <3>2. QED
      BY <1>4, <3>1
  <2>3. QED
    BY <2>1, <2>2
<1>6. QED
  BY <1>4, <1>5, IsPrefixFacts

\* What a route's request runs through.
LEMMA RouteEnclosed ==
  ASSUME RouterInv, EngineInv, NEW k \in 1 .. Len(routes), NEW parts \in Paths,
         Clean(Registered(routes[k][1])),
         GetRoute(Registered(routes[k][1]), parts) = routes[k][2],
         Static(groups[owner[k]].prefix)
  PROVE  Within(Enclosing(owner[k]), ServeHTTP(parts))
<1>1. EngineTypeOK /\ GroupInv /\ OwnerInv /\ RouterTypeOK
  BY DEF EngineInv
<1>2. PICK g \in 1 .. Len(groups) : g = owner[k] /\ IsPrefix(groups[g].prefix, routes[k][2])
  BY <1>1 DEF OwnerInv
<1>3. routes[k][1] \in Verbs /\ routes[k][2] \in Patterns
  <2>1. routes[k] \in Verbs \X Patterns
    BY <1>1, ElementOfSeq DEF RouterTypeOK
  <2>2. QED
    BY <2>1
<1>4. PICK m \in Methods : m = Registered(routes[k][1])
  BY <1>3 DEF Registered, Methods
<1>5. PICK pattern \in Seq(Parts) : pattern = routes[k][2] /\ pattern # NoPattern
  BY <1>3, PatternProperties, PatternAssumption
<1>6. parts \in Seq(Parts)
  BY PathParts
<1>7. Fits(pattern, parts)
  <2>1. roots[m] # <<>>
    BY <1>4, <1>5 DEF GetRoute
  <2>2. ExactTree(m)
    BY <1>4 DEF RouterInv, ExactTrees
  <2>3. pattern \in Candidates(m, parts)
    BY <1>4, <1>5, <2>1, <2>2, ExactSearch
  <2>4. QED
    BY <2>3 DEF Candidates
<1>8. groups[g].prefix \in Seq(Parts)
  BY <1>1, GroupFacts
<1>9. IsPrefix(groups[g].prefix, parts)
  BY <1>2, <1>5, <1>6, <1>7, <1>8, StaticPrefix
<1>10. PICK s, t : s = Enclosing(g) /\ t = ServeHTTP(parts)
  OBVIOUS
<1>11. InPlace(s) /\ InPlace(t)
  BY <1>10, EnclosingFacts, ServeFacts
<1>12. ASSUME NEW u \in ToSet(s) PROVE u \in ToSet(t)
  <2>1. PICK a \in 1 .. Len(groups) : u \in OwnOf(a) /\ IsPrefix(groups[a].prefix, groups[g].prefix)
    BY <1>10, <1>12, EnclosingFacts
  <2>2. groups[a].prefix \in Seq(Parts)
    BY <1>1, GroupFacts
  <2>3. IsPrefix(groups[a].prefix, parts)
    BY <1>6, <1>8, <1>9, <2>1, <2>2, IsPrefixTransitive
  <2>4. HasPrefix(parts, groups[a].prefix)
    BY <1>6, <2>2, <2>3, PrefixApplies
  <2>5. QED
    BY <1>10, <2>1, <2>4, ServeFacts
<1>13. Within(s, t)
  BY <1>11, <1>12, InPlaceWithin
<1>14. QED
  BY <1>2, <1>10, <1>13

-----------------------------------------------------------------------------
(* Theorems about the groups *)

\* Groups come behind those they were made in and have their prefix, a route has
\* that of its group, and a group knows its own middlewares.
THEOREM EngineInvariance == EngineSpec => [](RouterInv /\ EngineInv)
<1>1. EngineSpec => []RouterInv
  BY RouterImplemented, RouterInvariance, PTL
<1>2. EngineInv /\ RouterInv /\ [EngineNext]_engineVars => EngineInv'
  BY EngineInvNext
<1>3. QED
  BY <1>1, <1>2, EngineInvInit, PTL DEF EngineSpec

\* The groups have the types they should.
THEOREM EngineTypeCorrect == EngineSpec => []EngineTypeOK
<1>1. RouterInv /\ EngineInv => EngineTypeOK
  BY DEF EngineInv
<1>2. QED
  BY <1>1, EngineInvariance, PTL

\* Whatever groups are made, and in whatever order with routes and middlewares, a
\* request that a route answers runs through the middlewares of every group around
\* the route, the outermost first and each once.
THEOREM MiddlewaresEnclose == EngineSpec => []GroupsEnclose
<1>1. ASSUME RouterInv, EngineInv PROVE GroupsEnclose
  <2>1. DOMAIN routes = 1 .. Len(routes)
    BY <1>1 DEF EngineInv, RouterTypeOK
  <2>2. QED
    BY <1>1, <2>1, RouteEnclosed DEF GroupsEnclose
<1>2. RouterInv /\ EngineInv => GroupsEnclose
  BY <1>1
<1>3. QED
  BY <1>2, EngineInvariance, PTL
=============================================================================
