--------------------------- MODULE BspTreeProofs ---------------------------
(***************************************************************************)
(* Theorems about BspTree for any windows and any number of nodes, on a    *)
(* virtual space for which no layout is configured: vs.layout = {} in the  *)
(* initial state, and no step changes it.  The tree is a proper one that   *)
(* holds the tiled windows and nothing more, whatever the order of the     *)
(* windows, splits, zooms and preselections.                               *)
(*                                                                         *)
(* First what folds and the breadth-first search compute, then how a split *)
(* and a merge change a tree, then each operation on a virtual space, then *)
(* each action, and the invariants at the end.                             *)
(***************************************************************************)
EXTENDS BspTree, TLAPS, FiniteSetTheorems, SequenceTheorems, WellFoundedInduction

(* A set of naturals has a least element.                                  *)
LEMMA Least ==
    ASSUME NEW T, T \subseteq Nat, T # {}
    PROVE  \E n \in T : \A m \in T : n <= m
<1>1. IsWellFoundedOn({p \in Nat \X Nat : p[1] < p[2]}, Nat)
  BY NatLessThanWellFounded DEF OpToRel
<1> DEFINE R == {p \in Nat \X Nat : p[1] < p[2]}
<1>2. \E x \in T : \A y \in T : ~(<<y, x>> \in R)
  <2> HIDE DEF R
  <2>1. IsWellFoundedOn(R, Nat)
    BY <1>1 DEF R
  <2> QED
    BY <2>1, WFMin
<1>3. PICK x \in T : \A y \in T : ~(<<y, x>> \in R)
  BY <1>2
<1>4. \A y \in T : ~(y < x)
  BY <1>3
<1> QED
  BY <1>4

(* Induction on the naturals, for a set that holds 0 and is closed.        *)
LEMMA Induction ==
    ASSUME NEW T, 0 \in T, \A n \in Nat : n \in T => n + 1 \in T
    PROVE  Nat \subseteq T
<1> SUFFICES ASSUME Nat \ T # {}
             PROVE  FALSE
  OBVIOUS
<1>1. PICK n \in Nat \ T : \A m \in Nat \ T : n <= m
  BY Least
<1>2. n - 1 \in Nat /\ n - 1 \in T
  BY <1>1
<1> QED
  BY <1>1, <1>2

(* f starts at x and is taken from G[i - 1] into G[i] by F[i].             *)
Iteration(f, n, x, F, G) ==
    /\ f = [i \in 0..n |-> f[i]]
    /\ \A i \in 0..n : f[i] = IF i = 0 THEN x ELSE F[i][f[i - 1]]
    /\ \A i \in 0..n : f[i] \in G[i]

(* A recursive function of the index that starts at x and applies F[i] at  *)
(* i has a value at every index, and the value at i is in G[i].  This is   *)
(* how the loops over a sequence of BspTree are written.                   *)
LEMMA Iterate ==
    ASSUME NEW n \in Nat, NEW G, NEW F, NEW x \in G[0],
           \A i \in 1..n : \A y \in G[i - 1] : F[i][y] \in G[i]
    PROVE  \E g : Iteration(g, n, x, F, G)
<1> DEFINE Run(g, k) == Iteration(g, k, x, F, G)
           T == {k \in Nat : k <= n => \E g : Run(g, k)}
<1>1. 0 \in T
  <2>1. Run([i \in 0..0 |-> x], 0)
    BY DEF Iteration
  <2> QED
    BY <2>1
<1>2. ASSUME NEW k \in Nat, k \in T
      PROVE  k + 1 \in T
  <2> SUFFICES ASSUME k + 1 <= n
               PROVE  \E g : Run(g, k + 1)
    OBVIOUS
  <2>1. PICK g : Run(g, k)
    BY <1>2
  <2> DEFINE h == [i \in 0..(k + 1) |-> IF i = k + 1 THEN F[k + 1][g[k]] ELSE g[i]]
  <2>2. \A i \in 0..k : h[i] = g[i]
    OBVIOUS
  <2>3. h[k + 1] = F[k + 1][h[k]]
    BY <2>2
  <2>4. \A i \in 0..(k + 1) : h[i] = IF i = 0 THEN x ELSE F[i][h[i - 1]]
    <3> TAKE i \in 0..(k + 1)
    <3>1. CASE i = k + 1
      BY <3>1, <2>3
    <3>2. CASE i \in 0..k
      <4>1. i # 0 => i - 1 \in 0..k
        BY <3>2
      <4>2. g[i] = IF i = 0 THEN x ELSE F[i][g[i - 1]]
        BY <2>1, <3>2 DEF Iteration
      <4> HIDE DEF h
      <4> QED
        BY <2>2, <3>2, <4>1, <4>2
    <3> QED
      BY <3>1, <3>2
  <2>5. \A i \in 0..(k + 1) : h[i] \in G[i]
    <3>1. h[k + 1] \in G[k + 1]
      <4>1. k + 1 \in 1..n /\ (k + 1) - 1 = k /\ g[k] \in G[k] /\ h[k] = g[k]
        BY <2>1, <2>2 DEF Iteration
      <4> HIDE DEF h
      <4> QED
        BY <4>1, <2>3
    <3> HIDE DEF h
    <3> QED
      BY <2>1, <2>2, <3>1 DEF Iteration
  <2>6. Run(h, k + 1)
    <3>1. h = [i \in 0..(k + 1) |-> h[i]]
      OBVIOUS
    <3> HIDE DEF h
    <3> QED
      BY <2>4, <2>5, <3>1, Zenon DEF Iteration
  <2> QED
    BY <2>6
<1>3. n \in T
  <2> HIDE DEF T
  <2> QED
    BY <1>1, <1>2, Induction
<1> QED
  BY <1>3

(* The same of an f that is given: step by step it stays in G.             *)
LEMMA StaysIn ==
    ASSUME NEW n \in Nat, NEW f, NEW G, f[0] \in G[0],
           \A i \in 1..n : f[i - 1] \in G[i - 1] => f[i] \in G[i]
    PROVE  \A i \in 0..n : f[i] \in G[i]
<1> DEFINE T == {k \in Nat : k <= n => f[k] \in G[k]}
<1>1. 0 \in T
  OBVIOUS
<1>2. \A k \in Nat : k \in T => k + 1 \in T
  OBVIOUS
<1>3. Nat \subseteq T
  <2> HIDE DEF T
  <2> QED
    BY <1>1, <1>2, Induction
<1> QED
  BY <1>3

----
(* A node, with any of its pointers, and a heap of some of the nodes.      *)
Record4 == [win : Window \union {Root, Pseudo}, parent : Pointer, left : Pointer,
            right : Pointer, zoom : Pointer]

Heaps == UNION {[D -> Record4] : D \in SUBSET Node}

(* h is a proper binary tree with root t and nothing else.                 *)
Shape(h, t) ==
    /\ t = Null => DOMAIN h = {}
    /\ t # Null => t \in DOMAIN h /\ h[t].parent = Null
    /\ \A n \in DOMAIN h \ {t} : /\ h[n].parent \in DOMAIN h
                                 /\ n \in {h[h[n].parent].left, h[h[n].parent].right}
    /\ \A n \in DOMAIN h :
        \/ /\ h[n].win = Root
           /\ h[n].left \in DOMAIN h /\ h[n].right \in DOMAIN h
           /\ h[n].left # h[n].right
           /\ h[h[n].left].parent = n
           /\ h[h[n].right].parent = n
        \/ /\ h[n].win \in Window
           /\ h[n].left = Null
           /\ h[n].right = Null
    /\ \E rank \in [DOMAIN h -> Nat] :
            \A n \in DOMAIN h \ {t} : rank[h[n].parent] < rank[n]

(* Sequences of one and two elements, and what two more add to one.        *)
LEMMA OneElement ==
    ASSUME NEW S, NEW a \in S
    PROVE  <<a>> \in Seq(S) /\ Len(<<a>>) = 1 /\ <<a>>[1] = a
  OBVIOUS

LEMMA AppendTwo ==
    ASSUME NEW S, NEW q \in Seq(S), NEW a \in S, NEW b \in S
    PROVE  /\ q \o <<a, b>> \in Seq(S)
           /\ Len(q \o <<a, b>>) = Len(q) + 2
           /\ \A j \in 1..Len(q) : (q \o <<a, b>>)[j] = q[j]
           /\ (q \o <<a, b>>)[Len(q) + 1] = a
           /\ (q \o <<a, b>>)[Len(q) + 2] = b
  OBVIOUS

LEMMA JoinTwo == ASSUME NEW a, NEW b PROVE <<a>> \o <<b>> = <<a, b>>
<1> DEFINE S == {a, b}
           s == <<a>> \o <<b>>
<1>1. <<a>> \in Seq(S) /\ <<b>> \in Seq(S)
  OBVIOUS
<1>2. s \in Seq(S) /\ Len(s) = 2 /\ s[1] = a /\ s[2] = b
  <2> HIDE DEF S
  <2> QED
    BY <1>1
<1>3. <<a, b>> \in Seq(S) /\ Len(<<a, b>>) = 2 /\ <<a, b>>[1] = a /\ <<a, b>>[2] = b
  OBVIOUS
<1>4. \A i \in 1..Len(s) : s[i] = <<a, b>>[i]
  <2> TAKE i \in 1..Len(s)
  <2>1. i = 1 \/ i = 2
    BY <1>2
  <2> QED
    BY <2>1, <1>2, <1>3
<1> HIDE DEF S, s
<1>5. s = <<a, b>>
  BY <1>2, <1>3, <1>4, SeqEqual
<1> QED
  BY <1>5 DEF s

(* An inner node has two children and a leaf has none.                     *)
LEMMA ChildrenOf ==
    ASSUME NEW v, NEW n \in DOMAIN v.heap, v.heap \in Heaps, Shape(v.heap, v.tree)
    PROVE  /\ v.heap[n].win = Root => Children(v, n) = <<v.heap[n].left, v.heap[n].right>>
           /\ v.heap[n].win # Root => Children(v, n) = <<>>
<1>1. DOMAIN v.heap \subseteq Node
  BY DEF Heaps
<1>2. Null \notin DOMAIN v.heap
  BY <1>1 DEF Node, Null
<1>3. CASE v.heap[n].win = Root
  <2>1. v.heap[n].left \in DOMAIN v.heap /\ v.heap[n].right \in DOMAIN v.heap
    BY <1>3, BspAssumption DEF Shape
  <2>2. Child(v.heap[n].left) = <<v.heap[n].left>> /\ Child(v.heap[n].right) = <<v.heap[n].right>>
    BY <2>1, <1>2 DEF Child
  <2> QED
    BY <2>2, <1>3, JoinTwo DEF Children
<1>4. CASE v.heap[n].win # Root
  <2>1. v.heap[n].left = Null /\ v.heap[n].right = Null
    BY <1>4 DEF Shape
  <2> QED
    BY <2>1, <1>4 DEF Children, Child
<1> QED
  BY <1>3, <1>4

(* What is known of the queue after i nodes have been visited.             *)
Queue(h, t, q, i) ==
    /\ q \in Seq(DOMAIN h)
    /\ Len(q) >= 1
    /\ q[1] = t
    /\ \A a, b \in 1..Len(q) : q[a] = q[b] => a = b
    /\ \A j \in 2..Len(q) : \E k \in 1..(j - 1) : k <= i /\ h[q[j]].parent = q[k]
    /\ \A k \in 1..Len(q) : k <= i /\ h[q[k]].win = Root =>
            \E a, b \in (k + 1)..Len(q) : q[a] = h[q[k]].left /\ q[b] = h[q[k]].right

(* A visit, to node q[i] or to none, keeps what is known of the queue.     *)
LEMMA QueueStep ==
    ASSUME NEW v, v.heap \in Heaps, Shape(v.heap, v.tree), v.tree # Null,
           NEW i \in Nat \ {0}, NEW q, Queue(v.heap, v.tree, q, i - 1)
    PROVE  Queue(v.heap, v.tree, IF i > Len(q) THEN q ELSE q \o Children(v, q[i]), i)
<1> DEFINE h == v.heap
           t == v.tree
<1>1. /\ q \in Seq(DOMAIN h) /\ Len(q) \in Nat
      /\ \A j \in 1..Len(q) : q[j] \in DOMAIN h
  BY DEF Queue
<1>2. CASE i > Len(q)
  <2>1. \A k \in 1..Len(q) : k <= i - 1 /\ k <= i
    BY <1>1, <1>2
  <2>2. Queue(h, t, q, i)
    <3> HIDE DEF h, t
    <3> QED
      BY <2>1, <1>1 DEF Queue, h, t
  <2> QED
    BY <2>2, <1>2
<1>3. CASE i <= Len(q) /\ h[q[i]].win # Root
  <2>1. Children(v, q[i]) = <<>>
    BY <1>1, <1>3, ChildrenOf
  <2>2. q \o Children(v, q[i]) = q
    BY <2>1, <1>1
  <2>3. \A k \in 1..Len(q) : (k <= i - 1 => k <= i) /\ (k <= i /\ k # i => k <= i - 1)
    BY <1>1
  <2>4. \A k \in 1..Len(q) : k <= i /\ h[q[k]].win = Root => k <= i - 1
    BY <2>3, <1>3
  <2>5. Queue(h, t, q, i)
    <3>1. \A j \in 2..Len(q) : \A k \in 1..(j - 1) : k \in 1..Len(q)
      BY <1>1
    <3> QED
      BY <3>1, <2>3, <2>4 DEF Queue
  <2> QED
    BY <2>2, <2>5, <1>1, <1>3
<1>4. CASE i <= Len(q) /\ h[q[i]].win = Root
  <2> DEFINE n == q[i]
             l == h[n].left
             r == h[n].right
             u == q \o <<l, r>>
  <2>1. n \in DOMAIN h /\ Children(v, n) = <<l, r>>
    BY <1>1, <1>4, ChildrenOf
  <2>2. /\ l \in DOMAIN h /\ r \in DOMAIN h /\ l # r
        /\ h[l].parent = n /\ h[r].parent = n
    BY <2>1, <1>4, BspAssumption DEF Shape
  <2>3. t \in DOMAIN h /\ h[t].parent = Null /\ n # Null
    BY <2>1 DEF Shape, Heaps, Node, Null
  <2>4. /\ u \in Seq(DOMAIN h) /\ Len(u) = Len(q) + 2
        /\ \A j \in 1..Len(q) : u[j] = q[j]
        /\ u[Len(q) + 1] = l /\ u[Len(q) + 2] = r
    <3> HIDE DEF l, r, h
    <3> QED
      BY <2>2, <1>1, AppendTwo
  <2>5. ASSUME NEW j \in 1..Len(q), h[q[j]].parent = n
        PROVE  FALSE
    <3>1. j # 1
      BY <2>3, <2>5 DEF Queue
    <3>2. PICK k \in 1..(j - 1) : k <= i - 1 /\ h[q[j]].parent = q[k]
      BY <3>1, <1>1 DEF Queue
    <3>3. k = i
      BY <3>2, <2>5, <1>1, <1>4 DEF Queue
    <3> QED
      BY <3>2, <3>3
  <2>6. \A a, b \in 1..Len(u) : u[a] = u[b] => a = b
    <3>1. \A a, b \in 1..Len(q) : q[a] = q[b] => a = b
      BY DEF Queue
    <3>2. \A a \in 1..Len(q) : u[a] # l /\ u[a] # r
      BY <2>2, <2>4, <2>5
    <3> HIDE DEF u, l, r
    <3> QED
      BY <3>1, <3>2, <2>2, <2>4, <1>1
  <2>7. \A j \in 2..Len(u) : \E k \in 1..(j - 1) : k <= i /\ h[u[j]].parent = u[k]
    <3> TAKE j \in 2..Len(u)
    <3>1. CASE j <= Len(q)
      <4>1. PICK k \in 1..(j - 1) : k <= i - 1 /\ h[q[j]].parent = q[k]
        BY <3>1, <1>1 DEF Queue
      <4>2. j \in 1..Len(q) /\ k \in 1..Len(q) /\ k <= i
        BY <4>1, <3>1, <1>1
      <4>3. u[j] = q[j] /\ u[k] = q[k]
        BY <4>2, <2>4
      <4> HIDE DEF u, h
      <4> QED
        BY <4>1, <4>2, <4>3
    <3>2. CASE j > Len(q)
      <4>1. j = Len(q) + 1 \/ j = Len(q) + 2
        <5>1. j \in 2..(Len(q) + 2)
          BY <2>4
        <5> QED
          BY <5>1, <3>2, <1>1
      <4>2. h[u[j]].parent = n /\ u[i] = n
        BY <4>1, <2>2, <2>4, <1>1, <1>4
      <4>3. i \in 1..(j - 1) /\ i <= i
        BY <3>2, <2>4, <1>1, <1>4
      <4> HIDE DEF u, h, n
      <4> QED
        BY <4>2, <4>3
    <3>3. j <= Len(q) \/ j > Len(q)
      <4>1. j \in Nat
        BY <2>4, <1>1
      <4> QED
        BY <4>1, <1>1
    <3> QED
      BY <3>1, <3>2, <3>3
  <2>8. \A k \in 1..Len(u) : k <= i /\ h[u[k]].win = Root =>
            \E a, b \in (k + 1)..Len(u) : u[a] = h[u[k]].left /\ u[b] = h[u[k]].right
    <3> SUFFICES ASSUME NEW k \in 1..Len(u), k <= i, h[u[k]].win = Root
                 PROVE  \E a, b \in (k + 1)..Len(u) :
                            u[a] = h[u[k]].left /\ u[b] = h[u[k]].right
      OBVIOUS
    <3>1. CASE k = i
      <4>1. u[k] = n
        BY <3>1, <2>4, <1>4
      <4>2. Len(q) + 1 \in (k + 1)..Len(u) /\ Len(q) + 2 \in (k + 1)..Len(u)
        BY <3>1, <2>4, <1>1, <1>4
      <4> HIDE DEF u
      <4> QED
        BY <4>1, <4>2, <2>4
    <3>2. CASE k <= i - 1
      <4>1. k \in 1..Len(q) /\ u[k] = q[k]
        BY <3>2, <2>4, <1>1, <1>4
      <4>2. PICK a, b \in (k + 1)..Len(q) : q[a] = h[q[k]].left /\ q[b] = h[q[k]].right
        BY <4>1, <3>2 DEF Queue
      <4> HIDE DEF u
      <4> QED
        BY <4>1, <4>2, <2>4, <1>1
    <3>3. k = i \/ k <= i - 1
      <4>1. k \in Nat /\ k <= i
        BY <2>4, <1>1
      <4> QED
        BY <4>1
    <3> QED
      BY <3>1, <3>2, <3>3
  <2>9. Queue(h, t, u, i)
    <3>1. Len(u) >= 1 /\ u[1] = t
      BY <2>4, <1>1 DEF Queue
    <3> HIDE DEF u
    <3> QED
      BY <3>1, <2>4, <2>6, <2>7, <2>8 DEF Queue
  <2> QED
    BY <2>1, <2>9, <1>1, <1>4
<1> QED
  BY <1>1, <1>2, <1>3, <1>4

(* So it is known of what BreadthFirst returns, after MaxNode visits.      *)
LEMMA QueueOfTree ==
    ASSUME NEW v, v.heap \in Heaps, Shape(v.heap, v.tree), v.tree # Null
    PROVE  Queue(v.heap, v.tree, BreadthFirst(v), MaxNode)
<1> DEFINE After(q, i) == IF i > Len(q) THEN q ELSE q \o Children(v, q[i])
           G == [i \in 0..MaxNode |-> {q \in Seq(DOMAIN v.heap) : Queue(v.heap, v.tree, q, i)}]
           F == [i \in 1..MaxNode |-> [q \in G[i - 1] |-> After(q, i)]]
           x == <<v.tree>>
           Met(f) == f = [i \in 0..MaxNode |-> IF i = 0 THEN <<v.tree>> ELSE After(f[i - 1], i)]
<1>1. MaxNode \in Nat
  BY BspAssumption
<1>2. x \in G[0]
  <2>1. v.tree \in DOMAIN v.heap
    BY DEF Shape
  <2>2. x \in Seq(DOMAIN v.heap) /\ Len(x) = 1 /\ x[1] = v.tree
    BY <2>1, OneElement
  <2>3. Queue(v.heap, v.tree, x, 0)
    <3> HIDE DEF x
    <3> QED
      BY <2>2 DEF Queue
  <2> HIDE DEF x
  <2> QED
    BY <2>2, <2>3, <1>1
<1>3. \A i \in 1..MaxNode : \A q \in G[i - 1] : After(q, i) \in G[i]
  <2> TAKE i \in 1..MaxNode
  <2> TAKE q \in G[i - 1]
  <2>1. i \in Nat \ {0} /\ i - 1 \in 0..MaxNode /\ i \in 0..MaxNode
    BY <1>1
  <2>2. Queue(v.heap, v.tree, q, i - 1)
    BY <2>1
  <2>3. Queue(v.heap, v.tree, After(q, i), i)
    BY <2>1, <2>2, QueueStep
  <2>4. After(q, i) \in Seq(DOMAIN v.heap)
    BY <2>3 DEF Queue
  <2> HIDE DEF After
  <2> QED
    BY <2>1, <2>3, <2>4
<1>4. \E f : Met(f)
  <2>1. \A i \in 1..MaxNode : \A q \in G[i - 1] : F[i][q] = After(q, i)
    <3> HIDE DEF After, G
    <3> QED
      OBVIOUS
  <2>2. \A i \in 1..MaxNode : \A q \in G[i - 1] : F[i][q] \in G[i]
    <3> HIDE DEF After, G, F
    <3> QED
      BY <2>1, <1>3
  <2>3. PICK g : Iteration(g, MaxNode, x, F, G)
    <3> HIDE DEF After, G, F, x
    <3> QED
      BY <1>1, <1>2, <2>2, Iterate
  <2>4. \A i \in 0..MaxNode : g[i] = IF i = 0 THEN x ELSE After(g[i - 1], i)
    <3> TAKE i \in 0..MaxNode
    <3>1. i # 0 => i \in 1..MaxNode /\ i - 1 \in 0..MaxNode
      BY <1>1
    <3> HIDE DEF After, G, F, x
    <3> QED
      BY <2>1, <2>3, <3>1 DEF Iteration
  <2>5. Met(g)
    <3>1. g = [i \in 0..MaxNode |-> g[i]]
      <4> HIDE DEF F, G, x
      <4> QED
        BY <2>3 DEF Iteration
    <3> HIDE DEF After
    <3> QED
      BY <2>4, <3>1, Zenon
  <2> QED
    BY <2>5
<1>5. Met(CHOOSE f : Met(f))
  <2> HIDE DEF Met
  <2> QED
    BY <1>4
<1> DEFINE f == CHOOSE f_1 : Met(f_1)
<1>6. BreadthFirst(v) = f[MaxNode]
  BY DEF BreadthFirst
<1> HIDE DEF f
<1>7. \A i \in 0..MaxNode : f[i] = IF i = 0 THEN x ELSE After(f[i - 1], i)
  <2>1. Met(f)
    <3> HIDE DEF Met
    <3> QED
      BY <1>5 DEF f
  <2> HIDE DEF After
  <2> QED
    BY <2>1
<1>8. \A i \in 0..MaxNode : f[i] \in G[i]
  <2>1. f[0] \in G[0]
    <3> HIDE DEF G, x, After
    <3> QED
      BY <1>1, <1>2, <1>7
  <2>2. \A i \in 1..MaxNode : f[i - 1] \in G[i - 1] => f[i] \in G[i]
    <3> HIDE DEF G, x, After
    <3> QED
      BY <1>1, <1>3, <1>7
  <2> HIDE DEF G
  <2> QED
    BY <1>1, <2>1, <2>2, StaysIn
<1> QED
  BY <1>1, <1>6, <1>8

(* The breadth-first search of a proper tree meets every node of the heap, *)
(* once, and ends with a leaf.  No node is missed: of those that are, the  *)
(* one of least rank has a parent that was met, and visited, for the queue *)
(* is no longer than there are nodes.                                      *)
LEMMA BreadthFirstMeetsAll ==
    ASSUME NEW v, v.heap \in Heaps, Shape(v.heap, v.tree), v.tree # Null,
           NEW q, q = BreadthFirst(v)
    PROVE  /\ q \in Seq(DOMAIN v.heap) /\ Len(q) >= 1
           /\ \A a, b \in 1..Len(q) : q[a] = q[b] => a = b
           /\ \A n \in DOMAIN v.heap : \E k \in 1..Len(q) : n = q[k]
           /\ v.heap[q[Len(q)]].win # Root
<1> DEFINE h == v.heap
           t == v.tree
<1>1. Queue(h, t, q, MaxNode)
  BY QueueOfTree
<1>2. /\ q \in Seq(DOMAIN h) /\ Len(q) \in Nat /\ Len(q) >= 1
      /\ \A j \in 1..Len(q) : q[j] \in DOMAIN h
      /\ \A a, b \in 1..Len(q) : q[a] = q[b] => a = b
  BY <1>1 DEF Queue
<1>3. DOMAIN h \subseteq Node
  BY DEF Heaps
<1>4. Len(q) <= MaxNode
  <2>1. MaxNode \in Nat /\ IsFiniteSet(Node) /\ Cardinality(Node) = MaxNode
    BY BspAssumption, FS_Interval DEF Node
  <2>2. IsFiniteSet(1..Len(q)) /\ Cardinality(1..Len(q)) = Len(q)
    BY <1>2, FS_Interval
  <2>3. q \in [1..Len(q) -> Node]
    BY <1>2, <1>3
  <2> HIDE DEF h, t
  <2>4. q \in Injection(1..Len(q), Node)
    BY <1>2, <2>3 DEF Injection, IsInjective
  <2> QED
    BY <2>1, <2>2, <2>4, <1>2, FS_Injection
<1>5. \A k \in 1..Len(q) : h[q[k]].win = Root =>
          \E a, b \in (k + 1)..Len(q) : q[a] = h[q[k]].left /\ q[b] = h[q[k]].right
  <2>1. \A k \in 1..Len(q) : k <= MaxNode
    <3>1. MaxNode \in Nat
      BY BspAssumption
    <3> QED
      BY <3>1, <1>2, <1>4
  <2> QED
    BY <2>1, <1>1 DEF Queue
<1>6. h[q[Len(q)]].win # Root
  <2>1. Len(q) \in 1..Len(q) /\ (Len(q) + 1)..Len(q) = {}
    BY <1>2
  <2> HIDE DEF h
  <2> QED
    BY <2>1, <1>5
<1>7. \A n \in DOMAIN h : \E k \in 1..Len(q) : n = q[k]
  <2>1. PICK rank \in [DOMAIN h -> Nat] : \A n \in DOMAIN h \ {t} : rank[h[n].parent] < rank[n]
    BY DEF Shape
  <2> DEFINE missed == {n \in DOMAIN h : \A k \in 1..Len(q) : n # q[k]}
             T == {rank[n] : n \in missed}
  <2> SUFFICES ASSUME missed # {}
               PROVE  FALSE
    OBVIOUS
  <2>2. T \subseteq Nat /\ T # {}
    BY <2>1
  <2>3. PICK m \in T : \A k \in T : m <= k
    <3> HIDE DEF T
    <3> QED
      BY <2>2, Least
  <2>4. PICK n \in missed : m = rank[n]
    OBVIOUS
  <2>5. n \in DOMAIN h /\ n # t
    BY <1>1, <1>2 DEF Queue
  <2> DEFINE p == h[n].parent
  <2>6. p \in DOMAIN h /\ n \in {h[p].left, h[p].right} /\ rank[p] < rank[n]
    BY <2>5, <2>1 DEF Shape
  <2>7. p \notin missed
    <3>1. rank[p] \in Nat /\ rank[n] \in Nat
      BY <2>1, <2>5, <2>6
    <3>2. p \in missed => rank[n] <= rank[p]
      BY <2>3, <2>4
    <3> HIDE DEF p, missed
    <3> QED
      BY <3>1, <3>2, <2>6
  <2>8. PICK k \in 1..Len(q) : p = q[k]
    BY <2>6, <2>7
  <2>9. h[p].win = Root
    <3>1. n # Null
      BY <2>5, <1>3 DEF Node, Null
    <3> QED
      BY <2>6, <3>1 DEF Shape
  <2>10. \E a \in 1..Len(q) : q[a] = n
    <3>1. PICK a, b \in (k + 1)..Len(q) : q[a] = h[p].left /\ q[b] = h[p].right
      BY <2>8, <2>9, <1>5
    <3>2. a \in 1..Len(q) /\ b \in 1..Len(q)
      BY <1>2
    <3> QED
      BY <3>1, <3>2, <2>6
  <2> QED
    BY <2>10
<1> QED
  BY <1>2, <1>6, <1>7

(* The first of some indices is one of them.                               *)
LEMMA FirstIndex ==
    ASSUME NEW n \in Nat, NEW I, I \subseteq 1..n, I # {}
    PROVE  Min(I) \in I
<1>1. I \subseteq Nat
  OBVIOUS
<1>2. \E x \in I : \A y \in I : x <= y
  BY <1>1, Least
<1> QED
  BY <1>2 DEF Min

(* The operators that go through the tree, of a proper tree: all the nodes *)
(* there are, the leafs among them, and a first leaf.                      *)
LEMMA NodesOfTree ==
    ASSUME NEW v, v.heap \in Heaps, Shape(v.heap, v.tree)
    PROVE  /\ IsInjective(BreadthFirst(v))
           /\ TreeNodes(v) = DOMAIN v.heap
           /\ Leaves(v) = {n \in DOMAIN v.heap : v.heap[n].win # Root}
           /\ v.tree # Null => /\ GetFirstMinDepthLeafNode(v) \in Leaves(v)
                               /\ GetFirstMinDepthPseudoLeafNode(v) = Null
<1> DEFINE q == BreadthFirst(v)
           D == DOMAIN v.heap
<1>1. CASE v.tree = Null
  <2>1. q = <<>> /\ D = {}
    BY <1>1 DEF BreadthFirst, Shape
  <2>2. IsInjective(q) /\ ToSet(q) = {}
    <3> HIDE DEF q
    <3> QED
      BY <2>1 DEF IsInjective, ToSet
  <2> QED
    BY <1>1, <2>1, <2>2 DEF TreeNodes, Leaves
<1>2. CASE v.tree # Null
  <2>1. /\ q \in Seq(D) /\ Len(q) \in Nat /\ Len(q) >= 1 /\ DOMAIN q = 1..Len(q)
        /\ \A a, b \in 1..Len(q) : q[a] = q[b] => a = b
        /\ \A n \in D : \E k \in 1..Len(q) : n = q[k]
        /\ \A k \in 1..Len(q) : q[k] \in D
        /\ v.heap[q[Len(q)]].win # Root
    <3> HIDE DEF q
    <3>1. q = BreadthFirst(v)
      BY DEF q
    <3> QED
      BY <1>2, <3>1, BreadthFirstMeetsAll
  <2>2. IsInjective(q)
    <3> HIDE DEF q
    <3> QED
      BY <2>1 DEF IsInjective
  <2>3. TreeNodes(v) = D
    <3>1. ToSet(q) = D
      <4> HIDE DEF q, D
      <4> QED
        BY <2>1 DEF ToSet
    <3> QED
      BY <3>1 DEF TreeNodes
  <2>4. Leaves(v) = {n \in D : v.heap[n].win # Root}
    <3>1. \A n \in D : v.heap[n].win # Root => ToSet(Children(v, n)) = {}
      BY ChildrenOf DEF ToSet
    <3>2. UNION {ToSet(Children(v, n)) : n \in {m \in D : IsLeafNode(v, m)}} = {}
      BY <3>1 DEF IsLeafNode
    <3> QED
      BY <2>3, <3>2 DEF Leaves, IsLeafNode
  <2>5. GetFirstMinDepthLeafNode(v) \in {n \in D : v.heap[n].win # Root}
    <3> DEFINE I == {i \in 1..Len(q) : v.heap[q[i]].win # Root}
    <3>1. Len(q) \in I
      <4> HIDE DEF q
      <4> QED
        BY <2>1
    <3>2. Min(I) \in I
      <4> HIDE DEF q
      <4> QED
        BY <2>1, <3>1, FirstIndex
    <3>3. Min(I) # 0 /\ q[Min(I)] \in {n \in D : v.heap[n].win # Root}
      <4> DEFINE m == Min(I)
      <4>1. m \in 1..Len(q) /\ v.heap[q[m]].win # Root
        BY <3>2
      <4> HIDE DEF q, I, m
      <4>2. m # 0
        BY <4>1, <2>1
      <4>3. m # 0 /\ q[m] \in {n \in D : v.heap[n].win # Root}
        BY <2>1, <4>1, <4>2
      <4> QED
        BY <4>3 DEF m
    <3>4. SelectInSeq(q, LAMBDA n : IsLeafNode(v, n)) = Min(I)
      BY <3>1 DEF SelectInSeq, IsLeafNode
    <3>5. GetFirstMinDepthLeafNode(v) = q[Min(I)]
      <4> HIDE DEF I
      <4> QED
        BY <3>3, <3>4 DEF GetFirstMinDepthLeafNode, FirstNode
    <3> QED
      BY <3>3, <3>5
  <2>6. GetFirstMinDepthPseudoLeafNode(v) = Null
    <3>1. \A i \in 1..Len(q) : v.heap[q[i]].win # Pseudo
      <4> HIDE DEF q
      <4> QED
        BY <2>1, BspAssumption DEF Shape
    <3>2. SelectInSeq(q, LAMBDA n : v.heap[n].win = Pseudo) = 0
      BY <3>1 DEF SelectInSeq
    <3> QED
      BY <3>2 DEF GetFirstMinDepthPseudoLeafNode, FirstNode
  <2> QED
    BY <2>2, <2>3, <2>4, <2>5, <2>6
<1> QED
  BY <1>1, <1>2

----
(* A window is in one node at most.                                        *)
Unique(h) == \A m, n \in DOMAIN h : h[m].win = h[n].win /\ h[m].win # Root => m = n

(* The windows that the nodes hold.                                        *)
Held(h) == {h[n].win : n \in DOMAIN h} \ {Root}

(* A node other than the root zooms one of its children, and the root may  *)
(* zoom any node that its parent does not zoom too: what keeps both        *)
(* pointers sound when the node is taken out.                              *)
Zooms(h, t) ==
    \A n \in DOMAIN h \ {t} : /\ h[n].zoom # Null => h[n].zoom \in {h[n].left, h[n].right}
                              /\ h[t].zoom = n /\ h[n].parent # t => h[h[n].parent].zoom # n

Tree(h, t) == h \in Heaps /\ Shape(h, t) /\ Unique(h) /\ Zooms(h, t)

(* What is in a heap.                                                      *)
LEMMA HeapTypes ==
    ASSUME NEW h \in Heaps
    PROVE  /\ DOMAIN h \subseteq Node
           /\ Null \notin DOMAIN h
           /\ h \in [DOMAIN h -> Record4]
           /\ \A n \in DOMAIN h : h[n] \in Record4
  BY DEF Heaps, Node, Null

(* And what makes a heap.                                                  *)
LEMMA HeapOf ==
    ASSUME NEW h, NEW D, D \subseteq Node, h \in [D -> Record4]
    PROVE  h \in Heaps
  BY DEF Heaps

(* h when leaf p is split into a, with window x, and b, with window y.     *)
Split(h, p, a, x, b, y) ==
    [n \in DOMAIN h \union {a, b} |->
        CASE n = a -> Record(x, p)
          [] n = b -> Record(y, p)
          [] n = p -> [h[p] EXCEPT !.win = Root, !.left = a, !.right = b]
          [] OTHER -> h[n]]

(* The tree is proper after a leaf is split, and one window more is held.  *)
LEMMA SplitKeepsTree ==
    ASSUME NEW h, NEW t, Tree(h, t), t # Null,
           NEW p \in DOMAIN h, h[p].win # Root,
           NEW a \in Node \ DOMAIN h, NEW b \in Node \ DOMAIN h, a # b,
           NEW w \in Window, w \notin Held(h),
           NEW x, NEW y, <<x, y>> \in {<<h[p].win, w>>, <<w, h[p].win>>},
           NEW g, g = Split(h, p, a, x, b, y)
    PROVE  Tree(g, t) /\ Held(g) = Held(h) \union {w}
<1>1. /\ h \in Heaps /\ DOMAIN h \subseteq Node /\ Null \notin DOMAIN h
      /\ \A n \in DOMAIN h : h[n] \in Record4
  BY HeapTypes DEF Tree
<1>2. /\ Shape(h, t) /\ t \in DOMAIN h
      /\ h[p].win \in Window /\ h[p].left = Null /\ h[p].right = Null
      /\ h[p].win # w
  BY DEF Tree, Shape, Held
<1>3. x \in Window /\ y \in Window /\ x # y /\ {x, y} = {h[p].win, w}
  BY <1>2
<1>4. /\ DOMAIN g = DOMAIN h \union {a, b}
      /\ g[a] = [win |-> x, parent |-> p, left |-> Null, right |-> Null, zoom |-> Null]
      /\ g[b] = [win |-> y, parent |-> p, left |-> Null, right |-> Null, zoom |-> Null]
      /\ g[p] = [win |-> Root, parent |-> h[p].parent, left |-> a, right |-> b,
                 zoom |-> h[p].zoom]
      /\ \A n \in DOMAIN h \ {p} : g[n] = h[n]
  <2>1. /\ DOMAIN g = DOMAIN h \union {a, b}
        /\ g[a] = Record(x, p) /\ g[b] = Record(y, p)
        /\ g[p] = [h[p] EXCEPT !.win = Root, !.left = a, !.right = b]
        /\ \A n \in DOMAIN h \ {p} : g[n] = h[n]
    BY DEF Split
  <2>2. h[p] \in Record4
    BY <1>1
  <2>3. g[p] = [win |-> Root, parent |-> h[p].parent, left |-> a, right |-> b,
                zoom |-> h[p].zoom]
    BY <2>1, <2>2 DEF Record4
  <2> QED
    BY <2>1, <2>3 DEF Record
<1>5. a \in Node /\ b \in Node /\ a # p /\ b # p /\ a # Null /\ b # Null
  BY DEF Node, Null
<1>6. g \in Heaps
  <2>1. \A n \in DOMAIN g : g[n] \in Record4
    BY <1>1, <1>3, <1>4, <1>5 DEF Record4, Pointer
  <2>2. g \in [DOMAIN g -> Record4] /\ DOMAIN g \subseteq Node
    BY <2>1, <1>1, <1>4, <1>5 DEF Split
  <2> QED
    BY <2>2, HeapOf
<1>7. Shape(g, t)
  <2>1. t \in DOMAIN g /\ g[t].parent = Null
    BY <1>2, <1>4 DEF Shape
  <2>2. ASSUME NEW n \in DOMAIN g \ {t}
        PROVE  /\ g[n].parent \in DOMAIN g
               /\ n \in {g[g[n].parent].left, g[g[n].parent].right}
    <3>1. CASE n \in {a, b}
      <4>1. g[a].parent = p /\ g[b].parent = p
        BY <1>4
      <4>2. g[p].left = a /\ g[p].right = b
        BY <1>4
      <4> QED
        BY <4>1, <4>2, <3>1, <1>4
    <3>2. CASE n \in DOMAIN h
      <4>1. h[n].parent \in DOMAIN h /\ n \in {h[h[n].parent].left, h[h[n].parent].right}
        BY <3>2, <1>2 DEF Shape
      <4>2. h[n].parent # p
        BY <4>1, <3>2, <1>1, <1>2
      <4>3. g[n].parent = h[n].parent
        BY <3>2, <1>4
      <4> QED
        BY <4>1, <4>2, <4>3, <1>4
    <3> QED
      BY <3>1, <3>2, <1>4
  <2>3. ASSUME NEW n \in DOMAIN g
        PROVE  \/ /\ g[n].win = Root
                  /\ g[n].left \in DOMAIN g /\ g[n].right \in DOMAIN g
                  /\ g[n].left # g[n].right
                  /\ g[g[n].left].parent = n
                  /\ g[g[n].right].parent = n
               \/ /\ g[n].win \in Window
                  /\ g[n].left = Null
                  /\ g[n].right = Null
    <3>1. CASE n \in {a, b}
      BY <3>1, <1>3, <1>4
    <3>2. CASE n = p
      <4>1. g[p].win = Root /\ g[p].left = a /\ g[p].right = b
        BY <1>4
      <4>2. g[a].parent = p /\ g[b].parent = p
        BY <1>4
      <4> QED
        BY <4>1, <4>2, <3>2, <1>4
    <3>3. CASE n \in DOMAIN h \ {p}
      <4>1. g[n] = h[n] /\ \A m \in DOMAIN h : m \in DOMAIN g /\ g[m].parent = h[m].parent
        BY <3>3, <1>4
      <4> QED
        BY <3>3, <4>1, <1>2 DEF Shape
    <3> QED
      BY <3>1, <3>2, <3>3, <1>4
  <2>4. \E rank \in [DOMAIN g -> Nat] : \A n \in DOMAIN g \ {t} : rank[g[n].parent] < rank[n]
    <3>1. PICK rank \in [DOMAIN h -> Nat] :
                \A n \in DOMAIN h \ {t} : rank[h[n].parent] < rank[n]
      BY <1>2 DEF Shape
    <3> DEFINE r == [n \in DOMAIN g |-> IF n \in DOMAIN h THEN rank[n] ELSE rank[p] + 1]
    <3>2. r \in [DOMAIN g -> Nat]
      BY <3>1
    <3>3. ASSUME NEW n \in DOMAIN g \ {t}
          PROVE  r[g[n].parent] < r[n]
      <4>1. CASE n \in {a, b}
        <5>1. g[n].parent = p /\ r[p] = rank[p] /\ r[n] = rank[p] + 1
          BY <4>1, <1>4
        <5> QED
          BY <5>1, <3>1
      <4>2. CASE n \in DOMAIN h
        <5>1. g[n].parent = h[n].parent /\ h[n].parent \in DOMAIN h
          BY <4>2, <1>2, <1>4 DEF Shape
        <5>2. r[n] = rank[n] /\ r[h[n].parent] = rank[h[n].parent]
          BY <5>1, <4>2, <1>4
        <5> QED
          BY <5>1, <5>2, <4>2, <3>1
      <4> QED
        BY <4>1, <4>2, <1>4
    <3> HIDE DEF r
    <3> QED
      BY <3>2, <3>3
  <2>5. t # Null
    OBVIOUS
  <2> QED
    BY <2>1, <2>2, <2>3, <2>4 DEF Shape
<1>8. Unique(g)
  <2> SUFFICES ASSUME NEW m \in DOMAIN g, NEW n \in DOMAIN g, g[m].win = g[n].win, g[m].win # Root
               PROVE  m = n
    BY DEF Unique
  <2>1. \A i \in DOMAIN h : h[i].win # w
    BY BspAssumption DEF Held
  <2>2. \A i, j \in DOMAIN h : h[i].win = h[j].win /\ h[i].win # Root => i = j
    BY DEF Tree, Unique
  <2>3. m # p /\ n # p
    BY <1>4
  <2>4. \A i \in DOMAIN h \ {p} : g[i].win = h[i].win /\ (h[i].win # Root => h[i].win \notin {x, y})
    BY <2>1, <2>2, <1>3, <1>4
  <2> QED
    BY <2>2, <2>3, <2>4, <1>3, <1>4
<1>9. Zooms(g, t)
  <2>1. ASSUME NEW n \in DOMAIN g \ {t}, g[n].zoom # Null
        PROVE  g[n].zoom \in {g[n].left, g[n].right}
    <3>1. n \in DOMAIN h
      BY <2>1, <1>4
    <3>2. h[n].zoom = g[n].zoom
      BY <3>1, <1>4
    <3>3. h[n].zoom \in {h[n].left, h[n].right}
      BY <3>1, <3>2, <2>1 DEF Tree, Zooms
    <3>4. n # p
      BY <3>2, <3>3, <2>1, <1>2
    <3> QED
      BY <3>1, <3>3, <3>4, <1>4
  <2>2. ASSUME NEW n \in DOMAIN g \ {t}, g[t].zoom = n, g[n].parent # t
        PROVE  g[g[n].parent].zoom # n
    <3>1. g[t].zoom = h[t].zoom
      BY <1>2, <1>4
    <3>2. CASE n \in {a, b}
      <4>1. g[n].parent = p /\ p # t
        BY <3>2, <2>2, <1>4
      <4>2. h[p].zoom = Null
        BY <4>1, <1>1, <1>2 DEF Tree, Zooms
      <4> QED
        BY <4>1, <4>2, <3>2, <1>4, <1>5
    <3>3. CASE n \in DOMAIN h
      <4>1. g[n].parent = h[n].parent /\ h[n].parent \in DOMAIN h
        BY <3>3, <1>2, <1>4 DEF Shape
      <4>2. g[g[n].parent].zoom = h[h[n].parent].zoom
        BY <4>1, <1>4
      <4> QED
        BY <4>1, <4>2, <3>1, <3>3, <2>2 DEF Tree, Zooms
    <3> QED
      BY <3>2, <3>3, <1>4
  <2> QED
    BY <2>1, <2>2 DEF Zooms
<1>10. Held(g) = Held(h) \union {w}
  <2>1. x # Root /\ y # Root /\ w # Root /\ h[p].win # Root
    BY <1>3, BspAssumption
  <2>2. {g[n].win : n \in DOMAIN g} = {h[n].win : n \in DOMAIN h \ {p}} \union {Root, x, y}
    BY <1>4
  <2>3. {h[n].win : n \in DOMAIN h} = {h[n].win : n \in DOMAIN h \ {p}} \union {h[p].win}
    OBVIOUS
  <2> QED
    BY <2>1, <2>2, <2>3, <1>3 DEF Held
<1> QED
  BY <1>6, <1>7, <1>8, <1>9, <1>10 DEF Tree

(* g is h after leaf n and its sibling r are taken out and their parent p   *)
(* has become what r was.                                                  *)
Merged(h, g, n, p, r) ==
    /\ p = h[n].parent
    /\ r = IF h[p].right = n THEN h[p].left ELSE h[p].right
    /\ g = [m \in DOMAIN h \ {n, r} |->
              CASE m = p -> [h[r] EXCEPT !.parent = h[p].parent, !.zoom = Null]
                [] m # p /\ m \in {h[r].left, h[r].right} -> [h[m] EXCEPT !.parent = p]
                [] OTHER -> h[m]]

(* The leafs that remain hold their windows.                               *)
LeafsKeep(h, g) == \A m \in DOMAIN g : h[m].win # Root => g[m].win = h[m].win

(* The tree is proper after a leaf is taken out, its window is no longer   *)
(* held, and two nodes are free.                                           *)
LEMMA MergeKeepsTree ==
    ASSUME NEW h, NEW t, Tree(h, t),
           NEW n \in DOMAIN h, h[n].win # Root, n # t,
           NEW p, NEW r, NEW g, Merged(h, g, n, p, r)
    PROVE  /\ Tree(g, t) /\ Held(g) = Held(h) \ {h[n].win}
           /\ DOMAIN g = DOMAIN h \ {n, r} /\ r \in DOMAIN h /\ n # r
           /\ LeafsKeep(h, g)
<1>1. /\ h \in Heaps /\ DOMAIN h \subseteq Node /\ Null \notin DOMAIN h
      /\ \A m \in DOMAIN h : h[m] \in Record4
  BY HeapTypes DEF Tree
<1>2. Shape(h, t)
  BY DEF Tree
<1>3. PICK rank \in [DOMAIN h -> Nat] : \A m \in DOMAIN h \ {t} : rank[h[m].parent] < rank[m]
  BY <1>2 DEF Shape
<1>4. /\ p = h[n].parent /\ p \in DOMAIN h /\ n \in {h[p].left, h[p].right}
      /\ h[n].left = Null /\ h[n].right = Null
  BY <1>2 DEF Shape, Merged
<1>5. /\ h[p].win = Root /\ r \in DOMAIN h /\ n # r /\ h[r].parent = p
      /\ {h[p].left, h[p].right} = {n, r}
  <2>1. /\ h[p].win = Root
        /\ h[p].left \in DOMAIN h /\ h[p].right \in DOMAIN h /\ h[p].left # h[p].right
        /\ h[h[p].left].parent = p /\ h[h[p].right].parent = p
    BY <1>1, <1>2, <1>4 DEF Shape
  <2>2. r = IF h[p].right = n THEN h[p].left ELSE h[p].right
    BY DEF Merged
  <2> QED
    BY <2>1, <2>2, <1>4
<1>6. t \in DOMAIN h /\ h[t].parent = Null /\ r # t /\ t # Null
  BY <1>1, <1>2, <1>4, <1>5 DEF Shape
<1>7. /\ p # n /\ p # r
      /\ \A m \in DOMAIN h \ {t} : h[m].parent # m /\ h[m].parent # n
      /\ p # t => h[p].parent # r
  <2>1. rank[p] < rank[r] /\ rank[p] < rank[n] /\ rank[p] \in Nat /\ rank[r] \in Nat /\ rank[n] \in Nat
    BY <1>3, <1>4, <1>5, <1>6
  <2>2. ASSUME NEW m \in DOMAIN h \ {t}
        PROVE  h[m].parent # m /\ h[m].parent # n
    <3>1. rank[h[m].parent] < rank[m] /\ rank[m] \in Nat
      BY <1>3
    <3>2. m \in {h[h[m].parent].left, h[h[m].parent].right}
      BY <1>2 DEF Shape
    <3> QED
      BY <3>1, <3>2, <1>1, <1>4
  <2>3. p # t => h[p].parent # r
    BY <2>1, <1>3, <1>4
  <2> QED
    BY <2>1, <2>2, <2>3
<1> DEFINE K == {h[r].left, h[r].right}
<1>8. /\ h[r].win = Root => /\ K \subseteq DOMAIN h /\ h[r].left # h[r].right
                           /\ \A m \in K : h[m].parent = r
      /\ h[r].win # Root => h[r].win \in Window /\ h[r].left = Null /\ h[r].right = Null
      /\ \A m \in DOMAIN h : m \in K => h[m].parent = r
  <2>1. \/ /\ h[r].win = Root
           /\ h[r].left \in DOMAIN h /\ h[r].right \in DOMAIN h /\ h[r].left # h[r].right
           /\ h[h[r].left].parent = r /\ h[h[r].right].parent = r
        \/ h[r].win \in Window /\ h[r].left = Null /\ h[r].right = Null
    BY <1>2, <1>5 DEF Shape
  <2> QED
    BY <2>1, <1>1, BspAssumption
<1>9. \A m \in DOMAIN h : m # t /\ h[m].parent = r => m \in K
  BY <1>2 DEF Shape
<1> HIDE DEF K
<1>10. t \notin K /\ p \notin K /\ n \notin K /\ r \notin K
  <2>1. t \notin K
    BY <1>8, <1>1, <1>5, <1>6
  <2> QED
    BY <2>1, <1>8, <1>4, <1>5, <1>6, <1>7
<1>11. DOMAIN g = DOMAIN h \ {n, r} /\ p \in DOMAIN g /\ t \in DOMAIN g
  BY <1>4, <1>5, <1>6, <1>7 DEF Merged
<1>12. /\ g[p].win = h[r].win /\ g[p].left = h[r].left /\ g[p].right = h[r].right
       /\ g[p].zoom = Null /\ g[p].parent = h[p].parent /\ g[p] \in Record4
  <2>1. g[p] = [h[r] EXCEPT !.parent = h[p].parent, !.zoom = Null]
    BY <1>11 DEF Merged
  <2>2. h[r] \in Record4 /\ h[p].parent \in Pointer /\ Null \in Pointer
    BY <1>1, <1>4, <1>5 DEF Pointer, Record4
  <2> QED
    BY <2>1, <2>2 DEF Record4
<1>13. \A m \in DOMAIN g \ {p} :
            /\ g[m].win = h[m].win /\ g[m].zoom = h[m].zoom
            /\ g[m].left = h[m].left /\ g[m].right = h[m].right
            /\ g[m].parent = IF m \in K THEN p ELSE h[m].parent
            /\ g[m] \in Record4
  <2> TAKE m \in DOMAIN g \ {p}
  <2>1. h[m] \in Record4 /\ p \in Pointer
    BY <1>1, <1>4, <1>11 DEF Pointer
  <2>2. CASE m \in K
    <3>1. g[m] = [h[m] EXCEPT !.parent = p]
      BY <2>2, <1>11 DEF Merged, K
    <3> QED
      BY <3>1, <2>1, <2>2 DEF Record4
  <2>3. CASE m \notin K
    <3>1. g[m] = h[m]
      BY <2>3, <1>11 DEF Merged, K
    <3> QED
      BY <3>1, <2>1, <2>3
  <2> QED
    BY <2>2, <2>3
<1>14. /\ \A m \in DOMAIN g : m \in K => g[m].parent = p
       /\ \A m \in DOMAIN g : m \notin K => g[m].parent = h[m].parent
  BY <1>10, <1>12, <1>13
<1>15. g \in Heaps
  <2>1. \A m \in DOMAIN g : g[m] \in Record4
    BY <1>12, <1>13
  <2>2. g \in [DOMAIN g -> Record4]
    BY <2>1 DEF Merged
  <2> QED
    BY <2>2, <1>1, <1>11, HeapOf
<1>16. Shape(g, t)
  <2>1. t \in DOMAIN g /\ g[t].parent = Null
    BY <1>6, <1>10, <1>11, <1>14
  <2>2. ASSUME NEW m \in DOMAIN g \ {t}
        PROVE  /\ g[m].parent \in DOMAIN g
               /\ m \in {g[g[m].parent].left, g[g[m].parent].right}
    <3> DEFINE q == h[m].parent
    <3>1. /\ m \in DOMAIN h /\ q \in DOMAIN h /\ m \in {h[q].left, h[q].right}
          /\ q # n /\ q # m
      BY <1>2, <1>7, <1>11 DEF Shape
    <3> HIDE DEF q
    <3>2. CASE m \in K
      <4>1. g[m].parent = p
        BY <3>2, <1>14
      <4> QED
        BY <4>1, <3>2, <1>11, <1>12 DEF K
    <3>3. CASE m \notin K
      <4>1. q # r
        BY <3>1, <3>3, <1>9 DEF q
      <4>2. q # p
        <5>1. CASE m = p
          BY <5>1, <3>1
        <5>2. CASE m # p
          BY <5>2, <3>1, <1>5, <1>11
        <5> QED
          BY <5>1, <5>2
      <4>3. q \in DOMAIN g \ {p} /\ g[m].parent = q
        BY <4>1, <4>2, <3>1, <3>3, <1>11, <1>14 DEF q
      <4> QED
        BY <4>3, <3>1, <1>13
    <3> QED
      BY <3>2, <3>3
  <2>3. ASSUME NEW m \in DOMAIN g
        PROVE  \/ /\ g[m].win = Root
                  /\ g[m].left \in DOMAIN g /\ g[m].right \in DOMAIN g
                  /\ g[m].left # g[m].right
                  /\ g[g[m].left].parent = m
                  /\ g[g[m].right].parent = m
               \/ /\ g[m].win \in Window
                  /\ g[m].left = Null
                  /\ g[m].right = Null
    <3>1. CASE m = p /\ h[r].win = Root
      <4>1. h[r].left \in K /\ h[r].right \in K
        BY DEF K
      <4>2. K \subseteq DOMAIN g
        BY <3>1, <1>8, <1>10, <1>11
      <4>3. g[h[r].left].parent = p /\ g[h[r].right].parent = p
        BY <4>1, <4>2, <1>14
      <4> QED
        BY <4>1, <4>2, <4>3, <3>1, <1>8, <1>12
    <3>2. CASE m = p /\ h[r].win # Root
      BY <3>2, <1>8, <1>12
    <3>3. CASE m # p /\ h[m].win # Root
      <4>1. h[m].win \in Window /\ h[m].left = Null /\ h[m].right = Null
        BY <3>3, <1>2, <1>11 DEF Shape
      <4> QED
        BY <4>1, <3>3, <1>13
    <3>4. CASE m # p /\ h[m].win = Root
      <4>1. /\ h[m].left \in DOMAIN h /\ h[m].right \in DOMAIN h /\ h[m].left # h[m].right
            /\ h[h[m].left].parent = m /\ h[h[m].right].parent = m
        BY <3>4, <1>2, <1>11, BspAssumption DEF Shape
      <4>2. ASSUME NEW k \in DOMAIN h, h[k].parent = m
            PROVE  k \in DOMAIN g /\ g[k].parent = m
        <5>1. m # r
          BY <1>11
        <5>2. k # n /\ k # r
          BY <4>2, <3>4, <1>4, <1>5
        <5>3. k \notin K
          BY <4>2, <5>1, <1>8
        <5> QED
          BY <4>2, <5>2, <5>3, <1>11, <1>14
      <4> QED
        BY <4>1, <4>2, <3>4, <1>13
    <3> QED
      BY <3>1, <3>2, <3>3, <3>4
  <2>4. \E s \in [DOMAIN g -> Nat] : \A m \in DOMAIN g \ {t} : s[g[m].parent] < s[m]
    <3> DEFINE s == [m \in DOMAIN g |-> rank[m]]
    <3>1. s \in [DOMAIN g -> Nat]
      BY <1>3, <1>11
    <3>2. ASSUME NEW m \in DOMAIN g \ {t}
          PROVE  s[g[m].parent] < s[m]
      <4>1. g[m].parent \in DOMAIN g
        BY <2>2
      <4>2. s[m] = rank[m] /\ s[g[m].parent] = rank[g[m].parent]
        BY <4>1
      <4> HIDE DEF s
      <4>3. m \in DOMAIN h /\ rank[h[m].parent] < rank[m]
        BY <1>3, <1>11
      <4>4. CASE m \in K
        <5>1. g[m].parent = p /\ h[m].parent = r
          BY <4>3, <4>4, <1>8, <1>14
        <5>2. rank[p] < rank[r] /\ rank[r] < rank[m]
          BY <5>1, <4>3, <1>3, <1>5, <1>6
        <5>3. rank[p] \in Nat /\ rank[r] \in Nat /\ rank[m] \in Nat
          BY <4>3, <1>3, <1>4, <1>5
        <5>4. rank[p] < rank[m]
          BY <5>2, <5>3
        <5> QED
          BY <5>1, <5>4, <4>2
      <4>5. CASE m \notin K
        <5>1. g[m].parent = h[m].parent
          BY <4>5, <1>14
        <5> QED
          BY <5>1, <4>2, <4>3
      <4> QED
        BY <4>4, <4>5
    <3> HIDE DEF s
    <3> QED
      BY <3>1, <3>2
  <2> QED
    BY <2>1, <2>2, <2>3, <2>4, <1>6 DEF Shape
<1>17. Unique(g)
  <2> DEFINE from(m) == IF m = p THEN r ELSE m
  <2>1. \A m \in DOMAIN g : from(m) \in DOMAIN h /\ g[m].win = h[from(m)].win
    BY <1>5, <1>11, <1>12, <1>13
  <2>2. \A m, k \in DOMAIN g : from(m) = from(k) => m = k
    BY <1>11
  <2> HIDE DEF from
  <2> QED
    BY <2>1, <2>2 DEF Tree, Unique
<1>18. Zooms(g, t)
  <2>1. ASSUME NEW m \in DOMAIN g \ {t}, g[m].zoom # Null
        PROVE  g[m].zoom \in {g[m].left, g[m].right}
    <3>1. m # p /\ m \in DOMAIN h
      BY <2>1, <1>11, <1>12
    <3> QED
      BY <3>1, <2>1, <1>13 DEF Tree, Zooms
  <2>2. ASSUME NEW m \in DOMAIN g \ {t}, g[t].zoom = m, g[m].parent # t
        PROVE  g[g[m].parent].zoom # m
    <3>1. m # Null /\ m \in DOMAIN h
      BY <1>1, <1>11
    <3>2. CASE m \in K
      BY <3>1, <3>2, <1>12, <1>14
    <3>3. CASE m \notin K
      <4>1. g[m].parent = h[m].parent
        BY <3>3, <1>14
      <4>2. g[m].parent \in DOMAIN g
        BY <1>16, <3>1 DEF Shape
      <4>3. t # p /\ h[t].zoom = m
        BY <2>2, <3>1, <1>11, <1>12, <1>13
      <4>4. CASE g[m].parent = p
        BY <4>4, <3>1, <1>12
      <4>5. CASE g[m].parent # p
        <5>1. g[g[m].parent].zoom = h[h[m].parent].zoom
          BY <4>1, <4>2, <4>5, <1>13
        <5>2. h[h[m].parent].zoom # m
          BY <4>1, <4>3, <3>1, <2>2 DEF Tree, Zooms
        <5> QED
          BY <5>1, <5>2
      <4> QED
        BY <4>4, <4>5
    <3> QED
      BY <3>2, <3>3
  <2> QED
    BY <2>1, <2>2 DEF Zooms
<1>19. Held(g) = Held(h) \ {h[n].win}
  <2>1. {g[m].win : m \in DOMAIN g} = {h[m].win : m \in DOMAIN h \ {n, p}}
    <3>1. ASSUME NEW m \in DOMAIN g
          PROVE  \E k \in DOMAIN h \ {n, p} : g[m].win = h[k].win
      BY <1>5, <1>7, <1>11, <1>12, <1>13
    <3>2. ASSUME NEW k \in DOMAIN h \ {n, p}
          PROVE  \E m \in DOMAIN g : g[m].win = h[k].win
      BY <1>5, <1>11, <1>12, <1>13
    <3> QED
      BY <3>1, <3>2
  <2>2. \A m \in DOMAIN h \ {n, p} : h[m].win # h[n].win
    BY DEF Tree, Unique
  <2>3. {h[m].win : m \in DOMAIN h} = {h[m].win : m \in DOMAIN h \ {n, p}} \union {h[n].win, Root}
    BY <1>4, <1>5
  <2> QED
    BY <2>1, <2>2, <2>3 DEF Held
<1>20. LeafsKeep(h, g)
  BY <1>5, <1>13 DEF LeafsKeep
<1> QED
  BY <1>5, <1>11, <1>15, <1>16, <1>17, <1>18, <1>19, <1>20 DEF Tree

(* The children of nodes may be swapped, and what is in the leafs.         *)
LEMMA RelabelKeepsShape ==
    ASSUME NEW h \in Heaps, NEW t, Shape(h, t), NEW g, DOMAIN g = DOMAIN h,
           \A n \in DOMAIN h : /\ g[n].parent = h[n].parent
                               /\ \/ g[n].left = h[n].left /\ g[n].right = h[n].right
                                  \/ g[n].left = h[n].right /\ g[n].right = h[n].left
                               /\ h[n].win = Root => g[n].win = Root
                               /\ h[n].win # Root => g[n].win \in Window
    PROVE  Shape(g, t)
<1>1. Null \notin DOMAIN h
  BY HeapTypes
<1>2. t = Null => DOMAIN g = {}
  BY DEF Shape
<1>3. t # Null => t \in DOMAIN g /\ g[t].parent = Null
  BY DEF Shape
<1>4. ASSUME NEW n \in DOMAIN g \ {t}
      PROVE  /\ g[n].parent \in DOMAIN g
             /\ n \in {g[g[n].parent].left, g[g[n].parent].right}
  <2>1. h[n].parent \in DOMAIN h /\ n \in {h[h[n].parent].left, h[h[n].parent].right}
    BY DEF Shape
  <2>2. {g[h[n].parent].left, g[h[n].parent].right} = {h[h[n].parent].left, h[h[n].parent].right}
    BY <2>1
  <2> QED
    BY <2>1, <2>2
<1>5. ASSUME NEW n \in DOMAIN g
      PROVE  \/ /\ g[n].win = Root
                /\ g[n].left \in DOMAIN g /\ g[n].right \in DOMAIN g
                /\ g[n].left # g[n].right
                /\ g[g[n].left].parent = n
                /\ g[g[n].right].parent = n
             \/ /\ g[n].win \in Window
                /\ g[n].left = Null
                /\ g[n].right = Null
  <2>1. \/ /\ h[n].win = Root
           /\ h[n].left \in DOMAIN h /\ h[n].right \in DOMAIN h
           /\ h[n].left # h[n].right
           /\ h[h[n].left].parent = n
           /\ h[h[n].right].parent = n
        \/ /\ h[n].win \in Window
           /\ h[n].left = Null
           /\ h[n].right = Null
    BY DEF Shape
  <2>2. \/ g[n].left = h[n].left /\ g[n].right = h[n].right
        \/ g[n].left = h[n].right /\ g[n].right = h[n].left
    OBVIOUS
  <2>3. \A m \in DOMAIN h : g[m].parent = h[m].parent
    OBVIOUS
  <2> QED
    BY <2>1, <2>2, <2>3, BspAssumption
<1>6. \E rank \in [DOMAIN g -> Nat] : \A n \in DOMAIN g \ {t} : rank[g[n].parent] < rank[n]
  <2>1. PICK rank \in [DOMAIN h -> Nat] : \A n \in DOMAIN h \ {t} : rank[h[n].parent] < rank[n]
    BY DEF Shape
  <2> QED
    BY <2>1
<1> QED
  BY <1>2, <1>3, <1>4, <1>5, <1>6 DEF Shape

----
(* The operations of BspTree on a virtual space without a layout.          *)
Space == [tree : Pointer, layout : {{}}, heap : Heaps,
          preselect : [node : Pointer, left : BOOLEAN, stale : BOOLEAN],
          crash : {"no", "WindowNode", "FocusedNode", "freed"}]

(* The preselected node still holds a window, unless it was freed.         *)
Chosen(v) ==
    v.preselect # NoPreselect /\ ~v.preselect.stale
        => v.preselect.node \in DOMAIN v.heap /\ v.heap[v.preselect.node].win # Root

Sound(v) == v \in Space /\ Tree(v.heap, v.tree) /\ Chosen(v)

(* The facts about a sound space that the proofs below use.                *)
LEMMA SoundTree ==
    ASSUME NEW v, Sound(v)
    PROVE  /\ v \in Space /\ v.heap \in Heaps /\ Tree(v.heap, v.tree) /\ Shape(v.heap, v.tree)
           /\ DOMAIN v.heap \subseteq Node /\ Null \notin DOMAIN v.heap
           /\ \A n \in DOMAIN v.heap : v.heap[n] \in Record4
           /\ v.tree # Null <=> v.tree \in DOMAIN v.heap
           /\ v.tree = Null => DOMAIN v.heap = {}
<1>1. v \in Space /\ v.heap \in Heaps /\ Tree(v.heap, v.tree) /\ Shape(v.heap, v.tree)
  BY DEF Sound, Tree
<1> QED
  BY <1>1, HeapTypes DEF Shape

(* u is v with other zooms, or other nodes in the same places.             *)
Alike(v, u) == Sound(u) /\ Held(u.heap) = Held(v.heap) /\ u.tree = v.tree /\ u.crash = v.crash

(* Node m zooms z.                                                         *)
SetZoom(v, m, z) == [v EXCEPT !.heap[m].zoom = z]

(* A zoom that obeys Zooms may be set, the rest of the tree is not         *)
(* touched.                                                                *)
LEMMA ZoomKeepsSound ==
    ASSUME NEW v, Sound(v), NEW m \in DOMAIN v.heap, NEW z \in Pointer,
           NEW u, u = SetZoom(v, m, z), Zooms(u.heap, u.tree)
    PROVE  Alike(v, u) /\ DOMAIN u.heap = DOMAIN v.heap
<1> DEFINE h == v.heap
           g == u.heap
<1>1. /\ v \in Space /\ h \in Heaps /\ Tree(h, v.tree) /\ Shape(h, v.tree)
      /\ DOMAIN h \subseteq Node /\ \A n \in DOMAIN h : h[n] \in Record4
  BY SoundTree
<1>2. /\ u = [v EXCEPT !.heap = g] /\ g = [h EXCEPT ![m].zoom = z]
      /\ u.tree = v.tree /\ u.crash = v.crash /\ u.preselect = v.preselect
  BY <1>1 DEF Space, SetZoom
<1>3. /\ DOMAIN g = DOMAIN h
      /\ \A n \in DOMAIN h : g[n] = IF n = m THEN [h[m] EXCEPT !.zoom = z] ELSE h[n]
  BY <1>2
<1> HIDE DEF g, h
<1>4. \A n \in DOMAIN h : /\ g[n].win = h[n].win /\ g[n].parent = h[n].parent
                          /\ g[n].left = h[n].left /\ g[n].right = h[n].right
                          /\ g[n] \in Record4
  BY <1>1, <1>3 DEF Record4
<1>5. g \in Heaps
  <2>1. g \in [DOMAIN h -> Record4]
    BY <1>2, <1>3, <1>4 DEF h
  <2> QED
    BY <2>1, <1>1, HeapOf
<1>6. Shape(g, v.tree)
  <2>1. \A n \in DOMAIN h : h[n].win # Root => h[n].win \in Window
    BY <1>1 DEF Shape
  <2> QED
    BY <2>1, <1>1, <1>3, <1>4, RelabelKeepsShape
<1>7. Held(g) = Held(h)
  BY <1>3, <1>4 DEF Held
<1>8. Unique(g)
  BY <1>1, <1>3, <1>4 DEF Unique, Tree
<1>9. u \in Space
  BY <1>1, <1>2, <1>5 DEF Space
<1>10. Chosen(u)
  BY <1>2, <1>3, <1>4 DEF Sound, Chosen, g, h
<1> QED
  BY <1>2, <1>3, <1>5, <1>6, <1>7, <1>8, <1>9, <1>10 DEF Alike, Sound, Tree, g, h

(* ResetZoom, of the root.                                                 *)
LEMMA ResetZoomKeepsSound ==
    ASSUME NEW v, Sound(v), v.tree # Null
    PROVE  LET u == ResetZoom(v)
           IN Alike(v, u) /\ DOMAIN u.heap = DOMAIN v.heap
<1> DEFINE u == ResetZoom(v)
<1>1. /\ v \in Space /\ v.tree \in DOMAIN v.heap /\ Null \notin DOMAIN v.heap
      /\ v.heap[v.tree] \in Record4
  BY SoundTree
<1>2. u = [v EXCEPT !.heap[v.tree].zoom = Null] /\ Null \in Pointer
  BY DEF ResetZoom, Pointer
<1>3. u.tree = v.tree /\ DOMAIN u.heap = DOMAIN v.heap /\ u.heap[v.tree].zoom = Null
  BY <1>1, <1>2 DEF Space, Record4
<1>4. \A n \in DOMAIN v.heap \ {v.tree} : u.heap[n] = v.heap[n]
  BY <1>1, <1>2 DEF Space
<1>5. Zooms(u.heap, u.tree)
  BY <1>1, <1>3, <1>4 DEF Zooms, Sound, Tree
<1> HIDE DEF u
<1>6. Alike(v, u) /\ DOMAIN u.heap = DOMAIN v.heap
  <2>1. u = SetZoom(v, v.tree, Null)
    BY <1>2 DEF SetZoom
  <2>2. Null \in Pointer
    BY DEF Pointer
  <2> QED
    BY <1>1, <1>5, <2>1, <2>2, ZoomKeepsSound
<1> QED
  BY <1>6 DEF u

(* Two nodes are free.                                                     *)
Spare(v) == \E a, b \in Node \ DOMAIN v.heap : a # b

(* malloc of a node, when one is free.                                     *)
LEMMA FreshOne ==
    ASSUME NEW v, Node \ DOMAIN v.heap # {}
    PROVE  Fresh(v, 1)[1] \in Node \ DOMAIN v.heap
<1>1. PICK a \in Node \ DOMAIN v.heap : TRUE
  OBVIOUS
<1>2. \E new \in [1..1 -> Node \ DOMAIN v.heap] : IsInjective(new)
  <2> DEFINE new == [i \in 1..1 |-> a]
  <2>1. new \in [1..1 -> Node \ DOMAIN v.heap] /\ IsInjective(new)
    BY DEF IsInjective
  <2> QED
    BY <2>1
<1>3. Fresh(v, 1) \in [1..1 -> Node \ DOMAIN v.heap]
  BY <1>2 DEF Fresh
<1> QED
  BY <1>3

(* malloc of two nodes, when two are free, gives two different ones.       *)
LEMMA FreshTwo ==
    ASSUME NEW v, Spare(v)
    PROVE  /\ Fresh(v, 2)[1] \in Node \ DOMAIN v.heap
           /\ Fresh(v, 2)[2] \in Node \ DOMAIN v.heap
           /\ Fresh(v, 2)[1] # Fresh(v, 2)[2]
<1>1. PICK a, b \in Node \ DOMAIN v.heap : a # b
  BY DEF Spare
<1>2. \E new \in [1..2 -> Node \ DOMAIN v.heap] : IsInjective(new)
  <2> DEFINE new == [i \in 1..2 |-> IF i = 1 THEN a ELSE b]
  <2>1. new \in [1..2 -> Node \ DOMAIN v.heap]
    OBVIOUS
  <2>2. IsInjective(new)
    BY <1>1 DEF IsInjective
  <2> QED
    BY <2>1, <2>2
<1>3. Fresh(v, 2) \in [1..2 -> Node \ DOMAIN v.heap] /\ IsInjective(Fresh(v, 2))
  BY <1>2 DEF Fresh
<1> QED
  BY <1>3 DEF IsInjective

(* By how many are in use: one or two nodes are free.                      *)
LEMMA SpareNodes ==
    ASSUME NEW v, DOMAIN v.heap \subseteq Node
    PROVE  /\ IsFiniteSet(DOMAIN v.heap) /\ Cardinality(DOMAIN v.heap) \in Nat
           /\ Cardinality(DOMAIN v.heap) + 1 <= MaxNode => Node \ DOMAIN v.heap # {}
           /\ Cardinality(DOMAIN v.heap) + 2 <= MaxNode => Spare(v)
<1> DEFINE D == DOMAIN v.heap
           F == Node \ D
<1>1. MaxNode \in Nat /\ IsFiniteSet(Node) /\ Cardinality(Node) = MaxNode
  BY BspAssumption, FS_Interval DEF Node
<1>2. IsFiniteSet(D) /\ Cardinality(D) \in Nat
  BY <1>1, FS_Subset, FS_CardinalityType
<1>3. IsFiniteSet(F) /\ Cardinality(F) = MaxNode - Cardinality(D)
  <2>1. Node \cap D = D
    OBVIOUS
  <2> QED
    BY <1>1, <2>1, FS_Difference
<1>4. Cardinality(D) + 1 <= MaxNode => F # {}
  BY <1>1, <1>2, <1>3, FS_EmptySet
<1>5. ASSUME Cardinality(D) + 2 <= MaxNode
      PROVE  \E a, b \in F : a # b
  <2>1. PICK a \in F : TRUE
    BY <1>1, <1>2, <1>4, <1>5
  <2>2. IsFiniteSet(F \ {a}) /\ Cardinality(F \ {a}) = Cardinality(F) - 1
    BY <1>3, FS_RemoveElement
  <2>3. F \ {a} # {}
    BY <1>1, <1>2, <1>3, <1>5, <2>2, FS_EmptySet
  <2> QED
    BY <2>1, <2>3
<1> QED
  BY <1>2, <1>4, <1>5 DEF Spare

(* The first window of a space: the root is its leaf.                      *)
LEMMA CreateRootIsSound ==
    ASSUME NEW v, Sound(v), v.tree = Null, NEW w \in Window, Node \ DOMAIN v.heap # {},
           NEW u, u = CreateRoot(v, w)
    PROVE  /\ Sound(u) /\ u.tree # Null /\ Held(u.heap) = {w} /\ Held(v.heap) = {}
           /\ Cardinality(DOMAIN v.heap) = 0 /\ Cardinality(DOMAIN u.heap) = 1
           /\ u.crash = v.crash /\ u.preselect = v.preselect
<1> DEFINE n == Fresh(v, 1)[1]
<1>1. n \in Node /\ n # Null
  BY FreshOne DEF Node, Null
<1>2. v \in Space /\ DOMAIN v.heap = {}
  BY SoundTree
<1> HIDE DEF n
<1>3. u = [v EXCEPT !.tree = n, !.heap = With(v.heap, n, Record(w, Null))]
  BY DEF CreateRoot, n
<1>4. /\ u.heap = With(v.heap, n, Record(w, Null)) /\ u.tree = n
      /\ u.crash = v.crash /\ u.preselect = v.preselect /\ u.layout = v.layout
  BY <1>2, <1>3 DEF Space
<1>5. u.heap = [m \in {n} |-> Record(w, Null)]
  BY <1>2, <1>4 DEF With
<1>6. /\ DOMAIN u.heap = {n}
      /\ u.heap[n] = [win |-> w, parent |-> Null, left |-> Null, right |-> Null, zoom |-> Null]
  BY <1>5 DEF Record
<1>7. u.heap \in Heaps
  <2>1. u.heap[n] \in Record4
    BY <1>6 DEF Record4, Pointer
  <2>2. u.heap \in [{n} -> Record4] /\ {n} \subseteq Node
    BY <1>1, <1>5, <1>6, <2>1
  <2> QED
    BY <2>2, HeapOf
<1>8. Shape(u.heap, u.tree)
  <2>1. \E rank \in [DOMAIN u.heap -> Nat] :
            \A m \in DOMAIN u.heap \ {u.tree} : rank[u.heap[m].parent] < rank[m]
    <3>1. [m \in DOMAIN u.heap |-> 0] \in [DOMAIN u.heap -> Nat]
      OBVIOUS
    <3> QED
      BY <3>1, <1>4, <1>6
  <2> QED
    BY <2>1, <1>1, <1>4, <1>6 DEF Shape
<1>9. Unique(u.heap) /\ Zooms(u.heap, u.tree)
  BY <1>4, <1>6 DEF Unique, Zooms
<1>10. Held(u.heap) = {w} /\ Held(v.heap) = {}
  BY <1>2, <1>6, BspAssumption DEF Held
<1>11. u \in Space
  BY <1>1, <1>2, <1>3, <1>4, <1>7 DEF Space, Pointer
<1>12. Chosen(u)
  BY <1>2, <1>4 DEF Sound, Chosen
<1>13. Cardinality(DOMAIN v.heap) = 0 /\ Cardinality(DOMAIN u.heap) = 1
  BY <1>2, <1>6, FS_EmptySet, FS_Singleton
<1>14. Sound(u)
  BY <1>7, <1>8, <1>9, <1>11, <1>12 DEF Sound, Tree
<1> QED
  BY <1>1, <1>4, <1>10, <1>13, <1>14

Added(v, u, w) == Held(u.heap) = Held(v.heap) \union {w}

(* Split at a leaf p.                                                      *)
LEMMA PairKeepsTree ==
    ASSUME NEW v, Sound(v), NEW p \in DOMAIN v.heap, v.heap[p].win # Root, Spare(v),
           NEW w \in Window, w \notin Held(v.heap), NEW left \in BOOLEAN,
           NEW u, u = CreateLeafNodePair(v, p, w, left)
    PROVE  /\ u \in Space /\ Tree(u.heap, u.tree) /\ Added(v, u, w)
           /\ Cardinality(DOMAIN u.heap) = Cardinality(DOMAIN v.heap) + 2
           /\ u.tree = v.tree /\ u.tree # Null /\ u.crash = v.crash /\ u.preselect = v.preselect
<1> DEFINE h == v.heap
           a == Fresh(v, 2)[1]
           b == Fresh(v, 2)[2]
           x == LeftId(h[p].win, w, left)
           y == RightId(h[p].win, w, left)
           g == Split(h, p, a, x, b, y)
           e == [h EXCEPT ![p] = [@ EXCEPT !.win = Root, !.left = a, !.right = b]]
           k == With(With(e, a, Record(x, p)), b, Record(y, p))
<1>1. a \in Node \ DOMAIN h /\ b \in Node \ DOMAIN h /\ a # b
  BY FreshTwo
<1>2. /\ v \in Space /\ Tree(h, v.tree) /\ v.tree # Null /\ DOMAIN h \subseteq Node
      /\ h \in Heaps
  BY SoundTree
<1>3. <<x, y>> \in {<<h[p].win, w>>, <<w, h[p].win>>}
  BY DEF LeftId, RightId
<1>4. u = [v EXCEPT !.heap = k]
  BY DEF CreateLeafNodePair
<1> HIDE DEF a, b, x, y, h
<1>5. /\ DOMAIN e = DOMAIN h
      /\ e[p] = [h[p] EXCEPT !.win = Root, !.left = a, !.right = b]
      /\ \A n \in DOMAIN h \ {p} : e[n] = h[n]
  BY DEF h
<1> HIDE DEF e
<1>6. k = g
  <2>1. k = [n \in DOMAIN h \union {a, b} |-> k[n]]
    BY <1>5 DEF With
  <2>2. \A n \in DOMAIN h \union {a, b} : k[n] = g[n]
    <3> TAKE n \in DOMAIN h \union {a, b}
    <3>1. k[n] = IF n = b THEN Record(y, p) ELSE IF n = a THEN Record(x, p) ELSE e[n]
      BY <1>5 DEF With
    <3>2. g[n] = CASE n = a -> Record(x, p)
                   [] n = b -> Record(y, p)
                   [] n = p -> [h[p] EXCEPT !.win = Root, !.left = a, !.right = b]
                   [] OTHER -> h[n]
      BY DEF Split
    <3>3. a # p /\ b # p
      BY <1>1 DEF h
    <3>4. n \in DOMAIN h \/ n = a \/ n = b
      OBVIOUS
    <3> HIDE DEF k, g
    <3> QED
      BY <3>1, <3>2, <3>3, <3>4, <1>1, <1>5
  <2>3. g = [n \in DOMAIN h \union {a, b} |-> g[n]]
    BY DEF Split
  <2> HIDE DEF k, g
  <2> QED
    BY <2>1, <2>2, <2>3
<1> HIDE DEF k, g
<1>7. Tree(g, v.tree) /\ Held(g) = Held(h) \union {w}
  BY <1>1, <1>2, <1>3, SplitKeepsTree DEF g, h
<1>8. /\ u.heap = g /\ u.tree = v.tree /\ u.crash = v.crash /\ u.preselect = v.preselect
  BY <1>2, <1>4, <1>6 DEF Space
<1>9. u \in Space
  BY <1>2, <1>4, <1>6, <1>7 DEF Space, Tree
<1>10. Cardinality(DOMAIN g) = Cardinality(DOMAIN h) + 2
  <2>1. IsFiniteSet(DOMAIN h) /\ Cardinality(DOMAIN h) \in Nat
    BY <1>2, SpareNodes DEF h
  <2>2. /\ IsFiniteSet(DOMAIN h \union {a})
        /\ Cardinality(DOMAIN h \union {a}) = Cardinality(DOMAIN h) + 1
    BY <1>1, <2>1, FS_AddElement
  <2>3. Cardinality((DOMAIN h \union {a}) \union {b}) = Cardinality(DOMAIN h \union {a}) + 1
    BY <1>1, <2>2, FS_AddElement
  <2>4. DOMAIN g = (DOMAIN h \union {a}) \union {b}
    BY DEF g, Split
  <2> QED
    BY <2>1, <2>2, <2>3, <2>4
<1> QED
  BY <1>2, <1>7, <1>8, <1>9, <1>10 DEF h, Added

(* The node of a window is taken out, with its sibling in the place of     *)
(* their parent.                                                           *)
LEMMA ReplaceParentIsSound ==
    ASSUME NEW v, Sound(v), NEW n \in DOMAIN v.heap, v.heap[n].win # Root,
           v.heap[n].parent # Null, NEW u, u = ReplaceParent(v, n)
    PROVE  /\ Sound(u) /\ Held(u.heap) = Held(v.heap) \ {v.heap[n].win} /\ Spare(u)
           /\ u.tree = v.tree /\ u.tree # Null /\ u.crash = v.crash
<1> DEFINE h == v.heap
           t == v.tree
           p == h[n].parent
           r == Sibling(v, n)
           g == [m \in DOMAIN h \ {n, r} |-> TakeOver(v, p, r, Null)[m]]
<1>1. /\ v \in Space /\ h \in Heaps /\ Tree(h, t) /\ Shape(h, t) /\ DOMAIN h \subseteq Node
      /\ Null \notin DOMAIN h /\ t \in DOMAIN h /\ t # Null /\ n # t
  BY SoundTree DEF Shape
<1>2. p \in DOMAIN h /\ n \in {h[p].left, h[p].right} /\ h[p].win = Root
  BY <1>1 DEF Shape
<1>3. r = IF h[p].right = n THEN h[p].left ELSE h[p].right
  BY DEF Sibling
<1>4. r \in DOMAIN h
  BY <1>1, <1>2, <1>3, BspAssumption DEF Shape
<1> HIDE DEF r, p
<1>5. \A m \in DOMAIN h : m \in ToSet(Children(v, r)) <=> m \in {h[r].left, h[r].right}
  <2>1. CASE h[r].win = Root
    <3>1. Children(v, r) = <<h[r].left, h[r].right>>
      BY <2>1, <1>1, <1>4, ChildrenOf
    <3>2. ToSet(Children(v, r)) = {h[r].left, h[r].right}
      BY <3>1 DEF ToSet
    <3> QED
      BY <3>2
  <2>2. CASE h[r].win # Root
    <3>1. Children(v, r) = <<>> /\ h[r].left = Null /\ h[r].right = Null
      BY <2>2, <1>1, <1>4, ChildrenOf DEF Shape
    <3>2. ToSet(Children(v, r)) = {}
      BY <3>1 DEF ToSet
    <3> QED
      BY <3>1, <3>2, <1>1
  <2> QED
    BY <2>1, <2>2
<1>6. Merged(h, g, n, p, r)
  <2> DEFINE e(m) == CASE m = p -> [h[r] EXCEPT !.parent = h[p].parent, !.zoom = Null]
                       [] m # p /\ m \in {h[r].left, h[r].right} -> [h[m] EXCEPT !.parent = p]
                       [] OTHER -> h[m]
  <2>1. ASSUME NEW m \in DOMAIN h
        PROVE  TakeOver(v, p, r, Null)[m] = e(m)
    <3>1. CASE m = p
      <4>1. p \notin {h[r].left, h[r].right} \/ m = p
        BY <3>1
      <4>2. TakeOver(v, p, r, Null)[p] = [h[r] EXCEPT !.parent = h[p].parent, !.zoom = Null]
        <5>1. p \notin ToSet(Children(v, r))
          <6>1. PICK rank \in [DOMAIN h -> Nat] :
                        \A i \in DOMAIN h \ {t} : rank[h[i].parent] < rank[i]
            BY <1>1 DEF Shape
          <6>2. r # t /\ h[r].parent = p
            BY <1>1, <1>2, <1>3, <1>4, BspAssumption DEF Shape
          <6>3. p \in {h[r].left, h[r].right} => p # t /\ h[p].parent = r
            BY <1>1, <1>2, <1>4, BspAssumption DEF Shape
          <6>4. rank[p] < rank[r] /\ rank[p] \in Nat /\ rank[r] \in Nat
            BY <6>1, <6>2, <1>2, <1>4
          <6>5. p \notin {h[r].left, h[r].right}
            BY <6>1, <6>3, <6>4, <1>2
          <6> QED
            BY <6>5, <1>2, <1>5
        <5> QED
          BY <5>1, <1>2 DEF TakeOver
      <4> QED
        BY <4>2, <3>1
    <3>2. CASE m # p /\ m \in {h[r].left, h[r].right}
      BY <3>2, <1>5 DEF TakeOver
    <3>3. CASE m # p /\ m \notin {h[r].left, h[r].right}
      BY <3>3, <1>5 DEF TakeOver
    <3> QED
      BY <3>1, <3>2, <3>3
  <2>2. g = [m \in DOMAIN h \ {n, r} |-> e(m)]
    <3> HIDE DEF e, h
    <3> QED
      BY <2>1
  <2> HIDE DEF g
  <2> QED
    BY <2>2, <1>3 DEF Merged, p
<1> HIDE DEF g
<1>7. /\ Tree(g, t) /\ Held(g) = Held(h) \ {h[n].win}
      /\ DOMAIN g = DOMAIN h \ {n, r} /\ r \in DOMAIN h /\ n # r
      /\ LeafsKeep(h, g)
  <2>1. n \in DOMAIN h /\ h[n].win # Root /\ n # t /\ Tree(h, t)
    BY <1>1
  <2> HIDE DEF h, t
  <2> QED
    BY <2>1, <1>6, MergeKeepsTree
<1>8. u = Free([v EXCEPT !.heap = TakeOver(v, p, r, Null)], {n, r})
  BY DEF ReplaceParent, p, r
<1>9. /\ u.heap = g /\ u.tree = t /\ u.crash = v.crash /\ u.layout = v.layout
      /\ u.preselect = [v.preselect EXCEPT !.stale = @ \/ v.preselect.node \in {n, r}]
      /\ u = [v EXCEPT !.heap = g, !.preselect = u.preselect]
  <2>1. DOMAIN TakeOver(v, p, r, Null) = DOMAIN h
    BY DEF TakeOver
  <2> DEFINE k == TakeOver(v, p, r, Null)
             f == [v EXCEPT !.heap = k]
  <2>2. f.heap = k /\ f.tree = t /\ f.crash = v.crash /\ f.layout = v.layout /\ f.preselect = v.preselect
    BY <1>1 DEF Space
  <2>3. u = [f EXCEPT !.heap = [m \in DOMAIN f.heap \ {n, r} |-> f.heap[m]],
                      !.preselect.stale = @ \/ f.preselect.node \in {n, r}]
    BY <1>8 DEF Free
  <2>4. [m \in DOMAIN f.heap \ {n, r} |-> f.heap[m]] = g
    BY <2>1, <2>2 DEF g
  <2> HIDE DEF k
  <2> QED
    BY <2>2, <2>3, <2>4, <1>1 DEF Space
<1>10. u \in Space
  <2>1. u.preselect \in [node : Pointer, left : BOOLEAN, stale : BOOLEAN]
    BY <1>1, <1>9 DEF Space
  <2> QED
    BY <2>1, <1>1, <1>7, <1>9 DEF Space, Tree
<1>11. Chosen(u)
  <2> SUFFICES ASSUME u.preselect # NoPreselect, ~u.preselect.stale
               PROVE  u.preselect.node \in DOMAIN g /\ g[u.preselect.node].win # Root
    BY <1>9 DEF Chosen
  <2>1. v.preselect.node \notin {n, r} /\ ~v.preselect.stale /\ u.preselect = v.preselect
    <3>1. v.preselect \in [node : Pointer, left : BOOLEAN, stale : BOOLEAN]
      BY <1>1 DEF Space
    <3>2. u.preselect.stale = (v.preselect.stale \/ v.preselect.node \in {n, r})
      BY <3>1, <1>9
    <3>3. v.preselect.node \notin {n, r} /\ ~v.preselect.stale
      BY <3>2
    <3>4. v.preselect.stale = FALSE /\ (v.preselect.stale \/ v.preselect.node \in {n, r}) = FALSE
      BY <3>1, <3>3
    <3> QED
      BY <3>1, <3>3, <3>4, <1>9
  <2>2. v.preselect.node \in DOMAIN h /\ h[v.preselect.node].win # Root
    BY <2>1 DEF Sound, Chosen
  <2> QED
    BY <2>1, <2>2, <1>7 DEF LeafsKeep
<1>12. Spare(u)
  BY <1>1, <1>7, <1>9 DEF Spare
<1> QED
  BY <1>1, <1>7, <1>9, <1>10, <1>11, <1>12 DEF Sound

(* When the root is a leaf there is no other node: the one of least rank   *)
(* would be a child of the root.                                           *)
LEMMA LeafAtRoot ==
    ASSUME NEW h \in Heaps, NEW t \in DOMAIN h, Shape(h, t), h[t].win # Root
    PROVE  DOMAIN h = {t}
<1> DEFINE below == DOMAIN h \ {t}
<1>1. PICK rank \in [DOMAIN h -> Nat] : \A n \in below : rank[h[n].parent] < rank[n]
  BY DEF Shape
<1> DEFINE T == {rank[n] : n \in below}
<1> SUFFICES ASSUME below # {}
             PROVE  FALSE
  OBVIOUS
<1>2. T \subseteq Nat /\ T # {}
  BY <1>1
<1>3. PICK k \in T : \A m \in T : k <= m
  <2> HIDE DEF T
  <2> QED
    BY <1>2, Least
<1>4. PICK n \in below : k = rank[n]
  OBVIOUS
<1> DEFINE p == h[n].parent
<1>5. p \in DOMAIN h /\ n \in {h[p].left, h[p].right} /\ rank[p] < rank[n]
  BY <1>1, <1>4 DEF Shape
<1>6. rank[p] \in Nat /\ rank[n] \in Nat
  BY <1>1, <1>4, <1>5
<1>7. p \in below => rank[n] <= rank[p]
  BY <1>3, <1>4
<1>8. p = t
  <2> HIDE DEF p
  <2> QED
    BY <1>5, <1>6, <1>7
<1>9. h[t].left = Null /\ h[t].right = Null
  BY DEF Shape
<1>10. n # Null
  BY <1>4, HeapTypes
<1> QED
  BY <1>5, <1>8, <1>9, <1>10

(* The node of a window, and the windows in the tree.                      *)
LEMMA NodeOfWindow ==
    ASSUME NEW v, Sound(v), NEW w, NEW n, n = GetNodeWithId(v, w)
    PROVE  /\ n # Null => n \in DOMAIN v.heap /\ v.heap[n].win = w /\ w # Root
           /\ w \in Held(v.heap) <=> n # Null
<1>1. v.heap \in Heaps /\ Shape(v.heap, v.tree) /\ Null \notin DOMAIN v.heap
  BY SoundTree
<1>2. Leaves(v) = {m \in DOMAIN v.heap : v.heap[m].win # Root}
  BY <1>1, NodesOfTree
<1> DEFINE found == {m \in Leaves(v) : v.heap[m].win = w}
<1>3. n = IF found = {} THEN Null ELSE CHOOSE m \in found : TRUE
  BY DEF GetNodeWithId
<1>4. found # {} => n \in found
  BY <1>3
<1>5. w \in Held(v.heap) <=> found # {}
  BY <1>2 DEF Held
<1> QED
  BY <1>1, <1>2, <1>3, <1>4, <1>5

(* The windows that the code finds in the tree are those that its nodes    *)
(* hold.                                                                   *)
LEMMA HeldWindows ==
    ASSUME NEW v, Sound(v)
    PROVE  WindowsInTree(v) = Held(v.heap) /\ Held(v.heap) \subseteq Window
<1>1. v.heap \in Heaps /\ Shape(v.heap, v.tree)
  BY SoundTree
<1>2. Leaves(v) = {m \in DOMAIN v.heap : v.heap[m].win # Root}
  BY <1>1, NodesOfTree
<1>3. WindowsInTree(v) = Held(v.heap)
  BY <1>2 DEF WindowsInTree, Held
<1>4. Held(v.heap) \subseteq Window
  BY <1>1 DEF Held, Shape
<1> QED
  BY <1>3, <1>4

(* When all the nodes are freed.                                           *)
LEMMA FreeAllIsSound ==
    ASSUME NEW v, Sound(v), NEW S, S = DOMAIN v.heap,
           NEW u, u = [Free(v, S) EXCEPT !.tree = Null]
    PROVE  Sound(u) /\ u.tree = Null /\ DOMAIN u.heap = {} /\ u.crash = v.crash
<1>1. v \in Space
  BY DEF Sound
<1>2. /\ u.heap = [n \in {} |-> v.heap[n]] /\ u.tree = Null /\ u.crash = v.crash
      /\ u.preselect = [v.preselect EXCEPT !.stale = @ \/ v.preselect.node \in S]
      /\ u = [v EXCEPT !.heap = u.heap, !.preselect = u.preselect, !.tree = Null]
  <2>1. [n \in DOMAIN v.heap \ S |-> v.heap[n]] = [n \in {} |-> v.heap[n]]
    OBVIOUS
  <2> QED
    BY <1>1, <2>1 DEF Space, Free
<1>3. DOMAIN u.heap = {}
  BY <1>2
<1>4. u.heap \in Heaps
  <2>1. u.heap \in [{} -> Record4]
    BY <1>2
  <2> QED
    BY <2>1, HeapOf
<1>5. Tree(u.heap, u.tree)
  <2>1. Shape(u.heap, u.tree)
    <3>1. \E rank \in [{} -> Nat] : TRUE
      <4>1. [n \in {} |-> 0] \in [{} -> Nat]
        OBVIOUS
      <4> QED
        BY <4>1
    <3> QED
      BY <3>1, <1>2, <1>3 DEF Shape
  <2>2. Unique(u.heap) /\ Zooms(u.heap, u.tree)
    BY <1>3 DEF Unique, Zooms
  <2> QED
    BY <2>1, <2>2, <1>4 DEF Tree
<1>6. v.preselect \in [node : Pointer, left : BOOLEAN, stale : BOOLEAN]
  BY <1>1 DEF Space
<1>7. u \in Space
  <2>1. u.preselect \in [node : Pointer, left : BOOLEAN, stale : BOOLEAN]
    <3> DEFINE b == v.preselect.stale \/ v.preselect.node \in S
    <3>1. u.preselect = [v.preselect EXCEPT !.stale = b]
      BY <1>2
    <3>2. b \in BOOLEAN
      OBVIOUS
    <3> HIDE DEF b
    <3> QED
      BY <3>1, <3>2, <1>6
  <2> QED
    BY <2>1, <1>1, <1>2, <1>4 DEF Space, Pointer
<1>8. Chosen(u)
  <2> SUFFICES ASSUME u.preselect # NoPreselect, ~u.preselect.stale
               PROVE  FALSE
    BY DEF Chosen
  <2>1. u.preselect.stale = (v.preselect.stale \/ v.preselect.node \in S)
    BY <1>2, <1>6
  <2>2. v.preselect.node \notin S /\ ~v.preselect.stale
    BY <2>1
  <2>3. v.preselect.stale = FALSE /\ (v.preselect.stale \/ v.preselect.node \in S) = FALSE
    BY <2>2, <1>6
  <2>4. u.preselect = v.preselect
    BY <2>3, <1>2, <1>6
  <2> QED
    BY <2>2, <2>4 DEF Sound, Chosen
<1> QED
  BY <1>2, <1>3, <1>5, <1>7, <1>8 DEF Sound

(* There are nodes for one more window.                                    *)
Ready(v) == /\ v.tree = Null => Node \ DOMAIN v.heap # {}
            /\ v.tree # Null => Spare(v)

(* UntileWindowFromSpace takes out the window and no other.                *)
LEMMA UntileIsSound ==
    ASSUME NEW v, Sound(v), NEW w, NEW u, u = UntileWindowFromSpace(v, w)
    PROVE  /\ Sound(u) /\ Held(u.heap) = Held(v.heap) \ {w} /\ u.crash = v.crash
           /\ w \in Held(v.heap) => Ready(u)
<1> DEFINE n == GetNodeWithId(v, w)
           z == IF v.heap[v.tree].zoom = n THEN ResetZoom(v) ELSE v
<1>1. /\ n # Null => n \in DOMAIN v.heap /\ v.heap[n].win = w /\ w # Root
      /\ w \in Held(v.heap) <=> n # Null
  BY NodeOfWindow
<1>2. u = CASE n = Null -> v
            [] n # Null /\ v.heap[n].parent # Null -> ReplaceParent(z, n)
            [] OTHER -> [Free(v, {n}) EXCEPT !.tree = Null]
  BY DEF UntileWindowFromSpace
<1> HIDE DEF n
<1>3. CASE n = Null
  <2>1. u = v
    BY <1>2, <1>3
  <2> QED
    BY <2>1, <1>1, <1>3
<1>4. CASE n # Null /\ v.heap[n].parent # Null
  <2>1. /\ Sound(z) /\ Held(z.heap) = Held(v.heap) /\ DOMAIN z.heap = DOMAIN v.heap
        /\ z.tree = v.tree /\ z.crash = v.crash
        /\ \A m \in DOMAIN v.heap : z.heap[m].win = v.heap[m].win /\ z.heap[m].parent = v.heap[m].parent
    <3>1. v.tree # Null /\ v.tree \in DOMAIN v.heap /\ v \in Space
          /\ \A m \in DOMAIN v.heap : v.heap[m] \in Record4
      BY <1>1, <1>4, SoundTree
    <3>2. \A m \in DOMAIN v.heap : /\ ResetZoom(v).heap[m].win = v.heap[m].win
                                   /\ ResetZoom(v).heap[m].parent = v.heap[m].parent
      BY <3>1 DEF ResetZoom, Space, Record4
    <3>3. LET x == ResetZoom(v)
          IN /\ Sound(x) /\ Held(x.heap) = Held(v.heap) /\ DOMAIN x.heap = DOMAIN v.heap
             /\ x.tree = v.tree /\ x.crash = v.crash
      BY <3>1, ResetZoomKeepsSound DEF Alike
    <3> QED
      BY <3>2, <3>3
  <2>2. u = ReplaceParent(z, n)
    BY <1>2, <1>4
  <2> HIDE DEF z
  <2>3. n \in DOMAIN z.heap /\ z.heap[n].win = w /\ w # Root /\ z.heap[n].parent # Null
    BY <2>1, <1>1, <1>4
  <2>4. /\ Sound(u) /\ Held(u.heap) = Held(z.heap) \ {z.heap[n].win} /\ Spare(u)
        /\ u.tree = z.tree /\ u.tree # Null /\ u.crash = z.crash
    BY <2>1, <2>2, <2>3, ReplaceParentIsSound
  <2> QED
    BY <2>1, <2>3, <2>4 DEF Ready
<1>5. CASE n # Null /\ v.heap[n].parent = Null
  <2>1. v.heap \in Heaps /\ Shape(v.heap, v.tree) /\ Null \notin DOMAIN v.heap
        /\ DOMAIN v.heap \subseteq Node
    BY SoundTree
  <2>2. n = v.tree
    BY <2>1, <1>1, <1>5 DEF Shape
  <2>3. DOMAIN v.heap = {n}
    BY <2>1, <2>2, <1>1, <1>5, LeafAtRoot
  <2>4. u = [Free(v, {n}) EXCEPT !.tree = Null]
    BY <1>2, <1>5
  <2>5. Sound(u) /\ u.tree = Null /\ DOMAIN u.heap = {} /\ u.crash = v.crash
    BY <2>3, <2>4, FreeAllIsSound
  <2>6. Held(v.heap) = {w} /\ Held(u.heap) = {}
    BY <2>3, <2>5, <1>1, <1>5 DEF Held
  <2>7. Ready(u)
    BY <2>1, <2>3, <2>5 DEF Ready
  <2> QED
    BY <2>5, <2>6, <2>7
<1> QED
  BY <1>3, <1>4, <1>5

(* The nodes that one more window takes.                                   *)
Grown(v, u) == Cardinality(DOMAIN u.heap)
                   <= Cardinality(DOMAIN v.heap) + (IF v.tree = Null THEN 1 ELSE 2)

(* No node is preselected, or one that was freed.                          *)
Idle(v) == v.preselect = NoPreselect \/ v.preselect.stale

(* CreateLeafNodePair, with no node preselected.                           *)
LEMMA PairIsSound ==
    ASSUME NEW v, Sound(v), Idle(v), NEW p \in DOMAIN v.heap, v.heap[p].win # Root, Spare(v),
           NEW w \in Window, w \notin Held(v.heap),
           NEW left, left \in BOOLEAN,
           NEW u, u = CreateLeafNodePair(v, p, w, left)
    PROVE  /\ Sound(u) /\ Idle(u) /\ Added(v, u, w) /\ Grown(v, u)
           /\ u.tree = v.tree /\ u.tree # Null /\ u.crash = v.crash
<1>1. /\ u \in Space /\ Tree(u.heap, u.tree) /\ Added(v, u, w)
      /\ Cardinality(DOMAIN u.heap) = Cardinality(DOMAIN v.heap) + 2
      /\ u.tree = v.tree /\ u.tree # Null /\ u.crash = v.crash /\ u.preselect = v.preselect
  <2>1. u \in Space /\ Tree(u.heap, u.tree)
    BY PairKeepsTree
  <2>2. Added(v, u, w)
    BY PairKeepsTree
  <2>3. Cardinality(DOMAIN u.heap) = Cardinality(DOMAIN v.heap) + 2
    BY PairKeepsTree
  <2>4. u.tree = v.tree /\ u.tree # Null
    BY PairKeepsTree
  <2>5. u.crash = v.crash /\ u.preselect = v.preselect
    BY PairKeepsTree
  <2> QED
    BY <2>1, <2>2, <2>3, <2>4, <2>5
<1>2. Idle(u) /\ Sound(u)
  BY <1>1 DEF Idle, Sound, Chosen
<1>3. Grown(v, u)
  <2>1. Cardinality(DOMAIN v.heap) \in Nat
    BY SoundTree, SpareNodes
  <2> QED
    BY <1>1, <2>1 DEF Grown
<1> QED
  BY <1>1, <1>2, <1>3

(* The preselected node is split for the new window, unless it was freed:  *)
(* then the code reads freed memory, and the tree stays.                   *)
LEMMA SplitPreselectedIsSound ==
    ASSUME NEW v, Sound(v), v.tree # Null, v.preselect # NoPreselect, Spare(v),
           NEW w \in Window, w \notin Held(v.heap), NEW u, u = SplitPreselected(v, w)
    PROVE  /\ Sound(u) /\ u.tree = v.tree
           /\ Cardinality(DOMAIN u.heap) <= Cardinality(DOMAIN v.heap) + 2
           /\ u.crash = "no" => v.crash = "no" /\ Added(v, u, w)
<1>1. v \in Space /\ Cardinality(DOMAIN v.heap) \in Nat
  BY SoundTree, SpareNodes
<1>2. CASE v.preselect.stale
  <2>1. u = [v EXCEPT !.crash = "freed"]
    BY <1>2 DEF SplitPreselected
  <2>2. /\ u \in Space /\ u.heap = v.heap /\ u.tree = v.tree /\ u.preselect = v.preselect
        /\ u.crash = "freed"
    BY <2>1, <1>1 DEF Space
  <2>3. Sound(u)
    BY <2>2 DEF Sound, Chosen
  <2> QED
    BY <2>2, <2>3, <1>1
<1>3. CASE ~v.preselect.stale
  <2> DEFINE p == v.preselect.node
             left == v.preselect.left
             x == CreateLeafNodePair(v, p, w, left)
  <2>1. p \in DOMAIN v.heap /\ v.heap[p].win # Root /\ left \in BOOLEAN
    BY <1>1, <1>3 DEF Sound, Chosen, Space
  <2>2. u = [x EXCEPT !.preselect = NoPreselect]
    BY <1>3 DEF SplitPreselected
  <2> HIDE DEF p, left, x
  <2>3. /\ x \in Space /\ Tree(x.heap, x.tree) /\ Added(v, x, w)
        /\ Cardinality(DOMAIN x.heap) = Cardinality(DOMAIN v.heap) + 2
        /\ x.tree = v.tree /\ x.crash = v.crash
    BY <2>1, PairKeepsTree DEF x
  <2>4. NoPreselect \in [node : Pointer, left : BOOLEAN, stale : BOOLEAN]
    BY DEF NoPreselect, Pointer
  <2>5. /\ u \in Space /\ u.heap = x.heap /\ u.tree = x.tree /\ u.preselect = NoPreselect
        /\ u.crash = x.crash
    BY <2>2, <2>3, <2>4 DEF Space
  <2>6. Sound(u)
    BY <2>3, <2>5 DEF Sound, Chosen
  <2> QED
    BY <2>3, <2>5, <2>6, <1>1 DEF Added
<1> QED
  BY <1>2, <1>3

(* TileWindowOnSpace adds the window, unless it is there, and loses none.  *)
LEMMA TileIsSound ==
    ASSUME NEW v, Sound(v), NEW w \in Window, w \in Held(v.heap) \/ Ready(v), NEW point,
           NEW u, u = TileWindowOnSpace(v, w, point)
    PROVE  /\ Sound(u) /\ u.tree # Null /\ Grown(v, u)
           /\ u.crash = "no" => v.crash = "no" /\ Added(v, u, w)
<1> DEFINE at == GetNodeWithId(v, point)
           pseudo == GetFirstMinDepthPseudoLeafNode(v)
           leaf == IF at = Null THEN GetFirstMinDepthLeafNode(v) ELSE at
           tiledNow == Exists(v, w)
<1>1. /\ v \in Space /\ v.heap \in Heaps /\ Shape(v.heap, v.tree)
      /\ DOMAIN v.heap \subseteq Node
      /\ v.tree = Null => DOMAIN v.heap = {}
  BY SoundTree
<1>2. v.layout = {} /\ Cardinality(DOMAIN v.heap) \in Nat
  BY <1>1, SpareNodes DEF Space
<1>3. u = CASE v.tree = Null -> IF v.layout = {} THEN CreateRoot(v, w)
                                ELSE LET x == CreateLayout(v) IN [x EXCEPT !.heap[x.tree].win = w]
            [] v.tree # Null /\ tiledNow -> v
            [] v.tree # Null /\ ~tiledNow /\ v.preselect # NoPreselect ->
                   ResetZoom(SplitPreselected(v, w))
            [] OTHER -> IF pseudo # Null THEN FillPseudoLeaf(v, pseudo, w)
                        ELSE ResetZoom(CreateLeafNodePair(v, leaf, w, SpawnLeft))
  BY DEF TileWindowOnSpace
<1>8. tiledNow <=> w \in Held(v.heap)
  BY HeldWindows DEF Exists
<1>9. tiledNow \in BOOLEAN
  BY DEF Exists
<1> HIDE DEF tiledNow, pseudo, at
<1>4. CASE v.tree = Null
  <2>1. Held(v.heap) = {} /\ u = CreateRoot(v, w)
    <3>1. Held(v.heap) = {}
      BY <1>1, <1>4 DEF Held
    <3>2. u = CreateRoot(v, w)
      BY <1>2, <1>3, <1>4
    <3> QED
      BY <3>1, <3>2
  <2>2. Node \ DOMAIN v.heap # {}
    BY <2>1, <1>4 DEF Ready
  <2>3. /\ Sound(u) /\ u.tree # Null /\ Held(u.heap) = {w}
        /\ Cardinality(DOMAIN v.heap) = 0 /\ Cardinality(DOMAIN u.heap) = 1
        /\ u.crash = v.crash
    BY <2>1, <2>2, <1>4, CreateRootIsSound
  <2> QED
    BY <2>1, <2>3, <1>4 DEF Grown, Added
<1>5. CASE v.tree # Null /\ tiledNow
  <2>1. u = v /\ w \in Held(v.heap)
    BY <1>3, <1>5, <1>8
  <2>2. Grown(v, v)
    BY <1>2 DEF Grown
  <2>3. Held(v.heap) = Held(v.heap) \union {w}
    BY <2>1
  <2> QED
    BY <2>1, <2>2, <2>3, <1>5 DEF Added
<1>6. CASE v.tree # Null /\ ~tiledNow /\ v.preselect # NoPreselect
  <2> DEFINE x == SplitPreselected(v, w)
  <2>1. w \notin Held(v.heap) /\ Spare(v)
    BY <1>8, <1>6 DEF Ready
  <2>2. u = ResetZoom(x)
    BY <1>3, <1>6
  <2> HIDE DEF x
  <2>3. /\ Sound(x) /\ x.tree = v.tree
        /\ Cardinality(DOMAIN x.heap) <= Cardinality(DOMAIN v.heap) + 2
        /\ x.crash = "no" => v.crash = "no" /\ Added(v, x, w)
    BY <2>1, <1>6, SplitPreselectedIsSound DEF x
  <2>4. /\ Sound(u) /\ Held(u.heap) = Held(x.heap) /\ DOMAIN u.heap = DOMAIN x.heap
        /\ u.tree = x.tree /\ u.crash = x.crash
    BY <2>2, <2>3, <1>6, ResetZoomKeepsSound DEF Alike
  <2>5. Grown(v, u)
    BY <2>3, <2>4, <1>6 DEF Grown
  <2> QED
    BY <2>3, <2>4, <2>5, <1>6 DEF Added
<1>7. CASE v.tree # Null /\ ~tiledNow /\ v.preselect = NoPreselect
  <2> DEFINE x == CreateLeafNodePair(v, leaf, w, SpawnLeft)
  <2>1. w \notin Held(v.heap) /\ Spare(v) /\ Idle(v) /\ SpawnLeft \in BOOLEAN
    BY <1>8, <1>7, BspAssumption DEF Ready, Idle
  <2>2. leaf \in DOMAIN v.heap /\ v.heap[leaf].win # Root /\ pseudo = Null
    <3>1. /\ Leaves(v) = {n \in DOMAIN v.heap : v.heap[n].win # Root}
          /\ GetFirstMinDepthLeafNode(v) \in Leaves(v) /\ pseudo = Null
      BY <1>1, <1>7, NodesOfTree DEF pseudo
    <3>2. at # Null => at \in DOMAIN v.heap /\ v.heap[at].win # Root
      BY NodeOfWindow DEF at
    <3> QED
      BY <3>1, <3>2
  <2>3. u = ResetZoom(x)
    BY <2>2, <1>3, <1>7
  <2> HIDE DEF leaf, x
  <2>4. /\ Sound(x) /\ Added(v, x, w) /\ Grown(v, x)
        /\ x.tree = v.tree /\ x.crash = v.crash
    BY <2>1, <2>2, PairIsSound DEF x
  <2>5. /\ Sound(u) /\ Held(u.heap) = Held(x.heap) /\ DOMAIN u.heap = DOMAIN x.heap
        /\ u.tree = x.tree /\ u.crash = x.crash
    BY <2>3, <2>4, <1>7, ResetZoomKeepsSound DEF Alike
  <2>6. Grown(v, u)
    BY <2>4, <2>5 DEF Grown
  <2> QED
    BY <2>4, <2>5, <2>6, <1>7 DEF Added
<1> QED
  BY <1>4, <1>5, <1>6, <1>7

(* AddWindow, of a window that is not in the tree.                         *)
LEMMA AddIsSound ==
    ASSUME NEW v, Sound(v), Idle(v), NEW w \in Window, w \notin Held(v.heap), Ready(v),
           NEW u, u = AddWindow(v, w)
    PROVE  /\ Sound(u) /\ Idle(u) /\ u.tree # Null /\ Grown(v, u)
           /\ u.crash = v.crash /\ Added(v, u, w)
<1> DEFINE pseudo == GetFirstMinDepthPseudoLeafNode(v)
           leaf == GetFirstMinDepthLeafNode(v)
<1>1. v.heap \in Heaps /\ Shape(v.heap, v.tree)
  BY SoundTree
<1>2. u = CASE v.tree = Null -> CreateRoot(v, w)
            [] v.tree # Null /\ pseudo # Null -> FillPseudoLeaf(v, pseudo, w)
            [] OTHER -> CreateLeafNodePair(v, leaf, w, SpawnLeft)
  BY DEF AddWindow
<1>3. CASE v.tree = Null
  <2>1. u = CreateRoot(v, w)
    BY <1>2, <1>3
  <2>2. Node \ DOMAIN v.heap # {}
    BY <1>3 DEF Ready
  <2>3. /\ Sound(u) /\ u.tree # Null /\ Held(u.heap) = {w} /\ Held(v.heap) = {}
        /\ Cardinality(DOMAIN v.heap) = 0 /\ Cardinality(DOMAIN u.heap) = 1
        /\ u.crash = v.crash /\ u.preselect = v.preselect
    BY <2>1, <2>2, <1>3, CreateRootIsSound
  <2> QED
    BY <2>3, <1>3 DEF Grown, Idle, Added
<1>4. CASE v.tree # Null
  <2>1. /\ Leaves(v) = {n \in DOMAIN v.heap : v.heap[n].win # Root}
        /\ leaf \in Leaves(v) /\ pseudo = Null
    BY <1>1, <1>4, NodesOfTree
  <2>2. u = CreateLeafNodePair(v, leaf, w, SpawnLeft)
    BY <2>1, <1>2, <1>4
  <2>3. Spare(v) /\ SpawnLeft \in BOOLEAN
    BY <1>4, BspAssumption DEF Ready
  <2> HIDE DEF leaf
  <2>4. leaf \in DOMAIN v.heap /\ v.heap[leaf].win # Root
    BY <2>1
  <2> QED
    BY <2>2, <2>3, <2>4, PairIsSound
<1> QED
  BY <1>3, <1>4

(* There are nodes for m more windows.                                     *)
Fits(v, m) ==
    Cardinality(DOMAIN v.heap) + (IF v.tree # Null THEN 2 * m ELSE IF m = 0 THEN 0 ELSE 2 * m - 1)
        <= MaxNode

(* Room, in BspTree, is room for m windows.                                *)
LEMMA RoomFits ==
    ASSUME NEW v, Sound(v), NEW m \in Nat, Room(v, m)
    PROVE  Fits(v, m)
<1>1. v.layout = {} /\ Cardinality(v.layout) = 0
  BY FS_EmptySet DEF Sound, Space
<1>2. CASE v.tree # Null
  BY <1>2 DEF Room, Fits
<1>3. CASE v.tree = Null /\ m = 0
  <2>1. Max({0}) = 0
    BY DEF Max
  <2> QED
    BY <2>1, <1>3 DEF Room, Fits
<1>4. CASE v.tree = Null /\ m # 0
  <2> DEFINE first == {2 * m - 1, 0}
  <2>1. \A x, y \in first : x >= y /\ y >= x => x = y
    BY <1>4
  <2>2. 2 * m - 1 \in first /\ \A x \in first : 2 * m - 1 >= x
    BY <1>4
  <2>3. Max(first) = 2 * m - 1
    <3>1. Max(first) \in first /\ \A x \in first : Max(first) >= x
      BY <2>2 DEF Max
    <3> HIDE DEF first
    <3> QED
      BY <2>1, <2>2, <3>1
  <2>4. Room(v, m) <=> Cardinality(DOMAIN v.heap) + Max(first) <= MaxNode
    BY <1>1, <1>4 DEF Room
  <2> QED
    BY <2>3, <2>4, <1>4 DEF Fits
<1> QED
  BY <1>2, <1>3, <1>4

(* With room for m windows one is added, which leaves room for m - 1.      *)
LEMMA FitsReady ==
    ASSUME NEW v, Sound(v), NEW m \in Nat, m # 0, Fits(v, m)
    PROVE  /\ Ready(v)
           /\ \A u : Sound(u) /\ u.tree # Null /\ Grown(v, u) => Fits(u, m - 1)
<1>1. DOMAIN v.heap \subseteq Node /\ (v.tree = Null => DOMAIN v.heap = {})
  BY SoundTree
<1>2. /\ IsFiniteSet(DOMAIN v.heap) /\ Cardinality(DOMAIN v.heap) \in Nat
      /\ Cardinality(DOMAIN v.heap) + 1 <= MaxNode => Node \ DOMAIN v.heap # {}
      /\ Cardinality(DOMAIN v.heap) + 2 <= MaxNode => Spare(v)
  BY <1>1, SpareNodes
<1>3. MaxNode \in Nat
  BY BspAssumption
<1>4. Ready(v)
  <2>1. v.tree = Null => Cardinality(DOMAIN v.heap) + 1 <= MaxNode
    BY <1>2, <1>3 DEF Fits
  <2>2. v.tree # Null => Cardinality(DOMAIN v.heap) + 2 <= MaxNode
    BY <1>2, <1>3 DEF Fits
  <2> QED
    BY <2>1, <2>2, <1>2 DEF Ready
<1>5. ASSUME NEW u, Sound(u), u.tree # Null, Grown(v, u)
      PROVE  Fits(u, m - 1)
  <2>1. Cardinality(DOMAIN u.heap) \in Nat
    BY <1>5, SoundTree, SpareNodes
  <2>2. Cardinality(DOMAIN u.heap) + 2 * (m - 1) <= MaxNode
    <3>1. CASE v.tree = Null
      BY <3>1, <2>1, <1>2, <1>3, <1>5 DEF Fits, Grown
    <3>2. CASE v.tree # Null
      BY <3>2, <2>1, <1>2, <1>3, <1>5 DEF Fits, Grown
    <3> QED
      BY <3>1, <3>2
  <2> QED
    BY <2>2, <1>5 DEF Fits
<1> QED
  BY <1>4, <1>5

(* UntileWindowFromSpace for the windows of s, in turn.                    *)
UntileAll(v, s) ==
    (CHOOSE f : f = [i \in 0..Len(s) |-> IF i = 0 THEN v ELSE UntileWindowFromSpace(f[i - 1], s[i])])[Len(s)]

(* Each untiling keeps the space sound and takes out its window.           *)
LEMMA UntileAllIsSound ==
    ASSUME NEW v, Sound(v), NEW S, NEW s \in Seq(S), S = {s[j] : j \in 1..Len(s)},
           NEW u, u = UntileAll(v, s)
    PROVE  Sound(u) /\ u.crash = v.crash /\ Held(u.heap) = Held(v.heap) \ S
<1> DEFINE n == Len(s)
           Good(x, i) ==
               /\ Sound(x) /\ x.crash = v.crash
               /\ Held(x.heap) = Held(v.heap) \ {s[j] : j \in 1..i}
           G == [i \in 0..n |-> {x \in Space : Good(x, i)}]
           F == [i \in 1..n |-> [x \in G[i - 1] |-> UntileWindowFromSpace(x, s[i])]]
           Met(f) == f = [i \in 0..n |-> IF i = 0 THEN v ELSE UntileWindowFromSpace(f[i - 1], s[i])]
<1>1. n \in Nat
  OBVIOUS
<1>2. v \in G[0]
  <2>1. {s[j] : j \in 1..0} = {}
    OBVIOUS
  <2> QED
    BY <2>1, <1>1 DEF Sound
<1>3. \A i \in 1..n : \A x \in G[i - 1] : UntileWindowFromSpace(x, s[i]) \in G[i]
  <2> SUFFICES ASSUME NEW i \in 1..n, NEW x, x \in Space, Good(x, i - 1)
               PROVE  LET y == UntileWindowFromSpace(x, s[i]) IN y \in Space /\ Good(y, i)
    <3> HIDE DEF Good
    <3>1. \A i \in 1..n : i - 1 \in 0..n /\ i \in 0..n
      BY <1>1
    <3> QED
      BY <3>1
  <2> DEFINE y == UntileWindowFromSpace(x, s[i])
  <2>1. i - 1 \in 0..n /\ i \in 0..n /\ i \in Nat /\ 1..i = 1..(i - 1) \union {i}
    BY <1>1
  <2>2. {s[j] : j \in 1..i} = {s[j] : j \in 1..(i - 1)} \union {s[i]}
    BY <2>1
  <2>3. Sound(y) /\ Held(y.heap) = Held(x.heap) \ {s[i]} /\ y.crash = x.crash
    BY UntileIsSound
  <2>6. y \in Space /\ Good(y, i)
    <3> HIDE DEF y
    <3> QED
      BY <2>2, <2>3 DEF Sound
  <2> QED
    BY <2>6
<1>4. \A i \in 1..n : \A x \in G[i - 1] : F[i][x] = UntileWindowFromSpace(x, s[i])
  <2> HIDE DEF G
  <2> QED
    OBVIOUS
<1>5. \E f : Met(f)
  <2>1. \A i \in 1..n : \A x \in G[i - 1] : F[i][x] \in G[i]
    <3> HIDE DEF G, F
    <3> QED
      BY <1>3, <1>4
  <2>2. PICK g : Iteration(g, n, v, F, G)
    <3> HIDE DEF G, F, n
    <3> QED
      BY <1>1, <1>2, <2>1, Iterate
  <2>3. \A i \in 0..n : g[i] = IF i = 0 THEN v ELSE UntileWindowFromSpace(g[i - 1], s[i])
    <3> TAKE i \in 0..n
    <3>1. i # 0 => i \in 1..n /\ i - 1 \in 0..n
      BY <1>1
    <3> HIDE DEF G, F, n
    <3> QED
      BY <3>1, <2>2, <1>4 DEF Iteration
  <2>4. g = [i \in 0..n |-> g[i]]
    <3> HIDE DEF G, F, n
    <3> QED
      BY <2>2 DEF Iteration
  <2>5. Met(g)
    <3> HIDE DEF n
    <3> QED
      BY <2>3, <2>4, Zenon
  <2> QED
    BY <2>5
<1> DEFINE f == CHOOSE f_1 : Met(f_1)
<1>6. Met(f)
  <2> HIDE DEF Met
  <2> QED
    BY <1>5
<1>7. u = f[n]
  BY DEF UntileAll
<1> HIDE DEF f
<1>8. \A i \in 0..n : f[i] \in G[i]
  <2>1. \A i \in 0..n : f[i] = IF i = 0 THEN v ELSE UntileWindowFromSpace(f[i - 1], s[i])
    BY <1>6
  <2> HIDE DEF Met, G, F, n
  <2>2. f[0] \in G[0]
    <3>1. 0 \in 0..n
      BY <1>1
    <3>2. f[0] = v
      BY <3>1, <2>1
    <3> QED
      BY <3>2, <1>2
  <2>3. \A i \in 1..n : f[i - 1] \in G[i - 1] => f[i] \in G[i]
    BY <2>1, <1>1, <1>3
  <2> QED
    BY <2>2, <2>3, <1>1, StaysIn
<1>9. Good(u, n)
  <2>1. n \in 0..n
    BY <1>1
  <2> HIDE DEF f, F, Met, n, Good
  <2> QED
    BY <2>1, <1>7, <1>8
<1> QED
  BY <1>9

(* TileWindowOnSpace for the windows of s, in turn.                        *)
TileAll(v, s, point) ==
    (CHOOSE f : f = [i \in 0..Len(s) |->
                        IF i = 0 THEN v ELSE TileWindowOnSpace(f[i - 1], s[i], point)])[Len(s)]

(* Each tiling keeps the space sound and adds its window; some may be      *)
(* there before.                                                           *)
LEMMA TileAllIsSound ==
    ASSUME NEW v, Sound(v), NEW s \in Seq(Window), Fits(v, Len(s)), NEW point,
           NEW u, u = TileAll(v, s, point)
    PROVE  /\ Sound(u)
           /\ u.crash = "no" => /\ v.crash = "no"
                                /\ Held(u.heap) = Held(v.heap) \union {s[j] : j \in 1..Len(s)}
<1> DEFINE n == Len(s)
           Good(x, i) ==
               /\ Sound(x) /\ Fits(x, n - i)
               /\ x.crash = "no" => /\ v.crash = "no"
                                    /\ Held(x.heap) = Held(v.heap) \union {s[j] : j \in 1..i}
           G == [i \in 0..n |-> {x \in Space : Good(x, i)}]
           F == [i \in 1..n |-> [x \in G[i - 1] |-> TileWindowOnSpace(x, s[i], point)]]
           Met(f) == f = [i \in 0..n |-> IF i = 0 THEN v ELSE TileWindowOnSpace(f[i - 1], s[i], point)]
<1>1. n \in Nat
  OBVIOUS
<1>2. v \in G[0]
  <2>1. {s[j] : j \in 1..0} = {} /\ n - 0 = n
    BY <1>1
  <2> QED
    BY <2>1, <1>1 DEF Sound
<1>3. \A i \in 1..n : \A x \in G[i - 1] : TileWindowOnSpace(x, s[i], point) \in G[i]
  <2> SUFFICES ASSUME NEW i \in 1..n, NEW x, x \in Space, Good(x, i - 1)
               PROVE  LET y == TileWindowOnSpace(x, s[i], point) IN y \in Space /\ Good(y, i)
    <3> HIDE DEF Good
    <3>1. \A i \in 1..n : i - 1 \in 0..n /\ i \in 0..n
      BY <1>1
    <3> QED
      BY <3>1
  <2> DEFINE y == TileWindowOnSpace(x, s[i], point)
  <2>1. i - 1 \in 0..n /\ i \in 0..n /\ i \in Nat /\ 1..i = 1..(i - 1) \union {i}
    BY <1>1
  <2>2. {s[j] : j \in 1..i} = {s[j] : j \in 1..(i - 1)} \union {s[i]}
    BY <2>1
  <2>3. n - (i - 1) \in Nat /\ n - (i - 1) # 0 /\ (n - (i - 1)) - 1 = n - i /\ s[i] \in Window
    BY <1>1
  <2>4. Ready(x) /\ \A z : Sound(z) /\ z.tree # Null /\ Grown(x, z) => Fits(z, n - i)
    <3> HIDE DEF n
    <3> QED
      BY <2>3, FitsReady
  <2>5. /\ Sound(y) /\ y.tree # Null /\ Grown(x, y)
        /\ y.crash = "no" => x.crash = "no" /\ Added(x, y, s[i])
    BY <2>3, <2>4, TileIsSound
  <2>6. y \in Space /\ Good(y, i)
    <3> HIDE DEF y, n
    <3> QED
      BY <2>2, <2>4, <2>5 DEF Sound, Added
  <2> QED
    BY <2>6
<1>4. \A i \in 1..n : \A x \in G[i - 1] : F[i][x] = TileWindowOnSpace(x, s[i], point)
  <2> HIDE DEF G
  <2> QED
    OBVIOUS
<1>5. \E f : Met(f)
  <2>1. \A i \in 1..n : \A x \in G[i - 1] : F[i][x] \in G[i]
    <3> HIDE DEF G, F
    <3> QED
      BY <1>3, <1>4
  <2>2. PICK g : Iteration(g, n, v, F, G)
    <3> HIDE DEF G, F, n
    <3> QED
      BY <1>1, <1>2, <2>1, Iterate
  <2>3. \A i \in 0..n : g[i] = IF i = 0 THEN v ELSE TileWindowOnSpace(g[i - 1], s[i], point)
    <3> TAKE i \in 0..n
    <3>1. i # 0 => i \in 1..n /\ i - 1 \in 0..n
      BY <1>1
    <3> HIDE DEF G, F, n
    <3> QED
      BY <3>1, <2>2, <1>4 DEF Iteration
  <2>4. g = [i \in 0..n |-> g[i]]
    <3> HIDE DEF G, F, n
    <3> QED
      BY <2>2 DEF Iteration
  <2>5. Met(g)
    <3> HIDE DEF n
    <3> QED
      BY <2>3, <2>4, Zenon
  <2> QED
    BY <2>5
<1> DEFINE f == CHOOSE f_1 : Met(f_1)
<1>6. Met(f)
  <2> HIDE DEF Met
  <2> QED
    BY <1>5
<1>7. u = f[n]
  BY DEF TileAll
<1> HIDE DEF f
<1>8. \A i \in 0..n : f[i] \in G[i]
  <2>1. \A i \in 0..n : f[i] = IF i = 0 THEN v ELSE TileWindowOnSpace(f[i - 1], s[i], point)
    BY <1>6
  <2> HIDE DEF Met, G, F, n
  <2>2. f[0] \in G[0]
    <3>1. 0 \in 0..n
      BY <1>1
    <3>2. f[0] = v
      BY <3>1, <2>1
    <3> QED
      BY <3>2, <1>2
  <2>3. \A i \in 1..n : f[i - 1] \in G[i - 1] => f[i] \in G[i]
    BY <2>1, <1>1, <1>3
  <2> QED
    BY <2>2, <2>3, <1>1, StaysIn
<1>9. Good(u, n)
  <2>1. n \in 0..n
    BY <1>1
  <2> HIDE DEF f, F, Met, n, Good
  <2> QED
    BY <2>1, <1>7, <1>8
<1> QED
  BY <1>9

(* AddWindow for the windows of s, in turn.                                *)
AddAll(v, s) ==
    (CHOOSE f : f = [i \in 0..Len(s) |-> IF i = 0 THEN v ELSE AddWindow(f[i - 1], s[i])])[Len(s)]

(* The tree of v holds these windows.                                      *)
Holds(v, windows) == Held(v.heap) = windows

(* No two elements of s are the same.                                      *)
Distinct(s) == \A i, j \in 1..Len(s) : s[i] = s[j] => i = j

(* And so for a new tree, of windows that differ.                          *)
LEMMA AddAllIsSound ==
    ASSUME NEW v, Sound(v), Idle(v), Held(v.heap) = {}, NEW s \in Seq(Window), Fits(v, Len(s)),
           Distinct(s), NEW S, S = {s[j] : j \in 1..Len(s)}, NEW u, u = AddAll(v, s)
    PROVE  /\ Sound(u) /\ u.crash = v.crash
           /\ Holds(u, S)
<1> DEFINE n == Len(s)
           Good(x, i) ==
               /\ Sound(x) /\ Fits(x, n - i) /\ Idle(x) /\ x.crash = v.crash
               /\ Held(x.heap) = {s[j] : j \in 1..i}
           G == [i \in 0..n |-> {x \in Space : Good(x, i)}]
           F == [i \in 1..n |-> [x \in G[i - 1] |-> AddWindow(x, s[i])]]
           Met(f) == f = [i \in 0..n |-> IF i = 0 THEN v ELSE AddWindow(f[i - 1], s[i])]
<1>1. n \in Nat
  OBVIOUS
<1>2. v \in G[0]
  <2>1. {s[j] : j \in 1..0} = {} /\ n - 0 = n
    BY <1>1
  <2> QED
    BY <2>1, <1>1 DEF Sound
<1>3. \A i \in 1..n : \A x \in G[i - 1] : AddWindow(x, s[i]) \in G[i]
  <2> SUFFICES ASSUME NEW i \in 1..n, NEW x, x \in Space, Good(x, i - 1)
               PROVE  LET y == AddWindow(x, s[i]) IN y \in Space /\ Good(y, i)
    <3> HIDE DEF Good
    <3>1. \A i \in 1..n : i - 1 \in 0..n /\ i \in 0..n
      BY <1>1
    <3> QED
      BY <3>1
  <2> DEFINE y == AddWindow(x, s[i])
  <2>1. i - 1 \in 0..n /\ i \in 0..n /\ i \in Nat /\ 1..i = 1..(i - 1) \union {i}
    BY <1>1
  <2>2. {s[j] : j \in 1..i} = {s[j] : j \in 1..(i - 1)} \union {s[i]}
    BY <2>1
  <2>3. /\ n - (i - 1) \in Nat /\ n - (i - 1) # 0 /\ (n - (i - 1)) - 1 = n - i /\ s[i] \in Window
        /\ s[i] \notin Held(x.heap)
    BY <1>1 DEF Distinct
  <2>4. Ready(x) /\ \A z : Sound(z) /\ z.tree # Null /\ Grown(x, z) => Fits(z, n - i)
    <3> HIDE DEF n
    <3> QED
      BY <2>3, FitsReady
  <2>5. /\ Sound(y) /\ Idle(y) /\ y.tree # Null /\ Grown(x, y)
        /\ y.crash = x.crash /\ Added(x, y, s[i])
    <3> HIDE DEF n
    <3> DEFINE w == s[i]
    <3>1. w \in Window /\ w \notin Held(x.heap) /\ y = AddWindow(x, w)
      BY <2>3
    <3> HIDE DEF w, y
    <3>2. Sound(y) /\ Idle(y)
      BY <3>1, <2>4, AddIsSound
    <3>3. y.tree # Null /\ Grown(x, y)
      BY <3>1, <2>4, AddIsSound
    <3>4. y.crash = x.crash
      BY <3>1, <2>4, AddIsSound
    <3>5. Added(x, y, w)
      BY <3>1, <2>4, AddIsSound
    <3> QED
      BY <3>2, <3>3, <3>4, <3>5 DEF w
  <2>6. y \in Space /\ Good(y, i)
    <3> HIDE DEF y, n
    <3> QED
      BY <2>2, <2>4, <2>5 DEF Sound, Added
  <2> QED
    BY <2>6
<1>4. \A i \in 1..n : \A x \in G[i - 1] : F[i][x] = AddWindow(x, s[i])
  <2> HIDE DEF G
  <2> QED
    OBVIOUS
<1>5. \E f : Met(f)
  <2>1. \A i \in 1..n : \A x \in G[i - 1] : F[i][x] \in G[i]
    <3> HIDE DEF G, F
    <3> QED
      BY <1>3, <1>4
  <2>2. PICK g : Iteration(g, n, v, F, G)
    <3> HIDE DEF G, F, n
    <3> QED
      BY <1>1, <1>2, <2>1, Iterate
  <2>3. \A i \in 0..n : g[i] = IF i = 0 THEN v ELSE AddWindow(g[i - 1], s[i])
    <3> TAKE i \in 0..n
    <3>1. i # 0 => i \in 1..n /\ i - 1 \in 0..n
      BY <1>1
    <3> HIDE DEF G, F, n
    <3> QED
      BY <3>1, <2>2, <1>4 DEF Iteration
  <2>4. g = [i \in 0..n |-> g[i]]
    <3> HIDE DEF G, F, n
    <3> QED
      BY <2>2 DEF Iteration
  <2>5. Met(g)
    <3> HIDE DEF n
    <3> QED
      BY <2>3, <2>4, Zenon
  <2> QED
    BY <2>5
<1> DEFINE f == CHOOSE f_1 : Met(f_1)
<1>6. Met(f)
  <2> HIDE DEF Met
  <2> QED
    BY <1>5
<1>7. u = f[n]
  BY DEF AddAll
<1> HIDE DEF f
<1>8. \A i \in 0..n : f[i] \in G[i]
  <2>1. \A i \in 0..n : f[i] = IF i = 0 THEN v ELSE AddWindow(f[i - 1], s[i])
    BY <1>6
  <2> HIDE DEF Met, G, F, n
  <2>2. f[0] \in G[0]
    <3>1. 0 \in 0..n
      BY <1>1
    <3>2. f[0] = v
      BY <3>1, <2>1
    <3> QED
      BY <3>2, <1>2
  <2>3. \A i \in 1..n : f[i - 1] \in G[i - 1] => f[i] \in G[i]
    BY <2>1, <1>1, <1>3
  <2> QED
    BY <2>2, <2>3, <1>1, StaysIn
<1>9. Good(u, n)
  <2>1. n \in 0..n
    BY <1>1
  <2> HIDE DEF f, F, Met, n, Good
  <2> QED
    BY <2>1, <1>7, <1>8
<1> QED
  BY <1>9 DEF Holds

(* SwapNodeIds, of two leafs.                                              *)
LEMMA SwapIsSound ==
    ASSUME NEW v, Sound(v), NEW a \in DOMAIN v.heap, NEW b \in DOMAIN v.heap, a # b,
           v.heap[a].win # Root, v.heap[b].win # Root, NEW u, u = SwapNodeIds(v, a, b)
    PROVE  Sound(u) /\ Held(u.heap) = Held(v.heap) /\ u.crash = v.crash /\ u.tree = v.tree
<1> DEFINE h == v.heap
           g == [h EXCEPT ![a].win = h[b].win, ![b].win = h[a].win]
<1>1. /\ v \in Space /\ h \in Heaps /\ Tree(h, v.tree) /\ Shape(h, v.tree)
      /\ DOMAIN h \subseteq Node /\ \A n \in DOMAIN h : h[n] \in Record4
  BY SoundTree
<1>2. u = [v EXCEPT !.heap = g]
  BY DEF SwapNodeIds
<1>3. /\ DOMAIN g = DOMAIN h /\ g[a] = [h[a] EXCEPT !.win = h[b].win]
      /\ g[b] = [h[b] EXCEPT !.win = h[a].win]
      /\ \A n \in DOMAIN h \ {a, b} : g[n] = h[n]
  OBVIOUS
<1> HIDE DEF g
<1>4. /\ u.heap = g /\ u.tree = v.tree /\ u.crash = v.crash /\ u.preselect = v.preselect
  BY <1>1, <1>2 DEF Space
<1> HIDE DEF h
<1> DEFINE from(n) == IF n = a THEN b ELSE IF n = b THEN a ELSE n
<1>5. \A n \in DOMAIN h : /\ g[n].win = h[from(n)].win /\ g[n].parent = h[n].parent
                          /\ g[n].left = h[n].left /\ g[n].right = h[n].right
                          /\ g[n].zoom = h[n].zoom /\ g[n] \in Record4
  <2>1. h[a] \in Record4 /\ h[b] \in Record4 /\ a \in DOMAIN h /\ b \in DOMAIN h
    BY <1>1 DEF h
  <2>2. /\ g[a].win = h[b].win /\ g[a].parent = h[a].parent
        /\ g[a].left = h[a].left /\ g[a].right = h[a].right
        /\ g[a].zoom = h[a].zoom /\ g[a] \in Record4
    BY <2>1, <1>3 DEF Record4
  <2>3. /\ g[b].win = h[a].win /\ g[b].parent = h[b].parent
        /\ g[b].left = h[b].left /\ g[b].right = h[b].right
        /\ g[b].zoom = h[b].zoom /\ g[b] \in Record4
    BY <2>1, <1>3 DEF Record4
  <2> QED
    BY <2>2, <2>3, <1>1, <1>3
<1>6. /\ h[a].win # Root /\ h[b].win # Root /\ a \in DOMAIN h /\ b \in DOMAIN h
      /\ \A n \in DOMAIN h : from(n) \in DOMAIN h /\ from(from(n)) = n
      /\ \A n \in DOMAIN h : h[n].win = Root <=> h[from(n)].win = Root
      /\ \A n \in DOMAIN h : h[n].win # Root => h[n].win \in Window
  BY <1>1 DEF h, Shape
<1> HIDE DEF from
<1>7. g \in Heaps
  <2>1. g \in [DOMAIN h -> Record4]
    <3>1. g = [n \in DOMAIN h |-> g[n]]
      BY DEF g
    <3> QED
      BY <3>1, <1>5
  <2> QED
    BY <2>1, <1>1, HeapOf
<1>8. Shape(g, v.tree)
  <2>1. \A n \in DOMAIN h : /\ h[n].win = Root => g[n].win = Root
                            /\ h[n].win # Root => g[n].win \in Window
    BY <1>5, <1>6
  <2> QED
    BY <2>1, <1>1, <1>3, <1>5, RelabelKeepsShape
<1>9. Held(g) = Held(h)
  <2>1. {g[n].win : n \in DOMAIN g} = {h[n].win : n \in DOMAIN h}
    BY <1>3, <1>5, <1>6
  <2> QED
    BY <2>1 DEF Held
<1>10. Unique(g)
  <2> SUFFICES ASSUME NEW m \in DOMAIN g, NEW n \in DOMAIN g, g[m].win = g[n].win, g[m].win # Root
               PROVE  m = n
    BY DEF Unique
  <2>1. from(m) = from(n)
    BY <1>1, <1>3, <1>5, <1>6 DEF Tree, Unique
  <2> QED
    BY <2>1, <1>3, <1>6
<1>11. Zooms(g, v.tree)
  <2>1. v.tree \in DOMAIN h
    BY SoundTree, <1>6 DEF h
  <2>2. \A n \in DOMAIN h \ {v.tree} : h[n].parent \in DOMAIN h
    BY <1>1 DEF Shape
  <2> QED
    BY <2>1, <2>2, <1>1, <1>3, <1>5 DEF Zooms, Tree
<1>12. u \in Space
  BY <1>1, <1>2, <1>7 DEF Space
<1>13. Chosen(u)
  BY <1>3, <1>4, <1>5, <1>6 DEF Sound, Chosen, h
<1> QED
  BY <1>4, <1>7, <1>8, <1>9, <1>10, <1>11, <1>12, <1>13 DEF Sound, Tree, h

(* RotateWindowTree, MirrorWindowTree: the children of some nodes swap.    *)
Turned(h, nodes) ==
    [n \in DOMAIN h |-> IF n \in nodes THEN [h[n] EXCEPT !.left = h[n].right, !.right = h[n].left]
                        ELSE h[n]]

(* RotateBSPTree and mirroring, whose model swaps the children of any set  *)
(* of nodes.                                                               *)
LEMMA TurnIsSound ==
    ASSUME NEW v, Sound(v), NEW nodes, NEW u, u = [v EXCEPT !.heap = Turned(v.heap, nodes)]
    PROVE  Sound(u) /\ Held(u.heap) = Held(v.heap) /\ u.crash = v.crash /\ u.tree = v.tree
<1> DEFINE h == v.heap
           g == Turned(h, nodes)
<1>1. /\ v \in Space /\ h \in Heaps /\ Tree(h, v.tree) /\ Shape(h, v.tree)
      /\ DOMAIN h \subseteq Node /\ \A n \in DOMAIN h : h[n] \in Record4
  BY SoundTree
<1>2. DOMAIN g = DOMAIN h
  BY DEF Turned
<1>12. \A n \in DOMAIN h :
          g[n] = IF n \in nodes THEN [h[n] EXCEPT !.left = h[n].right, !.right = h[n].left]
                 ELSE h[n]
  BY DEF Turned
<1>3. u = [v EXCEPT !.heap = g]
  OBVIOUS
<1> HIDE DEF g
<1>4. /\ u.heap = g /\ u.tree = v.tree /\ u.crash = v.crash /\ u.preselect = v.preselect
  BY <1>1, <1>3 DEF Space
<1> HIDE DEF h
<1>5. \A n \in DOMAIN h : /\ g[n].win = h[n].win /\ g[n].parent = h[n].parent
                          /\ \/ g[n].left = h[n].left /\ g[n].right = h[n].right
                             \/ g[n].left = h[n].right /\ g[n].right = h[n].left
                          /\ g[n].zoom = h[n].zoom /\ g[n] \in Record4
  <2> TAKE n \in DOMAIN h
  <2>1. h[n] \in Record4
    BY <1>1
  <2>2. CASE n \in nodes
    <3>1. g[n] = [h[n] EXCEPT !.left = h[n].right, !.right = h[n].left]
      BY <2>2, <1>12
    <3> QED
      BY <3>1, <2>1 DEF Record4
  <2>3. CASE n \notin nodes
    <3>1. g[n] = h[n]
      BY <2>3, <1>12
    <3> QED
      BY <3>1, <2>1
  <2> QED
    BY <2>2, <2>3
<1>6. g \in Heaps
  <2>1. g \in [DOMAIN h -> Record4]
    <3>1. g = [n \in DOMAIN h |-> g[n]]
      BY DEF g, Turned, h
    <3> QED
      BY <3>1, <1>5
  <2> QED
    BY <2>1, <1>1, HeapOf
<1>7. Shape(g, v.tree)
  <2>1. \A n \in DOMAIN h : h[n].win # Root => h[n].win \in Window
    BY <1>1 DEF Shape
  <2> QED
    BY <2>1, <1>1, <1>2, <1>5, RelabelKeepsShape
<1>8. Held(g) = Held(h) /\ Unique(g)
  <2>1. \A n \in DOMAIN h : g[n].win = h[n].win
    BY <1>5
  <2> QED
    BY <2>1, <1>1, <1>2 DEF Held, Unique, Tree
<1>9. Zooms(g, v.tree)
  <2>1. v.tree = Null => DOMAIN h = {}
    BY <1>1 DEF Shape
  <2>2. \A n \in DOMAIN h \ {v.tree} : h[n].parent \in DOMAIN h /\ v.tree \in DOMAIN h
    BY <1>1, <2>1 DEF Shape
  <2>3. \A n \in DOMAIN h : g[n].zoom = h[n].zoom /\ g[n].parent = h[n].parent
    BY <1>5
  <2>4. \A n \in DOMAIN h : {g[n].left, g[n].right} = {h[n].left, h[n].right}
    BY <1>5
  <2>5. Zooms(h, v.tree)
    BY <1>1 DEF Tree
  <2> QED
    BY <2>2, <2>3, <2>4, <2>5, <1>2 DEF Zooms
<1>10. u \in Space
  BY <1>1, <1>3, <1>6 DEF Space
<1>11. Chosen(u)
  BY <1>2, <1>4, <1>5 DEF Sound, Chosen, h
<1> QED
  BY <1>4, <1>6, <1>7, <1>8, <1>9, <1>10, <1>11 DEF Sound, Tree, h

(* What SetZoom does, node by node.                                        *)
LEMMA ZoomedNodes ==
    ASSUME NEW v, Sound(v), NEW m \in DOMAIN v.heap, NEW z, NEW u, u = SetZoom(v, m, z)
    PROVE  /\ u.tree = v.tree /\ DOMAIN u.heap = DOMAIN v.heap
           /\ \A k \in DOMAIN v.heap : /\ u.heap[k].win = v.heap[k].win
                                       /\ u.heap[k].parent = v.heap[k].parent
                                       /\ u.heap[k].left = v.heap[k].left
                                       /\ u.heap[k].right = v.heap[k].right
                                       /\ u.heap[k].zoom = IF k = m THEN z ELSE v.heap[k].zoom
<1>1. v \in Space /\ \A n \in DOMAIN v.heap : v.heap[n] \in Record4
  BY SoundTree
<1>2. u.tree = v.tree /\ u.heap = [v.heap EXCEPT ![m].zoom = z]
  BY <1>1 DEF SetZoom, Space
<1> QED
  BY <1>1, <1>2 DEF Record4

(* A zoom that is set to a child of the node, or at the root to any leaf    *)
(* that its parent does not zoom, is sound, and so is one that is reset.   *)
LEMMA ClearZoomIsSound ==
    ASSUME NEW v, Sound(v), NEW m \in DOMAIN v.heap, NEW u, u = SetZoom(v, m, Null)
    PROVE  Alike(v, u)
<1>1. /\ Null \notin DOMAIN v.heap /\ v.tree \in DOMAIN v.heap /\ Shape(v.heap, v.tree)
      /\ Zooms(v.heap, v.tree) /\ Null \in Pointer
  BY SoundTree DEF Tree, Pointer
<1>2. /\ u.tree = v.tree /\ DOMAIN u.heap = DOMAIN v.heap
      /\ \A k \in DOMAIN v.heap : /\ u.heap[k].parent = v.heap[k].parent
                                  /\ u.heap[k].left = v.heap[k].left
                                  /\ u.heap[k].right = v.heap[k].right
                                  /\ u.heap[k].zoom = IF k = m THEN Null ELSE v.heap[k].zoom
  BY ZoomedNodes
<1>3. \A k \in DOMAIN v.heap \ {v.tree} : v.heap[k].parent \in DOMAIN v.heap
  BY <1>1 DEF Shape
<1>4. Zooms(u.heap, u.tree)
  BY <1>1, <1>2, <1>3 DEF Zooms
<1> QED
  BY <1>1, <1>4, ZoomKeepsSound

(* The root may zoom any node that its parent does not.                    *)
LEMMA RootZoomIsSound ==
    ASSUME NEW v, Sound(v), NEW n \in DOMAIN v.heap,
           v.heap[n].parent # Null => v.heap[v.heap[n].parent].zoom # n,
           NEW u, u = SetZoom(v, v.tree, n)
    PROVE  Alike(v, u)
<1>1. /\ Null \notin DOMAIN v.heap /\ v.tree \in DOMAIN v.heap /\ Shape(v.heap, v.tree)
      /\ Zooms(v.heap, v.tree) /\ n \in Pointer
  BY SoundTree DEF Tree, Pointer
<1>2. /\ u.tree = v.tree /\ DOMAIN u.heap = DOMAIN v.heap
      /\ \A k \in DOMAIN v.heap : /\ u.heap[k].parent = v.heap[k].parent
                                  /\ u.heap[k].left = v.heap[k].left
                                  /\ u.heap[k].right = v.heap[k].right
                                  /\ u.heap[k].zoom = IF k = v.tree THEN n ELSE v.heap[k].zoom
  BY <1>1, ZoomedNodes
<1>3. \A k \in DOMAIN v.heap \ {v.tree} : v.heap[k].parent \in DOMAIN v.heap
  BY <1>1 DEF Shape
<1>4. Zooms(u.heap, u.tree)
  BY <1>1, <1>2, <1>3 DEF Zooms
<1> QED
  BY <1>1, <1>4, ZoomKeepsSound

(* A parent may zoom a child of its own that the root does not zoom.       *)
LEMMA ParentZoomIsSound ==
    ASSUME NEW v, Sound(v), NEW n \in DOMAIN v.heap, NEW p, p = v.heap[n].parent, p # Null,
           v.heap[v.tree].zoom # n, NEW u, u = SetZoom(v, p, n)
    PROVE  Alike(v, u)
<1>1. /\ Null \notin DOMAIN v.heap /\ v.tree \in DOMAIN v.heap /\ Shape(v.heap, v.tree)
      /\ Zooms(v.heap, v.tree) /\ n \in Pointer
  BY SoundTree DEF Tree, Pointer
<1>2. p \in DOMAIN v.heap /\ n \in {v.heap[p].left, v.heap[p].right}
  BY <1>1 DEF Shape
<1>3. u.tree = v.tree /\ DOMAIN u.heap = DOMAIN v.heap
  BY <1>2, ZoomedNodes
<1>4. \A k \in DOMAIN v.heap : /\ u.heap[k].parent = v.heap[k].parent
                               /\ u.heap[k].left = v.heap[k].left
                               /\ u.heap[k].right = v.heap[k].right
  BY <1>2, ZoomedNodes
<1>6. \A k \in DOMAIN v.heap : u.heap[k].zoom = IF k = p THEN n ELSE v.heap[k].zoom
  BY <1>2, ZoomedNodes
<1>5. Zooms(u.heap, u.tree)
  <2>1. ASSUME NEW k \in DOMAIN u.heap \ {u.tree}, u.heap[k].zoom # Null
        PROVE  u.heap[k].zoom \in {u.heap[k].left, u.heap[k].right}
    <3>1. k \in DOMAIN v.heap \ {v.tree}
      BY <2>1, <1>3
    <3>2. CASE k = p
      BY <3>1, <3>2, <1>2, <1>4, <1>6
    <3>3. CASE k # p
      BY <3>1, <3>3, <2>1, <1>1, <1>4, <1>6 DEF Zooms
    <3> QED
      BY <3>2, <3>3
  <2>2. ASSUME NEW k \in DOMAIN u.heap \ {u.tree}, u.heap[u.tree].zoom = k,
               u.heap[k].parent # u.tree
        PROVE  u.heap[u.heap[k].parent].zoom # k
    <3> DEFINE q == v.heap[k].parent
    <3>1. k \in DOMAIN v.heap \ {v.tree} /\ u.heap[v.tree].zoom = k /\ u.heap[k].parent # v.tree
      BY <2>2, <1>3
    <3>2. q \in DOMAIN v.heap /\ u.heap[k].parent = q /\ q # v.tree
      BY <3>1, <1>1, <1>4 DEF Shape
    <3>3. CASE p = v.tree
      <4>1. k = n
        BY <3>1, <3>3, <1>1, <1>6
      <4> QED
        BY <4>1, <3>2, <3>3
    <3>4. CASE p # v.tree
      <4>1. v.heap[v.tree].zoom = k /\ k # n
        BY <3>1, <3>4, <1>1, <1>6
      <4>2. v.heap[q].zoom # k
        BY <4>1, <3>1, <3>2, <1>1 DEF Zooms
      <4> HIDE DEF q
      <4>3. u.heap[q].zoom = IF q = p THEN n ELSE v.heap[q].zoom
        BY <3>2, <1>6
      <4> QED
        BY <4>1, <4>2, <4>3, <3>2
    <3> QED
      BY <3>3, <3>4
  <2> QED
    BY <2>1, <2>2 DEF Zooms
<1> QED
  BY <1>1, <1>2, <1>5, ZoomKeepsSound

(* The two commands that toggle a zoom of the leaf n.                      *)
Fullscreen(v, n) ==
    LET p == v.heap[n].parent
        u == IF p # Null /\ v.heap[p].zoom = n THEN [v EXCEPT !.heap[p].zoom = Null] ELSE v
    IN IF v.heap[v.tree].zoom = n THEN ResetZoom(v) ELSE [u EXCEPT !.heap[v.tree].zoom = n]

(* The fullscreen zoom, set or reset.                                      *)
LEMMA FullscreenIsSound ==
    ASSUME NEW v, Sound(v), NEW n \in DOMAIN v.heap, NEW u, u = Fullscreen(v, n)
    PROVE  Alike(v, u)
<1> DEFINE p == v.heap[n].parent
           x == IF p # Null /\ v.heap[p].zoom = n THEN SetZoom(v, p, Null) ELSE v
<1>1. v.tree # Null /\ v.tree \in DOMAIN v.heap /\ Shape(v.heap, v.tree) /\ Null \notin DOMAIN v.heap
  BY SoundTree
<1>2. u = IF v.heap[v.tree].zoom = n THEN ResetZoom(v) ELSE SetZoom(x, v.tree, n)
  BY DEF Fullscreen, SetZoom
<1>3. CASE v.heap[v.tree].zoom = n
  BY <1>1, <1>2, <1>3, ResetZoomKeepsSound DEF Alike
<1>4. CASE v.heap[v.tree].zoom # n
  <2>1. p # Null => p \in DOMAIN v.heap
    BY <1>1 DEF Shape
  <2>2. /\ Alike(v, x) /\ n \in DOMAIN x.heap
        /\ x.heap[n].parent # Null => x.heap[x.heap[n].parent].zoom # n
    <3>1. CASE p # Null /\ v.heap[p].zoom = n
      <4>1. x = SetZoom(v, p, Null)
        BY <3>1
      <4> HIDE DEF x, p
      <4>2. Alike(v, x)
        BY <4>1, <3>1, <2>1, ClearZoomIsSound
      <4>3. n \in DOMAIN x.heap /\ x.heap[n].parent = p /\ x.heap[p].zoom = Null
        BY <4>1, <3>1, <2>1, ZoomedNodes DEF p
      <4> QED
        BY <4>2, <4>3, <1>1
    <3>2. CASE ~(p # Null /\ v.heap[p].zoom = n)
      BY <3>2 DEF Alike
    <3> QED
      BY <3>1, <3>2
  <2> HIDE DEF x
  <2>3. Sound(x) /\ u = SetZoom(x, x.tree, n)
    BY <2>2, <1>2, <1>4 DEF Alike
  <2>4. Alike(x, u)
    BY <2>2, <2>3, RootZoomIsSound
  <2> QED
    BY <2>2, <2>4 DEF Alike
<1> QED
  BY <1>3, <1>4

ParentZoom(v, n) ==
    LET p == v.heap[n].parent
        u == IF v.heap[v.tree].zoom = n THEN ResetZoom(v) ELSE v
    IN IF v.heap[p].zoom = n THEN [v EXCEPT !.heap[p].zoom = Null] ELSE [u EXCEPT !.heap[p].zoom = n]

(* The zoom to the parent, set or reset.                                   *)
LEMMA ToggleParentIsSound ==
    ASSUME NEW v, Sound(v), NEW n \in DOMAIN v.heap, v.heap[n].parent # Null,
           NEW u, u = ParentZoom(v, n)
    PROVE  Alike(v, u)
<1> DEFINE p == v.heap[n].parent
           x == IF v.heap[v.tree].zoom = n THEN SetZoom(v, v.tree, Null) ELSE v
<1>1. v.tree # Null /\ v.tree \in DOMAIN v.heap /\ Shape(v.heap, v.tree) /\ Null \notin DOMAIN v.heap
  BY SoundTree
<1>2. u = IF v.heap[p].zoom = n THEN SetZoom(v, p, Null) ELSE SetZoom(x, p, n)
  BY DEF ParentZoom, SetZoom, ResetZoom
<1>3. p \in DOMAIN v.heap
  BY <1>1 DEF Shape
<1> HIDE DEF p
<1>4. CASE v.heap[p].zoom = n
  <2>1. u = SetZoom(v, p, Null)
    BY <1>2, <1>4
  <2> QED
    BY <2>1, <1>3, ClearZoomIsSound
<1>5. CASE v.heap[p].zoom # n
  <2>1. Alike(v, x) /\ n \in DOMAIN x.heap /\ x.heap[n].parent = p /\ x.heap[x.tree].zoom # n
    <3>1. CASE v.heap[v.tree].zoom = n
      <4>1. x = SetZoom(v, v.tree, Null)
        BY <3>1
      <4> HIDE DEF x
      <4>2. Alike(v, x)
        BY <4>1, <1>1, ClearZoomIsSound
      <4>3. n \in DOMAIN x.heap /\ x.heap[n].parent = p /\ x.heap[v.tree].zoom = Null /\ x.tree = v.tree
        BY <4>1, <1>1, ZoomedNodes DEF p
      <4> QED
        BY <4>2, <4>3, <1>1
    <3>2. CASE v.heap[v.tree].zoom # n
      BY <3>2 DEF Alike, p
    <3> QED
      BY <3>1, <3>2
  <2> HIDE DEF x
  <2>2. Sound(x) /\ u = SetZoom(x, p, n) /\ p # Null
    BY <2>1, <1>1, <1>2, <1>3, <1>5 DEF Alike
  <2>3. Alike(x, u)
    BY <2>1, <2>2, ParentZoomIsSound
  <2> QED
    BY <2>1, <2>3 DEF Alike
<1> QED
  BY <1>4, <1>5

----
(* The inductive invariant.  The rank in Shape, which no node of the heap  *)
(* holds, says that no node is its own ancestor; without it there could be *)
(* rings of nodes apart from the root.  vs.layout = {} is part of Sound.   *)
IInv == /\ Sound(vs)
        /\ mode \in {"bsp", "other"}
        /\ tiled \subseteq Window
        /\ Running => Held(vs.heap) = tiled
        /\ mode = "other" => vs.tree = Null

(* The initial states.                                                     *)
LEMMA InitIsSound == Init /\ vs.layout = {} => IInv
<1> SUFFICES ASSUME Init, vs.layout = {}
             PROVE  IInv
  OBVIOUS
<1>1. vs = [tree |-> Null, layout |-> {}, heap |-> << >>, preselect |-> NoPreselect, crash |-> "no"]
  <2>1. PICK layout \in Layouts : vs = [tree |-> Null, layout |-> layout, heap |-> << >>,
                                       preselect |-> NoPreselect, crash |-> "no"]
    BY DEF Init
  <2>2. layout = {}
    BY <2>1
  <2> QED
    BY <2>1, <2>2
<1>2. DOMAIN vs.heap = {} /\ vs.heap = [n \in {} |-> vs.heap[n]]
  BY <1>1
<1>3. vs.heap \in Heaps
  <2>1. vs.heap \in [{} -> Record4]
    BY <1>2
  <2> QED
    BY <2>1, HeapOf
<1>4. Tree(vs.heap, vs.tree)
  <2>1. Shape(vs.heap, vs.tree)
    <3>1. [n \in {} |-> 0] \in [{} -> Nat]
      OBVIOUS
    <3>2. \E rank \in [DOMAIN vs.heap -> Nat] : TRUE
      BY <1>2, <3>1
    <3> QED
      BY <3>2, <1>1, <1>2 DEF Shape
  <2>2. Unique(vs.heap) /\ Zooms(vs.heap, vs.tree)
    BY <1>2 DEF Unique, Zooms
  <2> QED
    BY <2>1, <2>2, <1>3 DEF Tree
<1>5. vs \in Space /\ Chosen(vs)
  <2>1. NoPreselect \in [node : Pointer, left : BOOLEAN, stale : BOOLEAN] /\ Null \in Pointer
    BY DEF NoPreselect, Pointer
  <2> QED
    BY <2>1, <1>1, <1>3 DEF Space, Chosen
<1>6. Held(vs.heap) = {}
  BY <1>2 DEF Held
<1> QED
  BY <1>1, <1>4, <1>5, <1>6 DEF IInv, Sound, Init, Running

(* A list of a set, from the community modules, holds its elements once    *)
(* each.                                                                   *)
LEMMA ListOfSet ==
    ASSUME NEW S, IsFiniteSet(S), NEW s \in SetToSeqs(S)
    PROVE  /\ s \in Seq(S) /\ {s[j] : j \in 1..Len(s)} = S /\ ToSet(s) = S
           /\ \A i, j \in 1..Len(s) : s[i] = s[j] => i = j
<1> DEFINE n == Cardinality(S)
<1>1. n \in Nat
  BY FS_CardinalityType
<1>2. s \in [1..n -> S] /\ \A i, j \in 1..n : s[i] = s[j] => i = j
  BY DEF SetToSeqs
<1>3. IsFiniteSet(1..n) /\ Cardinality(1..n) = n
  BY <1>1, FS_Interval
<1>4. s \in Injection(1..n, S)
  BY <1>2 DEF Injection, IsInjective
<1> HIDE DEF n
<1>5. s \in Surjection(1..n, S)
  BY <1>3, <1>4, FS_Injection DEF n
<1>6. s \in Seq(S) /\ Len(s) = n /\ DOMAIN s = 1..n
  BY <1>1, <1>2
<1>7. {s[j] : j \in 1..n} = S
  BY <1>2, <1>5 DEF Surjection
<1> QED
  BY <1>2, <1>6, <1>7 DEF ToSet

(* So do the lists of windows of the handlers.                             *)
LEMMA ListOfWindows ==
    ASSUME NEW S, S \subseteq Window, NEW s \in Lists(S)
    PROVE  /\ s \in Seq(Window) /\ ToSet(s) = {s[j] : j \in 1..Len(s)} /\ ToSet(s) \subseteq Window
           /\ Distinct(s)
<1>1. PICK T \in SUBSET S : s \in SetToSeqs(T)
  BY DEF Lists
<1>2. IsFiniteSet(T)
  BY <1>1, BspAssumption, FS_Subset
<1>3. /\ s \in Seq(T) /\ {s[j] : j \in 1..Len(s)} = T /\ ToSet(s) = T
      /\ \A i, j \in 1..Len(s) : s[i] = s[j] => i = j
  BY <1>1, <1>2, ListOfSet
<1> QED
  BY <1>1, <1>3 DEF Distinct

(* Now the actions, one by one.  A window is tiled.                        *)
LEMMA TileStep ==
    ASSUME IInv, NEW w \in Window, TileWindow(w)
    PROVE  IInv'
<1>1. Sound(vs) /\ Held(vs.heap) = tiled /\ vs.crash = "no" /\ mode = "bsp" /\ tiled \subseteq Window
  BY DEF IInv, TileWindow, InBsp, Running
<1>2. PICK point \in Points : vs' = TileWindowOnSpace(vs, w, point)
  BY DEF TileWindow
<1>3. w \in Held(vs.heap) \/ Ready(vs)
  <2>1. w \in Held(vs.heap) \/ Room(vs, 1)
    BY <1>1, HeldWindows DEF TileWindow
  <2>2. Room(vs, 1) => Ready(vs)
    BY <1>1, RoomFits, FitsReady
  <2> QED
    BY <2>1, <2>2
<1>4. Sound(vs') /\ (vs'.crash = "no" => Added(vs, vs', w))
  BY <1>1, <1>2, <1>3, TileIsSound
<1>5. tiled' = tiled \union {w} /\ mode' = mode
  BY DEF TileWindow
<1> QED
  BY <1>1, <1>4, <1>5 DEF IInv, Running, Added

(* A window is untiled.                                                    *)
LEMMA UntileStep ==
    ASSUME IInv, NEW w \in Window, UntileWindow(w)
    PROVE  IInv'
<1>1. Sound(vs) /\ Held(vs.heap) = tiled /\ vs.crash = "no" /\ mode = "bsp" /\ tiled \subseteq Window
  BY DEF IInv, UntileWindow, InBsp, Running
<1>2. vs' = UntileWindowFromSpace(vs, w) /\ tiled' = tiled \ {w} /\ mode' = mode
  BY DEF UntileWindow
<1>3. Sound(vs') /\ Held(vs'.heap) = Held(vs.heap) \ {w}
  BY <1>1, <1>2, UntileIsSound
<1> QED
  BY <1>1, <1>2, <1>3 DEF IInv, Running

(* RebalanceWindowTree: the windows that are gone are untiled, those that  *)
(* are new are tiled, and the tree holds those of the space.               *)
LEMMA RebalanceStep ==
    ASSUME IInv, RebalanceWindowTree
    PROVE  IInv'
<1>1. Sound(vs) /\ Held(vs.heap) = tiled /\ vs.crash = "no" /\ mode = "bsp" /\ tiled \subseteq Window
      /\ mode' = mode
  BY DEF IInv, RebalanceWindowTree, InBsp, Running
<1>2. PICK gone \in SUBSET WindowsInTree(vs) :
        \E toRemove \in SetToSeqs(gone) :
          LET u == InTurn(UntileWindowFromSpace, vs, toRemove)
          IN \E added \in Lists(Window \ WindowsInTree(vs)), point \in Points \ gone :
                LET Tile(v, w) == TileWindowOnSpace(v, w, point)
                IN /\ Room(u, Len(added))
                   /\ vs' = InTurn(Tile, u, added)
                   /\ tiled' = (tiled \ gone) \union ToSet(added)
  BY Zenon DEF RebalanceWindowTree
<1>11. PICK toRemove \in SetToSeqs(gone) :
          LET u == InTurn(UntileWindowFromSpace, vs, toRemove)
          IN \E added \in Lists(Window \ WindowsInTree(vs)), point \in Points \ gone :
                LET Tile(v, w) == TileWindowOnSpace(v, w, point)
                IN /\ Room(u, Len(added))
                   /\ vs' = InTurn(Tile, u, added)
                   /\ tiled' = (tiled \ gone) \union ToSet(added)
  BY <1>2, Zenon
<1> DEFINE u == UntileAll(vs, toRemove)
<1>3. PICK added \in Lists(Window \ WindowsInTree(vs)), point \in Points \ gone :
                /\ Room(u, Len(added))
                /\ vs' = TileAll(u, added, point)
                /\ tiled' = (tiled \ gone) \union ToSet(added)
  BY <1>11, Zenon DEF InTurn, UntileAll, TileAll
<1> HIDE DEF u
<1>4. /\ toRemove \in Seq(gone) /\ {toRemove[j] : j \in 1..Len(toRemove)} = gone
      /\ gone \subseteq Window
  <2>1. gone \subseteq Window /\ IsFiniteSet(gone)
    BY <1>1, HeldWindows, BspAssumption, FS_Subset
  <2> QED
    BY <2>1, ListOfSet
<1>5. Sound(u) /\ u.crash = vs.crash /\ Held(u.heap) = Held(vs.heap) \ gone
  BY <1>1, <1>4, UntileAllIsSound DEF u
<1>6. added \in Seq(Window) /\ ToSet(added) = {added[j] : j \in 1..Len(added)} /\ ToSet(added) \subseteq Window
  BY ListOfWindows
<1>7. Fits(u, Len(added))
  <2>1. Len(added) \in Nat
    BY <1>6
  <2> QED
    BY <2>1, <1>3, <1>5, RoomFits
<1>8. /\ Sound(vs')
      /\ vs'.crash = "no" => Held(vs'.heap) = Held(u.heap) \union {added[j] : j \in 1..Len(added)}
  BY <1>3, <1>5, <1>6, <1>7, TileAllIsSound
<1>9. vs'.crash = "no" => Held(vs'.heap) = tiled'
  BY <1>1, <1>3, <1>5, <1>6, <1>8
<1>10. tiled' \subseteq Window
  BY <1>1, <1>3, <1>6
<1> QED
  BY <1>1, <1>8, <1>9, <1>10 DEF IInv, Running

(* CreateWindowTree, where there is no tree.                               *)
LEMMA CreateIsSound ==
    ASSUME NEW v, Sound(v), v.tree = Null, NEW s \in Lists(Window), Room(v, Len(s)),
           NEW u, u = CreateWindowTree(v, s)
    PROVE  Sound(u) /\ u.crash = v.crash /\ Held(u.heap) = ToSet(s) /\ ToSet(s) \subseteq Window
<1>1. DOMAIN v.heap = {} /\ v.layout = {}
  BY SoundTree DEF Space
<1>2. Held(v.heap) = {} /\ Idle(v)
  BY <1>1 DEF Held, Idle, Sound, Chosen
<1>3. /\ s \in Seq(Window) /\ ToSet(s) = {s[j] : j \in 1..Len(s)} /\ ToSet(s) \subseteq Window
      /\ Distinct(s)
  BY ListOfWindows
<1>4. CASE s = <<>>
  <2>1. u = v /\ ToSet(s) = {}
    BY <1>3, <1>4 DEF CreateWindowTree
  <2> QED
    BY <2>1, <1>2
<1>5. CASE s # <<>>
  <2>1. u = AddAll(v, s)
    BY <1>1, <1>5 DEF CreateWindowTree, InTurn, AddAll
  <2>2. Fits(v, Len(s))
    <3>1. Len(s) \in Nat
      BY <1>3
    <3> QED
      BY <3>1, RoomFits
  <2>3. Sound(u)
    BY <2>1, <2>2, <1>2, <1>3, AddAllIsSound
  <2>4. u.crash = v.crash
    BY <2>1, <2>2, <1>2, <1>3, AddAllIsSound
  <2>5. Holds(u, ToSet(s))
    BY <2>1, <2>2, <1>2, <1>3, AddAllIsSound
  <2> QED
    BY <2>3, <2>4, <2>5, <1>3 DEF Holds
<1> QED
  BY <1>4, <1>5

(* The space and its display change, and the tree is rebalanced.           *)
LEMMA SpaceAndDisplayChangedStep ==
    ASSUME IInv, NEW windows \in Lists(Window), SpaceAndDisplayChanged(windows)
    PROVE  IInv'
<1>1. Sound(vs) /\ vs.crash = "no" /\ mode = "bsp" /\ vs.tree = Null /\ mode' = mode
      /\ Room(vs, Len(windows)) /\ vs' = CreateWindowTree(vs, windows) /\ tiled' = ToSet(windows)
  BY DEF IInv, SpaceAndDisplayChanged, InBsp, Running
<1>2. Sound(vs') /\ Held(vs'.heap) = ToSet(windows) /\ ToSet(windows) \subseteq Window
  BY <1>1, CreateIsSound
<1> QED
  BY <1>1, <1>2 DEF IInv, Running

(* The layout of the desktop becomes bsp, and the tree is built.           *)
LEMMA EnterBspStep ==
    ASSUME IInv, NEW windows \in Lists(Window), EnterBsp(windows)
    PROVE  IInv'
<1>1. Sound(vs) /\ vs.crash = "no" /\ vs.tree = Null /\ mode' = "bsp"
      /\ Room(vs, Len(windows)) /\ vs' = CreateWindowTree(vs, windows) /\ tiled' = ToSet(windows)
  BY DEF IInv, EnterBsp, Running
<1>2. Sound(vs') /\ Held(vs'.heap) = ToSet(windows) /\ ToSet(windows) \subseteq Window
  BY <1>1, CreateIsSound
<1> QED
  BY <1>1, <1>2 DEF IInv, Running

(* The layout becomes another one, and all the nodes are freed.            *)
LEMMA LeaveBspStep ==
    ASSUME IInv, LeaveBsp
    PROVE  IInv'
<1>1. Sound(vs) /\ vs' = FreeNodeTree(vs) /\ mode' = "other" /\ tiled' = {}
  BY DEF IInv, LeaveBsp
<1>2. vs' = [Free(vs, DOMAIN vs.heap) EXCEPT !.tree = Null]
  <2>1. TreeNodes(vs) = DOMAIN vs.heap
    BY <1>1, SoundTree, NodesOfTree
  <2> QED
    BY <2>1, <1>1 DEF FreeNodeTree
<1> DEFINE nodes == DOMAIN vs.heap
<1>3. Sound(vs') /\ vs'.tree = Null /\ DOMAIN vs'.heap = {}
  <2>1. nodes = DOMAIN vs.heap /\ vs' = [Free(vs, nodes) EXCEPT !.tree = Null]
    BY <1>2
  <2> HIDE DEF nodes
  <2>2. Sound(vs')
    BY <2>1, <1>1, FreeAllIsSound
  <2>3. vs'.tree = Null
    BY <2>1, <1>1, FreeAllIsSound
  <2>4. DOMAIN vs'.heap = {}
    BY <2>1, <1>1, FreeAllIsSound
  <2> QED
    BY <2>2, <2>3, <2>4
<1>4. Held(vs'.heap) = {}
  BY <1>3 DEF Held
<1> QED
  BY <1>1, <1>3, <1>4 DEF IInv

(* Two windows are swapped.                                                *)
LEMMA SwapStep ==
    ASSUME IInv, NEW w \in Window, NEW closest \in Window, SwapWindow(w, closest)
    PROVE  IInv'
<1> DEFINE a == GetNodeWithId(vs, w)
           b == GetNodeWithId(vs, closest)
<1>1. /\ Sound(vs) /\ Held(vs.heap) = tiled /\ vs.crash = "no" /\ mode = "bsp" /\ tiled \subseteq Window
      /\ w # closest /\ w \in Held(vs.heap) /\ closest \in Held(vs.heap)
      /\ vs' = SwapNodeIds(vs, a, b) /\ mode' = mode /\ tiled' = tiled
  BY HeldWindows DEF IInv, SwapWindow, InBsp, Running
<1>2. a \in DOMAIN vs.heap /\ vs.heap[a].win = w /\ w # Root
  BY <1>1, NodeOfWindow
<1>3. b \in DOMAIN vs.heap /\ vs.heap[b].win = closest /\ closest # Root
  BY <1>1, NodeOfWindow
<1> HIDE DEF a, b
<1>4. Sound(vs') /\ Held(vs'.heap) = Held(vs.heap)
  BY <1>1, <1>2, <1>3, SwapIsSound
<1> QED
  BY <1>1, <1>4 DEF IInv, Running

(* A window is warped to another: untiled, and tiled again beside it.      *)
LEMMA WarpStep ==
    ASSUME IInv, NEW w \in Window, NEW closest \in Window, WarpWindow(w, closest)
    PROVE  IInv'
<1> DEFINE a == GetNodeWithId(vs, w)
           b == GetNodeWithId(vs, closest)
           u == UntileWindowFromSpace(vs, w)
<1>1. /\ Sound(vs) /\ Held(vs.heap) = tiled /\ vs.crash = "no" /\ mode = "bsp" /\ tiled \subseteq Window
      /\ w # closest /\ closest \in Held(vs.heap) /\ mode' = mode /\ tiled' = tiled
  BY HeldWindows DEF IInv, WarpWindow, InBsp, Running
<1>2. (CASE a = Null -> vs' = [vs EXCEPT !.crash = "WindowNode"]
         [] a # Null /\ vs.heap[a].parent = vs.heap[b].parent -> vs' = SwapNodeIds(vs, a, b)
         [] OTHER -> vs' \in {[u EXCEPT !.crash = "FocusedNode"], TileWindowOnSpace(u, w, closest)})
  BY DEF WarpWindow
<1>3. /\ a # Null => a \in DOMAIN vs.heap /\ vs.heap[a].win = w /\ w # Root
      /\ w \in Held(vs.heap) <=> a # Null
  BY <1>1, NodeOfWindow
<1>4. b \in DOMAIN vs.heap /\ vs.heap[b].win = closest /\ closest # Root
  BY <1>1, NodeOfWindow
<1>5. /\ Sound(u) /\ Held(u.heap) = Held(vs.heap) \ {w} /\ u.crash = vs.crash
      /\ w \in Held(vs.heap) => Ready(u)
  BY <1>1, UntileIsSound
<1> HIDE DEF a, b, u
<1>6. /\ a = Null => vs' = [vs EXCEPT !.crash = "WindowNode"]
      /\ a # Null /\ vs.heap[a].parent = vs.heap[b].parent => vs' = SwapNodeIds(vs, a, b)
      /\ a # Null /\ vs.heap[a].parent # vs.heap[b].parent =>
            vs' \in {[u EXCEPT !.crash = "FocusedNode"], TileWindowOnSpace(u, w, closest)}
  BY <1>2
<1>7. CASE a = Null
  <2>1. Sound(vs') /\ vs'.crash = "WindowNode"
    BY <1>1, <1>6, <1>7 DEF Sound, Chosen, Space
  <2> QED
    BY <2>1, <1>1 DEF IInv, Running
<1>8. CASE a # Null /\ vs.heap[a].parent = vs.heap[b].parent
  <2>1. Sound(vs') /\ Held(vs'.heap) = Held(vs.heap)
    BY <1>1, <1>3, <1>4, <1>6, <1>8, SwapIsSound
  <2> QED
    BY <2>1, <1>1 DEF IInv, Running
<1>9. CASE a # Null /\ vs.heap[a].parent # vs.heap[b].parent
  <2>1. CASE vs' = [u EXCEPT !.crash = "FocusedNode"]
    <3>1. Sound(vs') /\ vs'.crash = "FocusedNode"
      BY <2>1, <1>5 DEF Sound, Chosen, Space
    <3> QED
      BY <3>1, <1>1 DEF IInv, Running
  <2>2. CASE vs' = TileWindowOnSpace(u, w, closest)
    <3>1. Sound(vs') /\ (vs'.crash = "no" => Added(u, vs', w))
      BY <2>2, <1>3, <1>5, <1>9, TileIsSound
    <3>2. vs'.crash = "no" => Held(vs'.heap) = tiled
      BY <3>1, <1>1, <1>3, <1>5, <1>9 DEF Added
    <3> QED
      BY <3>1, <3>2, <1>1 DEF IInv, Running
  <2> QED
    BY <2>1, <2>2, <1>6, <1>9
<1> QED
  BY <1>7, <1>8, <1>9

(* The actions that move no window keep the invariant by what Alike says.  *)
LEMMA AlikeStep ==
    ASSUME IInv, InBsp, Alike(vs, vs'), UNCHANGED <<mode, tiled>>
    PROVE  IInv'
  BY DEF IInv, InBsp, Running, Alike

(* The fullscreen zoom of the focused window.                              *)
LEMMA FullscreenStep ==
    ASSUME IInv, NEW w \in Window, ToggleWindowFullscreenZoom(w)
    PROVE  IInv'
<1> DEFINE n == GetNodeWithId(vs, w)
<1>1. Sound(vs) /\ InBsp /\ w \in Held(vs.heap) /\ UNCHANGED <<mode, tiled>>
  BY HeldWindows DEF IInv, ToggleWindowFullscreenZoom, Focused
<1>2. n \in DOMAIN vs.heap
  BY <1>1, NodeOfWindow
<1>3. vs' = Fullscreen(vs, n)
  BY DEF ToggleWindowFullscreenZoom, Fullscreen
<1> HIDE DEF n
<1>4. Alike(vs, vs')
  BY <1>1, <1>2, <1>3, FullscreenIsSound
<1> QED
  BY <1>1, <1>4, AlikeStep

(* Its zoom to the parent.                                                 *)
LEMMA ParentZoomStep ==
    ASSUME IInv, NEW w \in Window, ToggleWindowParentZoom(w)
    PROVE  IInv'
<1> DEFINE n == GetNodeWithId(vs, w)
<1>1. Sound(vs) /\ InBsp /\ w \in Held(vs.heap) /\ UNCHANGED <<mode, tiled>>
  BY HeldWindows DEF IInv, ToggleWindowParentZoom, Focused
<1>2. n \in DOMAIN vs.heap
  BY <1>1, NodeOfWindow
<1>3. vs' = ParentZoom(vs, n) /\ vs.heap[n].parent # Null
  BY DEF ToggleWindowParentZoom, ParentZoom
<1> HIDE DEF n
<1>4. Alike(vs, vs')
  BY <1>1, <1>2, <1>3, ToggleParentIsSound
<1> QED
  BY <1>1, <1>4, AlikeStep

(* A preselection, set or cleared.                                         *)
LEMMA InsertionPointStep ==
    ASSUME IInv, NEW w \in Window, UseInsertionPoint(w)
    PROVE  IInv'
<1> DEFINE n == GetNodeWithId(vs, w)
<1>1. Sound(vs) /\ InBsp /\ w \in Held(vs.heap) /\ UNCHANGED <<mode, tiled>>
  BY HeldWindows DEF IInv, UseInsertionPoint, Focused
<1>2. n \in DOMAIN vs.heap /\ vs.heap[n].win # Root
  BY <1>1, NodeOfWindow
<1>3. PICK left \in BOOLEAN :
        \/ vs' = [vs EXCEPT !.preselect = NoPreselect]
        \/ vs' = [vs EXCEPT !.preselect = [node |-> n, left |-> left, stale |-> FALSE]]
  BY DEF UseInsertionPoint
<1> HIDE DEF n
<1>4. /\ vs \in Space /\ n \in Pointer
  BY <1>1, <1>2, SoundTree DEF Pointer
<1>5. CASE vs' = [vs EXCEPT !.preselect = NoPreselect]
  <2>1. NoPreselect \in [node : Pointer, left : BOOLEAN, stale : BOOLEAN]
    BY DEF NoPreselect, Pointer
  <2>2. vs' \in Space /\ vs'.heap = vs.heap /\ vs'.tree = vs.tree /\ vs'.crash = vs.crash
        /\ vs'.preselect = NoPreselect
    BY <2>1, <1>4, <1>5 DEF Space
  <2>3. Alike(vs, vs')
    BY <2>2, <1>1 DEF Alike, Sound, Chosen
  <2> QED
    BY <2>3, <1>1, AlikeStep
<1>6. CASE vs' = [vs EXCEPT !.preselect = [node |-> n, left |-> left, stale |-> FALSE]]
  <2> DEFINE q == [node |-> n, left |-> left, stale |-> FALSE]
  <2>1. q \in [node : Pointer, left : BOOLEAN, stale : BOOLEAN] /\ q.node = n
    BY <1>4
  <2>2. vs' = [vs EXCEPT !.preselect = q]
    BY <1>6
  <2> HIDE DEF q
  <2>3. vs' \in Space /\ vs'.heap = vs.heap /\ vs'.tree = vs.tree /\ vs'.crash = vs.crash
        /\ vs'.preselect = q
    BY <2>1, <2>2, <1>4 DEF Space
  <2>4. Alike(vs, vs')
    BY <2>1, <2>3, <1>1, <1>2 DEF Alike, Sound, Chosen
  <2> QED
    BY <2>4, <1>1, AlikeStep
<1> QED
  BY <1>3, <1>5, <1>6

(* The tree is rotated or mirrored.                                        *)
LEMMA RotateOrMirrorStep ==
    ASSUME IInv, RotateOrMirrorTree
    PROVE  IInv'
<1>1. Sound(vs) /\ InBsp /\ UNCHANGED <<mode, tiled>>
  BY DEF IInv, RotateOrMirrorTree
<1>2. \E nodes : vs' = [vs EXCEPT !.heap = Turned(vs.heap, nodes)]
  BY DEF RotateOrMirrorTree, Turned
<1>3. PICK nodes : vs' = [vs EXCEPT !.heap = Turned(vs.heap, nodes)]
  BY <1>2
<1>4. Alike(vs, vs')
  BY <1>1, <1>3, TurnIsSound DEF Alike
<1> QED
  BY <1>1, <1>4, AlikeStep

(* Every step keeps the inductive invariant.                               *)
LEMMA NextIsSound == IInv /\ [Next]_vars => IInv'
<1> SUFFICES ASSUME IInv, [Next]_vars
             PROVE  IInv'
  OBVIOUS
<1>1. ASSUME NEW w \in Window, TileWindow(w) PROVE IInv'
  BY <1>1, TileStep
<1>2. ASSUME NEW w \in Window, UntileWindow(w) PROVE IInv'
  BY <1>2, UntileStep
<1>3. ASSUME NEW w \in Window, ToggleWindowFullscreenZoom(w) PROVE IInv'
  BY <1>3, FullscreenStep
<1>4. ASSUME NEW w \in Window, ToggleWindowParentZoom(w) PROVE IInv'
  BY <1>4, ParentZoomStep
<1>5. ASSUME NEW w \in Window, UseInsertionPoint(w) PROVE IInv'
  BY <1>5, InsertionPointStep
<1>6. ASSUME NEW w \in Window, NEW closest \in Window, SwapWindow(w, closest) PROVE IInv'
  BY <1>6, SwapStep
<1>7. ASSUME NEW w \in Window, NEW closest \in Window, WarpWindow(w, closest) PROVE IInv'
  BY <1>7, WarpStep
<1>8. ASSUME NEW windows \in Lists(Window), SpaceAndDisplayChanged(windows) PROVE IInv'
  BY <1>8, SpaceAndDisplayChangedStep
<1>9. ASSUME NEW windows \in Lists(Window), EnterBsp(windows) PROVE IInv'
  BY <1>9, EnterBspStep
<1>10. ASSUME NEW windows \in Lists(Window), DeserializeDesktop(windows) PROVE IInv'
  BY <1>10 DEF DeserializeDesktop, IInv, Sound, Space
<1>11. CASE RebalanceWindowTree
  BY <1>11, RebalanceStep
<1>12. CASE RotateOrMirrorTree
  BY <1>12, RotateOrMirrorStep
<1>13. CASE LeaveBsp
  BY <1>13, LeaveBspStep
<1>14. CASE UNCHANGED vars
  BY <1>14 DEF vars, IInv, Running
<1> QED
  BY <1>1, <1>2, <1>3, <1>4, <1>5, <1>6, <1>7, <1>8, <1>9, <1>10, <1>11, <1>12, <1>13, <1>14 DEF Next

----
(* What the inductive invariant says, in terms of the properties.          *)
LEMMA KidsOf ==
    ASSUME NEW v, Sound(v), NEW n \in DOMAIN v.heap, NEW kids, kids = ToSet(Children(v, n))
    PROVE  /\ v.heap[n].win = Root => /\ kids = {v.heap[n].left, v.heap[n].right}
                                      /\ v.heap[n].left # v.heap[n].right
                                      /\ Cardinality(kids) = 2
           /\ v.heap[n].win # Root => kids = {} /\ Cardinality(kids) = 0
<1>1. v.heap \in Heaps /\ Shape(v.heap, v.tree)
  BY SoundTree
<1>2. CASE v.heap[n].win = Root
  <2> DEFINE l == v.heap[n].left
             r == v.heap[n].right
  <2>1. Children(v, n) = <<l, r>> /\ l # r
    BY <1>1, <1>2, ChildrenOf, BspAssumption DEF Shape
  <2>2. kids = {l, r}
    BY <2>1 DEF ToSet
  <2>3. Cardinality({l, r}) = 2
    <3> HIDE DEF l, r
    <3>1. IsFiniteSet({l}) /\ Cardinality({l}) = 1
      BY FS_Singleton
    <3>2. Cardinality({l} \union {r}) = Cardinality({l}) + 1
      BY <2>1, <3>1, FS_AddElement
    <3>3. {l} \union {r} = {l, r}
      OBVIOUS
    <3> QED
      BY <3>1, <3>2, <3>3
  <2> QED
    BY <2>1, <2>2, <2>3, <1>2
<1>3. CASE v.heap[n].win # Root
  <2>1. Children(v, n) = <<>>
    BY <1>1, <1>3, ChildrenOf
  <2>2. kids = {}
    BY <2>1 DEF ToSet
  <2> QED
    BY <2>2, <1>3, FS_EmptySet
<1> QED
  BY <1>2, <1>3

(* The heap is a proper tree: BreadthFirst meets each node once, and so    *)
(* nothing is reached twice or not at all.                                 *)
LEMMA SoundIsProper == IInv => ProperTree
<1> SUFFICES ASSUME IInv
             PROVE  ProperTree
  OBVIOUS
<1>1. Sound(vs) /\ Shape(vs.heap, vs.tree) /\ vs.heap \in Heaps
  BY SoundTree DEF IInv
<1>2. IsInjective(BreadthFirst(vs)) /\ TreeNodes(vs) = DOMAIN vs.heap
  BY <1>1, NodesOfTree
<1>3. vs.tree # Null => vs.heap[vs.tree].parent = Null
  BY <1>1 DEF Shape
<1>4. ASSUME NEW n \in DOMAIN vs.heap, NEW kids, kids = ToSet(Children(vs, n))
      PROVE  /\ Cardinality(kids) \in {0, 2}
             /\ \A k \in kids : /\ k \in DOMAIN vs.heap
                                /\ vs.heap[k].parent = n
                                /\ IsLeafNode(vs, n) <=> vs.heap[k].win = Pseudo
             /\ ~IsLeafNode(vs, n) => kids # {}
  <2>1. CASE vs.heap[n].win = Root
    <3>1. Cardinality(kids) = 2 /\ kids = {vs.heap[n].left, vs.heap[n].right}
      BY <2>1, <1>1, <1>4, KidsOf
    <3>2. \A k \in kids : k \in DOMAIN vs.heap /\ vs.heap[k].parent = n
      BY <2>1, <3>1, <1>1, BspAssumption DEF Shape
    <3>3. \A k \in kids : vs.heap[k].win # Pseudo
      BY <3>2, <1>1, BspAssumption DEF Shape
    <3> QED
      BY <2>1, <3>1, <3>2, <3>3 DEF IsLeafNode
  <2>2. CASE vs.heap[n].win # Root
    <3>1. kids = {} /\ Cardinality(kids) = 0
      BY <2>2, <1>1, <1>4, KidsOf
    <3> QED
      BY <2>2, <3>1 DEF IsLeafNode
  <2> QED
    BY <2>1, <2>2
<1> QED
  BY <1>2, <1>3, <1>4 DEF ProperTree

(* The windows in the tree are the tiled ones, each in one leaf.           *)
LEMMA SoundHoldsEachOnce == IInv => EachWindowOnce
<1> SUFFICES ASSUME IInv, Running, NEW w \in Window
             PROVE  Cardinality({n \in Leaves(vs) : vs.heap[n].win = w}) = IF w \in tiled THEN 1 ELSE 0
  BY DEF EachWindowOnce
<1>1. /\ Sound(vs) /\ vs.heap \in Heaps /\ Shape(vs.heap, vs.tree) /\ Unique(vs.heap)
      /\ Held(vs.heap) = tiled /\ w # Root
  BY SoundTree, BspAssumption DEF IInv, Tree
<1>2. Leaves(vs) = {n \in DOMAIN vs.heap : vs.heap[n].win # Root}
  BY <1>1, NodesOfTree
<1> DEFINE N == {n \in Leaves(vs) : vs.heap[n].win = w}
<1>3. CASE w \in tiled
  <2>1. PICK n \in DOMAIN vs.heap : vs.heap[n].win = w
    BY <1>1, <1>3 DEF Held
  <2>2. N = {n}
    BY <2>1, <1>1, <1>2 DEF Unique
  <2> QED
    BY <2>2, <1>3, FS_Singleton
<1>4. CASE w \notin tiled
  <2>1. N = {}
    BY <1>1, <1>2, <1>4 DEF Held
  <2> QED
    BY <2>1, <1>4, FS_EmptySet
<1> QED
  BY <1>3, <1>4

(* The pointers beside those of the tree.                                  *)
LEMMA SoundPointers == IInv => PointersAreSound
<1> SUFFICES ASSUME IInv
             PROVE  PointersAreSound
  OBVIOUS
<1>1. /\ Sound(vs) /\ vs \in Space /\ vs.heap \in Heaps /\ Shape(vs.heap, vs.tree)
      /\ Zooms(vs.heap, vs.tree) /\ Chosen(vs)
      /\ DOMAIN vs.heap \subseteq Node /\ vs.tree \in DOMAIN vs.heap \union {Null}
  BY SoundTree DEF IInv, Sound, Tree
<1>2. TreeNodes(vs) = DOMAIN vs.heap /\ Leaves(vs) = {n \in DOMAIN vs.heap : vs.heap[n].win # Root}
  BY <1>1, NodesOfTree
<1>3. TypeOK
  <2>1. vs.heap \in [DOMAIN vs.heap -> Record4]
    BY <1>1, HeapTypes
  <2>2. /\ vs.preselect \in [node : Pointer, left : BOOLEAN, stale : BOOLEAN]
        /\ vs.crash \in {"no", "WindowNode", "FocusedNode", "freed"}
    BY <1>1 DEF Space
  <2>3. mode \in {"bsp", "other"} /\ tiled \subseteq Window
    BY DEF IInv
  <2> QED
    BY <2>1, <2>2, <2>3, <1>1 DEF TypeOK, Record4
<1>4. ParentZoomIsChild
  <2> SUFFICES ASSUME NEW n \in DOMAIN vs.heap \ {vs.tree}, vs.heap[n].zoom # Null
               PROVE  vs.heap[n].zoom \in ToSet(Children(vs, n))
    BY <1>2 DEF ParentZoomIsChild
  <2>1. vs.heap[n].zoom \in {vs.heap[n].left, vs.heap[n].right}
    BY <1>1 DEF Zooms
  <2>2. vs.heap[n].win = Root
    BY <2>1, <1>1 DEF Shape
  <2>3. ToSet(Children(vs, n)) = {vs.heap[n].left, vs.heap[n].right}
    BY <2>2, <1>1, KidsOf
  <2> QED
    BY <2>1, <2>3
<1>5. OneZoom
  BY <1>1, <1>2 DEF OneZoom, Zooms
<1>6. PreselectIsLeaf
  BY <1>1, <1>2 DEF PreselectIsLeaf, Chosen, Shape
<1> QED
  BY <1>3, <1>4, <1>5, <1>6 DEF PointersAreSound

(* What is allocated is in the tree.                                       *)
LEMMA SoundHasNoLeak == IInv => NoLeak
<1> SUFFICES ASSUME IInv
             PROVE  TreeNodes(vs) = DOMAIN vs.heap
  BY DEF NoLeak
<1>1. vs.heap \in Heaps /\ Shape(vs.heap, vs.tree)
  BY SoundTree DEF IInv
<1> QED
  BY <1>1, NodesOfTree

(***************************************************************************)
(* Where no layout is configured, whatever sequence of commands and events *)
(* tiles, untiles, swaps, warps, rotates and rebalances the windows of a   *)
(* virtual space: the inductive invariant.                                 *)
(***************************************************************************)
THEOREM SoundAlways == Spec /\ vs.layout = {} => []IInv
<1>1. Init /\ vs.layout = {} => IInv
  BY InitIsSound
<1>2. IInv /\ [Next]_vars => IInv'
  BY NextIsSound
<1> QED
  BY <1>1, <1>2, PTL DEF Spec

(***************************************************************************)
(* "The binary-tree is always proper" (node.cpp): after every operation     *)
(* every node under the root has two children or none, that point back to  *)
(* it, and no node is reached twice.                                       *)
(***************************************************************************)
THEOREM TreeIsProper == Spec /\ vs.layout = {} => []ProperTree
<1>1. IInv => ProperTree
  BY SoundIsProper
<1> QED
  BY <1>1, SoundAlways, PTL

(***************************************************************************)
(* The operations lose no window and tile none twice, until an assertion   *)
(* fails or the preselection of a freed node is used.                      *)
(***************************************************************************)
THEOREM WindowsAreHeldOnce == Spec /\ vs.layout = {} => []EachWindowOnce
<1>1. IInv => EachWindowOnce
  BY SoundHoldsEachOnce
<1> QED
  BY <1>1, SoundAlways, PTL

(***************************************************************************)
(* The nodes have their types; a parent-zoom is of a child, no node is in   *)
(* both zooms, and a preselection that was not freed is of a leaf.         *)
(***************************************************************************)
THEOREM PointersStaySound == Spec /\ vs.layout = {} => []PointersAreSound
<1>1. IInv => PointersAreSound
  BY SoundPointers
<1> QED
  BY <1>1, SoundAlways, PTL

(***************************************************************************)
(* Every malloc of a node is matched: what is allocated is in the tree.    *)
(***************************************************************************)
THEOREM NodesDoNotLeak == Spec /\ vs.layout = {} => []NoLeak
<1>1. IInv => NoLeak
  BY SoundHasNoLeak
<1> QED
  BY <1>1, SoundAlways, PTL
====
