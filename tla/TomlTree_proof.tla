---------------------------- MODULE TomlTree_proof ----------------------------
(* The tree that root_from_syntax builds is one, whatever the text, the keys and *)
(* the values: each node has one parent, the table that entries go to is below   *)
(* the root, and so is everything that a key comes to.  Nothing is taken away    *)
(* from it, and so no error is ever lost.                                        *)
(*                                                                               *)
(* The invariant is Shape: the nodes are a Heap, where all and lookup of a table *)
(* agree; below the document and the values that are being read they are a       *)
(* Forest; the values are Stacked, each within the one before; and keys are      *)
(* Walking from a table that is reached.  A step is a chain of small changes of  *)
(* the heap, so the lemmas are first about these, then about the operations on   *)
(* keys, then about the actions.                                                 *)
(*                                                                               *)
(* The second part is about the readers: flat_iter lists all that is reached,    *)
(* and path leads back to it.                                                    *)
EXTENDS TomlDom, SequenceTheorems, FiniteSetTheorems, WellFoundedInduction, TLAPS

\* The steps of paths.
AllSteps == {Step(k) : k \in Keys} \cup {Item(n) : n \in Nat}

-----------------------------------------------------------------------------
(* The heap of nodes *)

\* The records of nodes, and their numbers.
Kinds == Tables \cup Arrays \cup {"scalar"}
Errors == {"ConflictingKeys", "ExpectedTable", "ExpectedArrayOfTables"}
Lookups == UNION {[S -> Nat] : S \in SUBSET Keys}
NodeRec == [kind : Kinds, header : BOOLEAN, all : Seq([key : Keys, node : Nat]),
            lookup : Lookups, items : Seq(Nat), errors : SUBSET Errors]
Ids(ns) == 1..Len(ns)

\* What all and lookup have in common, and what a node without errors has more.
Agrees(n, m) ==
  /\ \A i \in 1..Len(n.all) : n.all[i].node \in 1..m /\ n.all[i].key \in DOMAIN n.lookup
  /\ \A k \in DOMAIN n.lookup :
        \E i \in 1..Len(n.all) : n.all[i].key = k /\ n.all[i].node = n.lookup[k]
  /\ n.errors = {} => \A i \in 1..Len(n.all) : n.lookup[n.all[i].key] = n.all[i].node
  /\ n.kind \notin Tables => n.all = << >>
  /\ n.kind \notin Arrays => n.items = << >>
  /\ \A i \in 1..Len(n.items) : n.items[i] \in 1..m

\* A heap of nodes: every reference leads to one of them.
Heap(ns) == ns \in Seq(NodeRec) /\ \A x \in Ids(ns) : Agrees(ns[x], Len(ns))

\* y is below x, at step s.
Edge(ns, x, s, y) ==
  \/ \E i \in 1..Len(ns[x].all) : s = Step(ns[x].all[i].key) /\ y = ns[x].all[i].node
  \/ \E i \in 1..Len(ns[x].items) : s = Item(i) /\ y = ns[x].items[i]
Kid(ns, x, y) ==
  \/ \E i \in 1..Len(ns[x].all) : y = ns[x].all[i].node
  \/ \E i \in 1..Len(ns[x].items) : y = ns[x].items[i]

\* A node has one parent, but for the roots: the document and the open values.
Forest(ns, roots) ==
  /\ roots \subseteq Ids(ns)
  /\ \A x, z, y \in Ids(ns) : Kid(ns, x, y) /\ Kid(ns, z, y) => x = z
  /\ \A x \in Ids(ns), y \in roots : ~Kid(ns, x, y)

\* There is a walk of kids from r to x.
Reach(ns, r, x) ==
  \E n \in Nat : \E w \in [0..n -> Ids(ns)] :
    w[0] = r /\ w[n] = x /\ \A i \in 1..n : Kid(ns, w[i - 1], w[i])

-----------------------------------------------------------------------------
(* The shape of the tree *)

\* A value that is being read.
IsFrame(f) ==
  /\ f.value \in Values /\ f.keys \in Seq(Keys) /\ f.next \in Nat \ {0} /\ f.id \in Nat

\* The values that are being read, each within the one before.
Stacked(ns, stack) ==
  /\ Len(stack) \in Nat \ {0} /\ stack = [i \in 1..Len(stack) |-> stack[i]]
  /\ \A i \in 1..Len(stack) :
        stack[i] = [id |-> stack[i].id, value |-> stack[i].value,
                    keys |-> stack[i].keys, next |-> stack[i].next]
  /\ stack[1].id = Root /\ stack[1].value.kind = "document" /\ stack[1].next \in Nat
  /\ \A i \in 2..Len(stack) :
        /\ IsFrame(stack[i]) /\ ns[stack[i].id].kind = stack[i].value.kind
        /\ stack[i].keys = << >> => stack[i - 1].value.kind = "list"
        /\ stack[i].keys # << >> => i = 2 \/ stack[i - 1].value.kind = "inline"
  /\ \A i, j \in 1..Len(stack) : stack[i].id = stack[j].id => i = j

\* The document and the values that are being read.
Roots(stack) == {stack[i].id : i \in 1..Len(stack)}

\* A table below r.
TableOf(ns, r, x) == x \in Ids(ns) /\ IsTable(ns, x) /\ Reach(ns, r, x)

\* Where the keys have come to.
Walking ==
  /\ pc \in {"read", "table", "tables", "entry"}
  /\ pc \in {"table", "tables"} =>
        Len(reading) = 1 /\ walk.keys \in Dotted /\ TableOf(nodes, Root, walk.id)
  /\ pc = "entry" =>
        /\ Len(reading) > 1 /\ Top.keys # << >> /\ walk.keys \in Dotted
        /\ TableOf(nodes, reading[Len(reading) - 1].id, walk.id)

\* The shape of the tree, whatever the text.
Shape ==
  /\ Heap(nodes)
  /\ Stacked(nodes, reading)
  /\ Forest(nodes, Roots(reading))
  /\ TableOf(nodes, Root, Root) /\ TableOf(nodes, Root, current)
  /\ Walking

\* Some node of the document, or of a value that will be put into it, has an error.
FaultyIn(ns, stack) == \E i \in 1..Len(stack) : \E x \in Ids(ns) :
                          Reach(ns, stack[i].id, x) /\ ns[x].errors # {}
Faulty == FaultyIn(nodes, reading)

\* No node has an error.
Faultless == \A x \in Ids(nodes) : nodes[x].errors = {}

-----------------------------------------------------------------------------
(* Sequences and numbers *)

\* A set of numbers that is not empty has a least member.
LEMMA LeastNumber ==
  ASSUME NEW S, S \subseteq Nat, S # {}
  PROVE  \E x \in S : \A y \in S : x <= y
<1> DEFINE R == OpToRel(<, Nat)
<1>1. \E x \in S : \A y \in S : ~(<<y, x>> \in R)
  <2>1. IsWellFoundedOn(R, Nat)
    BY NatLessThanWellFounded
  <2> QED BY <2>1, WFMin
<1>2. \A x, y \in S : <<y, x>> \in R <=> y < x
  BY DEF OpToRel
<1> HIDE DEF R
<1>3. \A x, y \in S : y < x \/ x <= y
  OBVIOUS
<1> QED BY <1>1, <1>2, <1>3

\* Induction up to a number, for a set.
LEMMA Induction ==
  ASSUME NEW S, NEW m \in Nat, 0 \in S, \A n \in 0..m - 1 : n \in S => n + 1 \in S
  PROVE  0..m \subseteq S
<1> DEFINE T == {n \in 0..m : n \notin S}
<1> SUFFICES ASSUME T # {} PROVE FALSE
  OBVIOUS
<1>1. T \subseteq Nat
  OBVIOUS
<1> HIDE DEF T
<1>2. PICK x \in T : \A y \in T : x <= y
  BY <1>1, LeastNumber
<1> USE DEF T
<1>3. x # 0 /\ x \in 1..m
  BY <1>2
<1>4. x - 1 \in 0..m - 1 /\ x - 1 \notin T
  BY <1>2, <1>3
<1>5. x - 1 \in S
  BY <1>4
<1>6. (x - 1) + 1 \in S /\ (x - 1) + 1 = x
  BY <1>4, <1>5, <1>3
<1> QED BY <1>2, <1>6

\* A function that each step gives from the one before.
LEMMA Iteration ==
  ASSUME NEW S, NEW a \in S, NEW m \in Nat, NEW F \in [1..m -> [S -> S]]
  PROVE  \E g \in [0..m -> S] : g[0] = a /\ \A n \in 1..m : g[n] = F[n][g[n - 1]]
<1> DEFINE Good == {k \in 0..m : \E g \in [0..k -> S] :
                      g[0] = a /\ \A n \in 1..k : g[n] = F[n][g[n - 1]]}
<1>1. 0 \in Good
  <2> DEFINE g == [i \in 0..0 |-> a]
  <2>1. g \in [0..0 -> S] /\ g[0] = a /\ \A n \in 1..0 : g[n] = F[n][g[n - 1]]
    OBVIOUS
  <2> HIDE DEF g
  <2>2. 0 \in 0..m
    OBVIOUS
  <2> QED BY <2>1, <2>2
<1>2. ASSUME NEW k \in 0..m - 1, k \in Good
      PROVE  k + 1 \in Good
  <2>1. PICK g \in [0..k -> S] : g[0] = a /\ \A n \in 1..k : g[n] = F[n][g[n - 1]]
    BY <1>2
  <2> DEFINE h == [i \in 0..k + 1 |-> IF i <= k THEN g[i] ELSE F[k + 1][g[k]]]
  <2>2. k + 1 \in 1..m /\ k \in 0..k /\ F[k + 1] \in [S -> S] /\ g[k] \in S
    OBVIOUS
  <2>3. F[k + 1][g[k]] \in S
    BY <2>2
  <2>4. h \in [0..k + 1 -> S]
    BY <2>3
  <2>5. h[0] = a /\ h[k + 1] = F[k + 1][g[k]] /\ \A i \in 0..k : h[i] = g[i]
    BY <2>1
  <2>6. \A n \in 1..k + 1 : h[n] = F[n][h[n - 1]]
    <3>1. ASSUME NEW n \in 1..k + 1 PROVE h[n] = F[n][h[n - 1]]
      <4>1. CASE n = k + 1
        BY <4>1, <2>5
      <4>2. CASE n # k + 1
        <5>1. n \in 1..k /\ n \in 0..k /\ n - 1 \in 0..k
          BY <4>2
        <5> QED BY <5>1, <2>1, <2>5
      <4> QED BY <4>1, <4>2
    <3> QED BY <3>1
  <2> HIDE DEF h
  <2> QED BY <2>4, <2>5, <2>6, SMTT(30)
<1> HIDE DEF Good
<1>3. 0..m \subseteq Good
  BY <1>1, <1>2, Induction
<1> QED BY <1>3 DEF Good

\* Paths.
LEMMA AppendPath ==
  ASSUME NEW S, NEW p \in Seq(S), NEW s \in S
  PROVE  /\ Append(p, s) \in Seq(S) /\ Len(p) \in Nat /\ Len(Append(p, s)) = Len(p) + 1
         /\ Append(p, s)[Len(p) + 1] = s
         /\ \A i \in 1..Len(p) : Append(p, s)[i] = p[i]
         /\ SubSeq(Append(p, s), 1, Len(p)) = p
         /\ SubSeq(Append(p, s), 1, Len(p) + 1) = Append(p, s)
         /\ \A n \in 0..Len(p) : SubSeq(Append(p, s), 1, n) = SubSeq(p, 1, n)
<1> DEFINE q == Append(p, s)
<1>1. q \in Seq(S) /\ Len(q) = Len(p) + 1 /\ Len(p) \in Nat
  BY AppendProperties, LenProperties
<1>2. (\A i \in 1..Len(p) : q[i] = p[i]) /\ q[Len(p) + 1] = s
  BY AppendProperties
<1> HIDE DEF q
<1>3. \A n \in 0..Len(p) : SubSeq(q, 1, n) = SubSeq(p, 1, n)
  <2>1. ASSUME NEW n \in 0..Len(p) PROVE SubSeq(q, 1, n) = SubSeq(p, 1, n)
    <3>1. \A i \in 1..n : q[i] = p[i]
      BY <1>1, <1>2
    <3>2. SubSeq(q, 1, n) = [i \in 1..n |-> q[i]] /\ SubSeq(p, 1, n) = [i \in 1..n |-> p[i]]
      BY <1>1, <2>1
    <3> QED BY <3>1, <3>2
  <2> QED BY <2>1
<1>4. SubSeq(p, 1, Len(p)) = p /\ SubSeq(q, 1, Len(q)) = q
  BY <1>1, SubSeqFull
<1>5. SubSeq(q, 1, Len(p)) = p
  BY <1>1, <1>3, <1>4
<1> QED BY <1>1, <1>2, <1>3, <1>4, <1>5 DEF q

\* A path gives its last step and what is before it.
LEMMA AppendOnce ==
  ASSUME NEW S, NEW p \in Seq(S), NEW q \in Seq(S), NEW s \in S, NEW t \in S,
         Append(p, s) = Append(q, t)
  PROVE  p = q /\ s = t
<1>1. Len(p) + 1 = Len(q) + 1 /\ Len(p) \in Nat /\ Len(q) \in Nat
  BY AppendPath
<1>2. Len(p) = Len(q)
  BY <1>1
<1> QED BY <1>2, AppendPath

\* Keys and items are different steps, and different ones of them too.
LEMMA StepsApart ==
  /\ \A k \in Keys, l \in Keys : Step(k) = Step(l) => k = l
  /\ \A m \in Nat, n \in Nat : Item(m) = Item(n) => m = n
  /\ \A k \in Keys, n \in Nat : Step(k) # Item(n)
  /\ \A k \in Keys : Step(k) \in AllSteps
  /\ \A n \in Nat : Item(n) \in AllSteps
BY DEF Step, Item, AllSteps

-----------------------------------------------------------------------------
(* The heap *)

\* The types that the later lemmas need of a heap, and of one of its nodes.
LEMMA HeapTypes ==
  ASSUME NEW ns, Heap(ns)
  PROVE  /\ Len(ns) \in Nat /\ DOMAIN ns = Ids(ns) /\ ns \in [Ids(ns) -> NodeRec]
         /\ \A x \in Ids(ns) : ns[x] \in NodeRec /\ Agrees(ns[x], Len(ns))
BY LenProperties DEF Heap, Ids

LEMMA NodeTypes ==
  ASSUME NEW n \in NodeRec, NEW m \in Nat, Agrees(n, m)
  PROVE  /\ n.kind \in Kinds /\ n.header \in BOOLEAN
         /\ n.all \in Seq([key : Keys, node : Nat]) /\ Len(n.all) \in Nat
         /\ \A i \in 1..Len(n.all) : n.all[i] \in [key : Keys, node : Nat] /\ n.all[i].node \in 1..m
         /\ n.items \in Seq(Nat) /\ Len(n.items) \in Nat
         /\ \A i \in 1..Len(n.items) : n.items[i] \in 1..m
         /\ DOMAIN n.lookup \subseteq Keys /\ n.lookup \in [DOMAIN n.lookup -> Nat]
         /\ \A k \in DOMAIN n.lookup : n.lookup[k] \in 1..m
<1>1. /\ n.kind \in Kinds /\ n.header \in BOOLEAN
      /\ n.all \in Seq([key : Keys, node : Nat]) /\ n.items \in Seq(Nat) /\ n.lookup \in Lookups
  BY DEF NodeRec
<1>2. Len(n.all) \in Nat /\ Len(n.items) \in Nat
  BY <1>1, LenProperties
<1>3. \A i \in 1..Len(n.all) : n.all[i] \in [key : Keys, node : Nat]
  BY <1>1, ElementOfSeq
<1>4. DOMAIN n.lookup \subseteq Keys /\ n.lookup \in [DOMAIN n.lookup -> Nat]
  BY <1>1 DEF Lookups
<1>5. /\ \A i \in 1..Len(n.all) : n.all[i].node \in 1..m
      /\ \A i \in 1..Len(n.items) : n.items[i] \in 1..m
      /\ \A k \in DOMAIN n.lookup : n.lookup[k] \in 1..m
  BY DEF Agrees
<1> QED BY <1>1, <1>2, <1>3, <1>4, <1>5

\* What a node is when it is made.
LEMMA NewRecord ==
  ASSUME NEW kind \in Kinds, NEW header \in BOOLEAN
  PROVE  /\ Node(kind, header) \in NodeRec
         /\ Node(kind, header).kind = kind /\ Node(kind, header).header = header
         /\ Node(kind, header).all = << >> /\ Node(kind, header).items = << >>
         /\ DOMAIN Node(kind, header).lookup = {} /\ Node(kind, header).errors = {}
         /\ \A m \in Nat : Agrees(Node(kind, header), m)
<1>1. NoKeys \in Lookups /\ DOMAIN NoKeys = {}
  <2>1. NoKeys \in [{} -> Nat] /\ {} \in SUBSET Keys
    BY DEF NoKeys
  <2> QED BY <2>1 DEF Lookups, NoKeys
<1>2. << >> \in Seq([key : Keys, node : Nat]) /\ << >> \in Seq(Nat)
  BY EmptySeq
<1>3. {} \in SUBSET Errors
  OBVIOUS
<1>4. Node(kind, header) \in NodeRec
  BY <1>1, <1>2, <1>3 DEF Node, NodeRec
<1>5. /\ Node(kind, header).kind = kind /\ Node(kind, header).header = header
      /\ Node(kind, header).all = << >> /\ Node(kind, header).items = << >>
      /\ DOMAIN Node(kind, header).lookup = {} /\ Node(kind, header).errors = {}
  BY <1>1 DEF Node
<1>6. Len(<< >>) = 0
  OBVIOUS
<1>7. \A m \in Nat : Agrees(Node(kind, header), m)
  BY <1>5, <1>6 DEF Agrees
<1> QED BY <1>4, <1>5, <1>7

\* A node that is right for a heap is right for a larger one.
LEMMA AgreesMore ==
  ASSUME NEW n, NEW m \in Nat, NEW k \in Nat, m <= k, Agrees(n, m)
  PROVE  Agrees(n, k)
<1>1. 1..m \subseteq 1..k
  OBVIOUS
<1> QED BY <1>1 DEF Agrees

\* What is the same in two heaps but for one node.
But(ns, m, x) == Len(m) = Len(ns) /\ \A z \in Ids(ns) : z # x => m[z] = ns[z]

\* Each of the four changes keeps a heap a heap: a node is made, another record takes
\* the place of one, an error, an entry and an item are added.
LEMMA NewNode ==
  ASSUME NEW ns, Heap(ns), NEW kind \in Kinds, NEW header \in BOOLEAN
  PROVE  /\ Heap(Append(ns, Node(kind, header)))
         /\ Len(Append(ns, Node(kind, header))) = Len(ns) + 1
         /\ \A x \in Ids(ns) : Append(ns, Node(kind, header))[x] = ns[x]
         /\ Append(ns, Node(kind, header))[Len(ns) + 1] = Node(kind, header)
<1> DEFINE n == Node(kind, header)
           m == Append(ns, n)
<1>1. n \in NodeRec /\ \A k \in Nat : Agrees(n, k)
  BY NewRecord
<1> HIDE DEF n
<1>2. ns \in Seq(NodeRec) /\ Len(ns) \in Nat /\ \A x \in Ids(ns) : Agrees(ns[x], Len(ns))
  BY HeapTypes DEF Heap
<1>3. m \in Seq(NodeRec) /\ Len(m) = Len(ns) + 1 /\ m[Len(ns) + 1] = n
      /\ \A x \in 1..Len(ns) : m[x] = ns[x]
  BY <1>1, <1>2, AppendProperties
<1> HIDE DEF m
<1>4. ASSUME NEW x \in Ids(m) PROVE Agrees(m[x], Len(m))
  <2>1. CASE x = Len(ns) + 1
    BY <2>1, <1>1, <1>2, <1>3
  <2>2. CASE x # Len(ns) + 1
    <3>1. x \in Ids(ns) /\ Len(ns) <= Len(m) /\ Len(m) \in Nat
      BY <2>2, <1>2, <1>3 DEF Ids
    <3>2. Agrees(ns[x], Len(m))
      BY <3>1, <1>2, AgreesMore
    <3> QED BY <3>1, <3>2, <1>3 DEF Ids
  <2> QED BY <2>1, <2>2
<1> QED BY <1>3, <1>4 DEF Heap, m, n, Ids

LEMMA ChangedNode ==
  ASSUME NEW ns, Heap(ns), NEW x \in Ids(ns), NEW n \in NodeRec, Agrees(n, Len(ns))
  PROVE  /\ Heap([ns EXCEPT ![x] = n]) /\ But(ns, [ns EXCEPT ![x] = n], x)
         /\ [ns EXCEPT ![x] = n][x] = n
<1> DEFINE m == [ns EXCEPT ![x] = n]
<1>1. ns \in Seq(NodeRec) /\ Len(ns) \in Nat /\ DOMAIN ns = Ids(ns)
      /\ \A z \in Ids(ns) : Agrees(ns[z], Len(ns))
  BY HeapTypes DEF Heap
<1>2. m \in Seq(NodeRec) /\ Len(m) = Len(ns)
  BY <1>1, ExceptSeq DEF Ids
<1>3. m[x] = n /\ \A z \in Ids(ns) : z # x => m[z] = ns[z]
  BY <1>1
<1> HIDE DEF m
<1>4. \A z \in Ids(m) : Agrees(m[z], Len(m))
  BY <1>1, <1>2, <1>3 DEF Ids
<1>5. Heap(m) /\ But(ns, m, x) /\ m[x] = n
  BY <1>2, <1>3, <1>4 DEF Heap, But
<1> QED BY <1>5 DEF m

LEMMA ReportNode ==
  ASSUME NEW ns, Heap(ns), NEW x \in Ids(ns), NEW e \in Errors
  PROVE  /\ Heap(Report(ns, x, e)) /\ But(ns, Report(ns, x, e), x)
         /\ Report(ns, x, e)[x].errors # {}
         /\ Report(ns, x, e)[x].kind = ns[x].kind /\ Report(ns, x, e)[x].header = ns[x].header
         /\ Report(ns, x, e)[x].all = ns[x].all /\ Report(ns, x, e)[x].items = ns[x].items
         /\ Report(ns, x, e)[x].lookup = ns[x].lookup
<1> DEFINE n == [ns[x] EXCEPT !.errors = @ \cup {e}]
<1>1. ns[x] \in NodeRec /\ Agrees(ns[x], Len(ns)) /\ DOMAIN ns = Ids(ns)
  BY HeapTypes
<1>2. n \in NodeRec
  BY <1>1 DEF NodeRec
<1>3. n.errors # {} /\ n.kind = ns[x].kind /\ n.header = ns[x].header /\ n.all = ns[x].all
      /\ n.items = ns[x].items /\ n.lookup = ns[x].lookup
  BY <1>1 DEF NodeRec
<1> HIDE DEF n
<1>4. Agrees(n, Len(ns))
  <2> DEFINE old == ns[x]
             l == Len(ns)
  <2>1. /\ Agrees(old, l) /\ n.errors # {} /\ n.kind = old.kind
        /\ n.all = old.all /\ n.items = old.items /\ n.lookup = old.lookup
    BY <1>1, <1>3
  <2> HIDE DEF old, l
  <2>2. \A i \in 1..Len(n.all) : n.all[i].node \in 1..l /\ n.all[i].key \in DOMAIN n.lookup
    BY ONLY <2>1 DEF Agrees
  <2>3. \A k \in DOMAIN n.lookup :
          \E i \in 1..Len(n.all) : n.all[i].key = k /\ n.all[i].node = n.lookup[k]
    BY ONLY <2>1 DEF Agrees
  <2>4. n.kind \notin Tables => n.all = << >>
    BY ONLY <2>1 DEF Agrees
  <2>5. n.kind \notin Arrays => n.items = << >>
    BY ONLY <2>1 DEF Agrees
  <2>6. \A i \in 1..Len(n.items) : n.items[i] \in 1..l
    BY ONLY <2>1 DEF Agrees
  <2>7. Agrees(n, l)
    BY ONLY <2>1, <2>2, <2>3, <2>4, <2>5, <2>6 DEF Agrees
  <2> QED BY <2>7 DEF l
<1>5. Report(ns, x, e) = [ns EXCEPT ![x] = n]
  BY <1>1 DEF Report, n
<1>6. Heap([ns EXCEPT ![x] = n]) /\ But(ns, [ns EXCEPT ![x] = n], x)
      /\ [ns EXCEPT ![x] = n][x] = n
  BY <1>2, <1>4, ChangedNode
<1> QED BY <1>3, <1>5, <1>6

LEMMA AddNode ==
  ASSUME NEW ns, Heap(ns), NEW t \in Ids(ns), IsTable(ns, t), NEW k \in Keys, NEW c \in Ids(ns),
         ~Has(ns, t, k) \/ ns[t].errors # {}
  PROVE  /\ Heap(Add(ns, t, k, c)) /\ But(ns, Add(ns, t, k, c), t)
         /\ Add(ns, t, k, c)[t].all = Append(ns[t].all, [key |-> k, node |-> c])
         /\ Add(ns, t, k, c)[t].lookup = Bind(ns[t].lookup, k, c)
         /\ Add(ns, t, k, c)[t].kind = ns[t].kind /\ Add(ns, t, k, c)[t].header = ns[t].header
         /\ Add(ns, t, k, c)[t].items = ns[t].items /\ Add(ns, t, k, c)[t].errors = ns[t].errors
<1> DEFINE old == ns[t]
           entry == [key |-> k, node |-> c]
           n == [old EXCEPT !.all = Append(@, entry), !.lookup = Bind(@, k, c)]
           m == Len(ns)
<1>1. old \in NodeRec /\ Agrees(old, m) /\ DOMAIN ns = Ids(ns) /\ m \in Nat /\ c \in 1..m
  BY HeapTypes DEF Ids
<1>2. entry \in [key : Keys, node : Nat] /\ entry.key = k /\ entry.node = c
  BY <1>1
<1> HIDE DEF entry
<1>3. /\ old.all \in Seq([key : Keys, node : Nat]) /\ Len(old.all) \in Nat
      /\ DOMAIN old.lookup \subseteq Keys /\ old.lookup \in [DOMAIN old.lookup -> Nat]
  BY <1>1, NodeTypes
<1>4. /\ Append(old.all, entry) \in Seq([key : Keys, node : Nat])
      /\ Len(Append(old.all, entry)) = Len(old.all) + 1
      /\ Append(old.all, entry)[Len(old.all) + 1] = entry
      /\ \A i \in 1..Len(old.all) : Append(old.all, entry)[i] = old.all[i]
  BY <1>2, <1>3, AppendProperties
<1>5. /\ Bind(old.lookup, k, c) \in [DOMAIN old.lookup \cup {k} -> Nat]
      /\ DOMAIN Bind(old.lookup, k, c) = DOMAIN old.lookup \cup {k}
      /\ Bind(old.lookup, k, c)[k] = c
      /\ \A l \in DOMAIN old.lookup : l # k => Bind(old.lookup, k, c)[l] = old.lookup[l]
  BY <1>1, <1>3 DEF Bind
<1>6. Bind(old.lookup, k, c) \in Lookups
  <2>1. DOMAIN old.lookup \cup {k} \in SUBSET Keys
    BY <1>3
  <2> QED BY <2>1, <1>5 DEF Lookups
<1>7. n \in NodeRec
  BY <1>1, <1>4, <1>6 DEF NodeRec
<1>8. n.all = Append(old.all, entry) /\ n.lookup = Bind(old.lookup, k, c) /\ n.kind = old.kind
      /\ n.header = old.header /\ n.items = old.items /\ n.errors = old.errors
  BY <1>1 DEF NodeRec
<1> HIDE DEF n
<1>9. Agrees(n, m)
  <2> DEFINE j == Len(old.all) + 1
  <2>0. /\ Len(n.all) = j /\ j \in 1..j /\ n.all[j].key = k /\ n.all[j].node = c
        /\ \A i \in 1..j : i = j \/ (i \in 1..Len(old.all) /\ n.all[i] = old.all[i])
        /\ \A i \in 1..Len(old.all) : i \in 1..j /\ n.all[i] = old.all[i]
    <3>1. j \in Nat /\ j \in 1..j /\ \A i \in 1..j : i = j \/ i \in 1..Len(old.all)
      BY <1>3
    <3>2. \A i \in 1..Len(old.all) : i \in 1..j
      BY <1>3
    <3> QED BY <3>1, <3>2, <1>2, <1>4, <1>8
  <2> HIDE DEF j
  <2>1. \A i \in 1..Len(n.all) : n.all[i].node \in 1..m /\ n.all[i].key \in DOMAIN n.lookup
    BY <2>0, <1>1, <1>5, <1>8 DEF Agrees
  <2>2. ASSUME NEW l \in DOMAIN n.lookup
        PROVE  \E i \in 1..Len(n.all) : n.all[i].key = l /\ n.all[i].node = n.lookup[l]
    <3>1. CASE l = k
      BY <3>1, <2>0, <1>5, <1>8
    <3>2. CASE l # k
      <4>1. l \in DOMAIN old.lookup /\ n.lookup[l] = old.lookup[l]
        BY <3>2, <1>5, <1>8
      <4>2. PICK i \in 1..Len(old.all) : old.all[i].key = l /\ old.all[i].node = old.lookup[l]
        BY <4>1, <1>1 DEF Agrees
      <4> QED BY <4>1, <4>2, <2>0
    <3> QED BY <3>1, <3>2
  <2>3. n.errors = {} => \A i \in 1..Len(n.all) : n.lookup[n.all[i].key] = n.all[i].node
    <3> SUFFICES ASSUME n.errors = {}, NEW i \in 1..Len(n.all)
                 PROVE  n.lookup[n.all[i].key] = n.all[i].node
      OBVIOUS
    <3>1. k \notin DOMAIN old.lookup
      BY <1>8 DEF Has
    <3>2. CASE i = Len(n.all)
      BY <3>2, <2>0, <1>5, <1>8
    <3>3. CASE i # Len(n.all)
      <4>1. i \in 1..Len(old.all) /\ n.all[i] = old.all[i]
        BY <3>3, <2>0
      <4>2. old.all[i].key \in DOMAIN old.lookup /\ old.lookup[old.all[i].key] = old.all[i].node
        BY <4>1, <1>1, <1>8 DEF Agrees
      <4> QED BY <4>1, <4>2, <3>1, <1>5, <1>8
    <3> QED BY <3>2, <3>3
  <2>4. n.kind \in Tables
    BY <1>8 DEF IsTable
  <2>5. n.kind \notin Arrays => n.items = << >>
    BY <1>1, <1>8 DEF Agrees
  <2>6. \A i \in 1..Len(n.items) : n.items[i] \in 1..m
    BY <1>1, <1>8 DEF Agrees
  <2> QED BY <2>1, <2>2, <2>3, <2>4, <2>5, <2>6 DEF Agrees
<1>10. Add(ns, t, k, c) = [ns EXCEPT ![t] = n]
  BY <1>1 DEF Add, n, entry
<1>11. Heap([ns EXCEPT ![t] = n]) /\ But(ns, [ns EXCEPT ![t] = n], t)
      /\ [ns EXCEPT ![t] = n][t] = n
  BY <1>7, <1>9, ChangedNode
<1> QED BY <1>8, <1>10, <1>11 DEF entry

LEMMA PushNode ==
  ASSUME NEW ns, Heap(ns), NEW a \in Ids(ns), IsArray(ns, a), NEW c \in Ids(ns)
  PROVE  /\ Heap(Push(ns, a, c)) /\ But(ns, Push(ns, a, c), a)
         /\ Push(ns, a, c)[a].items = Append(ns[a].items, c)
         /\ Push(ns, a, c)[a].kind = ns[a].kind /\ Push(ns, a, c)[a].header = ns[a].header
         /\ Push(ns, a, c)[a].all = ns[a].all /\ Push(ns, a, c)[a].lookup = ns[a].lookup
         /\ Push(ns, a, c)[a].errors = ns[a].errors
<1> DEFINE old == ns[a]
           n == [old EXCEPT !.items = Append(@, c)]
           m == Len(ns)
<1>1. old \in NodeRec /\ Agrees(old, m) /\ DOMAIN ns = Ids(ns) /\ m \in Nat /\ c \in 1..m
  BY HeapTypes DEF Ids
<1>2. old.items \in Seq(Nat) /\ Len(old.items) \in Nat /\ c \in Nat
  BY <1>1, NodeTypes
<1>3. /\ Append(old.items, c) \in Seq(Nat) /\ Len(Append(old.items, c)) = Len(old.items) + 1
      /\ Append(old.items, c)[Len(old.items) + 1] = c
      /\ \A i \in 1..Len(old.items) : Append(old.items, c)[i] = old.items[i]
  BY <1>2, AppendProperties
<1>4. n \in NodeRec
  BY <1>1, <1>3 DEF NodeRec
<1>5. n.items = Append(old.items, c) /\ n.all = old.all /\ n.lookup = old.lookup
      /\ n.kind = old.kind /\ n.header = old.header /\ n.errors = old.errors
  BY <1>1 DEF NodeRec
<1> HIDE DEF n
<1>6. Agrees(n, m)
  <2>1. ASSUME NEW i \in 1..Len(n.items) PROVE n.items[i] \in 1..m
    <3>1. i = Len(old.items) + 1 \/ i \in 1..Len(old.items)
      BY <1>2, <1>3, <1>5
    <3> QED BY <3>1, <1>1, <1>3, <1>5 DEF Agrees
  <2>2. n.kind \in Arrays
    BY <1>5 DEF IsArray
  <2> QED BY <2>1, <2>2, <1>1, <1>5 DEF Agrees
<1>7. Push(ns, a, c) = [ns EXCEPT ![a] = n]
  BY <1>1 DEF Push, n
<1>8. Heap([ns EXCEPT ![a] = n]) /\ But(ns, [ns EXCEPT ![a] = n], a)
      /\ [ns EXCEPT ![a] = n][a] = n
  BY <1>4, <1>6, ChangedNode
<1> QED BY <1>5, <1>7, <1>8

-----------------------------------------------------------------------------
(* Edges *)

\* Edges and kids are the same but for the steps, and lookup has an edge for every key;
\* the only one, if there is no error.
LEMMA Edges ==
  ASSUME NEW ns, Heap(ns), NEW x \in Ids(ns)
  PROVE  /\ \A s, y : Edge(ns, x, s, y) => s \in AllSteps /\ y \in Ids(ns) /\ Kid(ns, x, y)
         /\ \A y : Kid(ns, x, y) => y \in Ids(ns) /\ \E s \in AllSteps : Edge(ns, x, s, y)
         /\ \A k \in DOMAIN ns[x].lookup :
              k \in Keys /\ Get(ns, x, k) \in Ids(ns) /\ Edge(ns, x, Step(k), Get(ns, x, k))
         /\ \A k \in Keys : \A y : Edge(ns, x, Step(k), y) =>
              Has(ns, x, k) /\ (ns[x].errors = {} => y = Get(ns, x, k))
         /\ \A n \in Nat : \A y : Edge(ns, x, Item(n), y) <=>
              n \in 1..Len(ns[x].items) /\ y = ns[x].items[n]
<1> DEFINE n == ns[x]
<1>1. n \in NodeRec /\ Agrees(n, Len(ns)) /\ Len(ns) \in Nat
  BY HeapTypes
<1>2. /\ \A i \in 1..Len(n.all) : n.all[i] \in [key : Keys, node : Nat] /\ n.all[i].node \in Ids(ns)
      /\ Len(n.items) \in Nat /\ \A i \in 1..Len(n.items) : n.items[i] \in Ids(ns)
      /\ DOMAIN n.lookup \subseteq Keys /\ \A k \in DOMAIN n.lookup : n.lookup[k] \in Ids(ns)
  BY <1>1, NodeTypes DEF Ids
<1>3. \A i \in 1..Len(n.all) : n.all[i].key \in Keys /\ Step(n.all[i].key) \in AllSteps
  BY <1>2, StepsApart
<1>4. \A i \in 1..Len(n.items) : i \in Nat /\ Item(i) \in AllSteps
  BY <1>2, StepsApart
<1>5. \A s, y : Edge(ns, x, s, y) => s \in AllSteps /\ y \in Ids(ns) /\ Kid(ns, x, y)
  BY <1>2, <1>3, <1>4 DEF Edge, Kid
<1>6. \A y : Kid(ns, x, y) => y \in Ids(ns) /\ \E s \in AllSteps : Edge(ns, x, s, y)
  BY <1>2, <1>3, <1>4 DEF Edge, Kid
<1>7. ASSUME NEW k \in DOMAIN n.lookup
      PROVE  k \in Keys /\ Get(ns, x, k) \in Ids(ns) /\ Edge(ns, x, Step(k), Get(ns, x, k))
  <2>1. PICK i \in 1..Len(n.all) : n.all[i].key = k /\ n.all[i].node = n.lookup[k]
    BY <1>1 DEF Agrees
  <2> QED BY <2>1, <1>2 DEF Edge, Get
<1>8. ASSUME NEW k \in Keys, NEW y, Edge(ns, x, Step(k), y)
      PROVE  Has(ns, x, k) /\ (n.errors = {} => y = Get(ns, x, k))
  <2>1. PICK i \in 1..Len(n.all) : Step(k) = Step(n.all[i].key) /\ y = n.all[i].node
    BY <1>8, <1>4, StepsApart DEF Edge
  <2>2. k = n.all[i].key
    BY <2>1, <1>3, StepsApart
  <2> QED BY <2>1, <2>2, <1>1 DEF Agrees, Has, Get
<1>9. ASSUME NEW i \in Nat, NEW y
      PROVE  Edge(ns, x, Item(i), y) <=> i \in 1..Len(n.items) /\ y = n.items[i]
  <2>1. \A j \in 1..Len(n.all) : Item(i) # Step(n.all[j].key)
    BY <1>3, StepsApart
  <2>2. \A j \in 1..Len(n.items) : Item(i) = Item(j) => i = j
    BY <1>4, StepsApart
  <2> QED BY <2>1, <2>2 DEF Edge
<1> QED BY <1>5, <1>6, <1>7, <1>8, <1>9

\* A node gets one more edge, and is the same otherwise.
Links(ns, m, t, s, c) ==
  /\ But(ns, m, t)
  /\ m[t].kind = ns[t].kind /\ m[t].header = ns[t].header /\ m[t].errors = ns[t].errors
  /\ \A z, y : Edge(m, t, z, y) <=> Edge(ns, t, z, y) \/ (z = s /\ y = c)
  /\ \A y : Kid(m, t, y) <=> Kid(ns, t, y) \/ y = c

\* An entry or an item is one more edge.
LEMMA AddLinks ==
  ASSUME NEW ns, Heap(ns), NEW t \in Ids(ns), IsTable(ns, t), NEW k \in Keys, NEW c \in Ids(ns),
         ~Has(ns, t, k) \/ ns[t].errors # {}
  PROVE  /\ Heap(Add(ns, t, k, c)) /\ Links(ns, Add(ns, t, k, c), t, Step(k), c)
         /\ Add(ns, t, k, c)[t].items = ns[t].items
<1> DEFINE m == Add(ns, t, k, c)
           old == ns[t].all
           e == [key |-> k, node |-> c]
<1>1. /\ Heap(m) /\ But(ns, m, t) /\ m[t].all = Append(old, e)
      /\ m[t].kind = ns[t].kind /\ m[t].header = ns[t].header
      /\ m[t].items = ns[t].items /\ m[t].errors = ns[t].errors
  BY AddNode
<1> HIDE DEF m
<1>2. old \in Seq([key : Keys, node : Nat]) /\ Len(old) \in Nat
  BY HeapTypes, NodeTypes
<1>3. e \in [key : Keys, node : Nat] /\ e.key = k /\ e.node = c
  BY DEF Ids
<1> HIDE DEF e
<1>4. /\ Len(Append(old, e)) = Len(old) + 1 /\ Append(old, e)[Len(old) + 1] = e
      /\ \A i \in 1..Len(old) : Append(old, e)[i] = old[i]
  BY <1>2, <1>3, AppendProperties
<1>5. \A i \in 1..Len(old) + 1 : i = Len(old) + 1 \/ i \in 1..Len(old)
  BY <1>2
<1>6. Len(old) + 1 \in 1..Len(old) + 1 /\ \A i \in 1..Len(old) : i \in 1..Len(old) + 1
  BY <1>2
<1>7. \A z, y : Edge(m, t, z, y) <=> Edge(ns, t, z, y) \/ (z = Step(k) /\ y = c)
  <2>1. ASSUME NEW z, NEW y, Edge(m, t, z, y)
        PROVE  Edge(ns, t, z, y) \/ (z = Step(k) /\ y = c)
    BY <2>1, <1>1, <1>3, <1>4, <1>5 DEF Edge
  <2>2. ASSUME NEW z, NEW y, Edge(ns, t, z, y)
        PROVE  Edge(m, t, z, y)
    BY <2>2, <1>1, <1>4, <1>6 DEF Edge
  <2>3. Edge(m, t, Step(k), c)
    BY <1>1, <1>3, <1>4, <1>6 DEF Edge
  <2> QED BY <2>1, <2>2, <2>3
<1>8. \A y : Kid(m, t, y) <=> Kid(ns, t, y) \/ y = c
  <2>1. ASSUME NEW y, Kid(m, t, y)
        PROVE  Kid(ns, t, y) \/ y = c
    BY <2>1, <1>1, <1>3, <1>4, <1>5 DEF Kid
  <2>2. ASSUME NEW y, Kid(ns, t, y)
        PROVE  Kid(m, t, y)
    BY <2>2, <1>1, <1>4, <1>6 DEF Kid
  <2>3. Kid(m, t, c)
    BY <1>1, <1>3, <1>4, <1>6 DEF Kid
  <2> QED BY <2>1, <2>2, <2>3
<1>9. Links(ns, m, t, Step(k), c)
  BY <1>1, <1>7, <1>8 DEF Links
<1> QED BY <1>1, <1>9 DEF m

LEMMA PushLinks ==
  ASSUME NEW ns, Heap(ns), NEW a \in Ids(ns), IsArray(ns, a), NEW c \in Ids(ns)
  PROVE  /\ Heap(Push(ns, a, c)) /\ Links(ns, Push(ns, a, c), a, Item(Len(ns[a].items) + 1), c)
         /\ Len(ns[a].items) \in Nat /\ Len(Push(ns, a, c)[a].items) = Len(ns[a].items) + 1
<1> DEFINE m == Push(ns, a, c)
           old == ns[a].items
           n == Len(old) + 1
<1>1. /\ Heap(m) /\ But(ns, m, a) /\ m[a].items = Append(old, c)
      /\ m[a].kind = ns[a].kind /\ m[a].header = ns[a].header
      /\ m[a].all = ns[a].all /\ m[a].errors = ns[a].errors
  BY PushNode
<1> HIDE DEF m
<1>2. old \in Seq(Nat) /\ Len(old) \in Nat /\ c \in Nat
  BY HeapTypes, NodeTypes DEF Ids
<1>3. /\ Len(Append(old, c)) = n /\ Append(old, c)[n] = c
      /\ \A i \in 1..Len(old) : Append(old, c)[i] = old[i]
  BY <1>2, AppendProperties
<1>4. /\ \A i \in 1..n : i = n \/ i \in 1..Len(old)
      /\ n \in 1..n /\ \A i \in 1..Len(old) : i \in 1..n
  BY <1>2
<1> HIDE DEF n
<1>5. \A z, y : Edge(m, a, z, y) <=> Edge(ns, a, z, y) \/ (z = Item(n) /\ y = c)
  <2>1. ASSUME NEW z, NEW y, Edge(m, a, z, y)
        PROVE  Edge(ns, a, z, y) \/ (z = Item(n) /\ y = c)
    BY <2>1, <1>1, <1>3, <1>4 DEF Edge
  <2>2. ASSUME NEW z, NEW y, Edge(ns, a, z, y)
        PROVE  Edge(m, a, z, y)
    BY <2>2, <1>1, <1>3, <1>4 DEF Edge
  <2>3. Edge(m, a, Item(n), c)
    BY <1>1, <1>3, <1>4 DEF Edge
  <2> QED BY <2>1, <2>2, <2>3
<1>6. \A y : Kid(m, a, y) <=> Kid(ns, a, y) \/ y = c
  <2>1. ASSUME NEW y, Kid(m, a, y)
        PROVE  Kid(ns, a, y) \/ y = c
    BY <2>1, <1>1, <1>3, <1>4 DEF Kid
  <2>2. ASSUME NEW y, Kid(ns, a, y)
        PROVE  Kid(m, a, y)
    BY <2>2, <1>1, <1>3, <1>4 DEF Kid
  <2>3. Kid(m, a, c)
    BY <1>1, <1>3, <1>4 DEF Kid
  <2> QED BY <2>1, <2>2, <2>3
<1>7. Links(ns, m, a, Item(n), c)
  BY <1>1, <1>5, <1>6 DEF Links
<1> QED BY <1>1, <1>2, <1>3, <1>7 DEF m, n

-----------------------------------------------------------------------------
(* Heaps that grow *)

\* Nothing is taken away: kinds, edges and errors stay.
Grows(ns, m) ==
  /\ Heap(m) /\ Len(ns) <= Len(m)
  /\ \A x \in Ids(ns) :
       /\ m[x].kind = ns[x].kind /\ m[x].header = ns[x].header
       /\ ns[x].errors # {} => m[x].errors # {}
       /\ \A y : Kid(ns, x, y) => Kid(m, x, y)

\* What only grows, in one step or in several.
LEMMA GrowsIds ==
  ASSUME NEW ns, Heap(ns), NEW m, Grows(ns, m)
  PROVE  Ids(ns) \subseteq Ids(m) /\ \A x \in Ids(ns) : IsTable(m, x) <=> IsTable(ns, x)
BY HeapTypes DEF Grows, Ids, IsTable

LEMMA GrowsTwice ==
  ASSUME NEW a, Heap(a), NEW b, Grows(a, b), NEW c, Grows(b, c)
  PROVE  Grows(a, c)
<1>1. Heap(b) /\ Heap(c) /\ Ids(a) \subseteq Ids(b)
  BY GrowsIds DEF Grows
<1>2. Len(a) <= Len(c)
  BY <1>1, HeapTypes DEF Grows
<1> QED BY <1>1, <1>2 DEF Grows

LEMMA GrowsNot ==
  ASSUME NEW ns, Heap(ns)
  PROVE  Grows(ns, ns)
BY HeapTypes DEF Grows

LEMMA GrowsNew ==
  ASSUME NEW ns, Heap(ns), NEW kind \in Kinds, NEW header \in BOOLEAN
  PROVE  Grows(ns, Append(ns, Node(kind, header)))
<1> DEFINE m == Append(ns, Node(kind, header))
<1>1. Heap(m) /\ Len(m) = Len(ns) + 1 /\ Len(ns) \in Nat /\ \A x \in Ids(ns) : m[x] = ns[x]
  BY NewNode, HeapTypes
<1> HIDE DEF m
<1>2. Len(ns) <= Len(m)
  BY <1>1
<1>3. Grows(ns, m)
  BY <1>1, <1>2 DEF Grows, Kid
<1> QED BY <1>3 DEF m

LEMMA GrowsReport ==
  ASSUME NEW ns, Heap(ns), NEW x \in Ids(ns), NEW e \in Errors
  PROVE  Grows(ns, Report(ns, x, e))
<1> DEFINE m == Report(ns, x, e)
<1>1. /\ Heap(m) /\ But(ns, m, x) /\ m[x].kind = ns[x].kind /\ m[x].header = ns[x].header
      /\ m[x].all = ns[x].all /\ m[x].items = ns[x].items /\ m[x].errors # {} /\ Len(ns) \in Nat
  BY ReportNode, HeapTypes
<1> HIDE DEF m
<1>2. Len(ns) <= Len(m)
  BY <1>1 DEF But
<1>3. Grows(ns, m)
  BY <1>1, <1>2 DEF Grows, Kid, But
<1> QED BY <1>3 DEF m

LEMMA GrowsLink ==
  ASSUME NEW ns, Heap(ns), NEW m, Heap(m), NEW t, NEW s, NEW c, Links(ns, m, t, s, c)
  PROVE  Grows(ns, m)
<1>1. Len(ns) <= Len(m)
  BY HeapTypes DEF Links, But
<1>2. \A x \in Ids(ns) : x # t => m[x] = ns[x]
  BY DEF Links, But
<1>3. \A x \in Ids(ns) : \A y : Kid(ns, x, y) => Kid(m, x, y)
  <2>1. ASSUME NEW x \in Ids(ns), NEW y, Kid(ns, x, y) PROVE Kid(m, x, y)
    <3>1. CASE x = t
      BY <2>1, <3>1 DEF Links
    <3>2. CASE x # t
      BY <2>1, <3>2, <1>2 DEF Kid
    <3> QED BY <3>1, <3>2
  <2> QED BY <2>1
<1>4. \A x \in Ids(ns) : m[x].kind = ns[x].kind /\ m[x].header = ns[x].header
                         /\ m[x].errors = ns[x].errors
  BY <1>2 DEF Links
<1> QED BY <1>1, <1>3, <1>4 DEF Grows

\* What is below a node, and stays below it.
LEMMA ReachGrows ==
  ASSUME NEW ns, Heap(ns), NEW m, Grows(ns, m), NEW r, NEW x, Reach(ns, r, x)
  PROVE  Reach(m, r, x)
<1>0. PICK n \in Nat : \E w \in [0..n -> Ids(ns)] :
        w[0] = r /\ w[n] = x /\ \A i \in 1..n : Kid(ns, w[i - 1], w[i])
  BY DEF Reach
<1>1. PICK w \in [0..n -> Ids(ns)] :
        w[0] = r /\ w[n] = x /\ \A i \in 1..n : Kid(ns, w[i - 1], w[i])
  BY <1>0
<1>2. Ids(ns) \subseteq Ids(m)
  BY GrowsIds
<1>3. w \in [0..n -> Ids(m)]
  BY <1>2
<1>4. \A i \in 1..n : i - 1 \in 0..n
  OBVIOUS
<1>5. \A i \in 1..n : w[i - 1] \in Ids(ns)
  BY <1>4
<1>6. \A i \in 1..n : Kid(m, w[i - 1], w[i])
  BY <1>1, <1>5 DEF Grows
<1> QED BY <1>1, <1>3, <1>6 DEF Reach

LEMMA ReachSelf ==
  ASSUME NEW ns, NEW x \in Ids(ns)
  PROVE  Reach(ns, x, x)
<1> DEFINE w == [i \in 0..0 |-> x]
<1>1. w \in [0..0 -> Ids(ns)] /\ w[0] = x /\ \A i \in 1..0 : Kid(ns, w[i - 1], w[i])
  OBVIOUS
<1> HIDE DEF w
<1> QED BY <1>1 DEF Reach

LEMMA ReachIds ==
  ASSUME NEW ns, NEW r, NEW x, Reach(ns, r, x)
  PROVE  r \in Ids(ns) /\ x \in Ids(ns)
<1>0. PICK n \in Nat : \E w \in [0..n -> Ids(ns)] :
        w[0] = r /\ w[n] = x
  BY DEF Reach
<1>1. PICK w \in [0..n -> Ids(ns)] :
        w[0] = r /\ w[n] = x
  BY <1>0
<1> QED BY <1>1

LEMMA ReachKid ==
  ASSUME NEW ns, NEW r, NEW x, Reach(ns, r, x), NEW y \in Ids(ns), Kid(ns, x, y)
  PROVE  Reach(ns, r, y)
<1>0. PICK n \in Nat : \E w \in [0..n -> Ids(ns)] :
        w[0] = r /\ w[n] = x /\ \A i \in 1..n : Kid(ns, w[i - 1], w[i])
  BY DEF Reach
<1>1. PICK w \in [0..n -> Ids(ns)] :
        w[0] = r /\ w[n] = x /\ \A i \in 1..n : Kid(ns, w[i - 1], w[i])
  BY <1>0
<1> DEFINE v == [i \in 0..n + 1 |-> IF i = n + 1 THEN y ELSE w[i]]
<1>2. \A i \in 0..n + 1 : i = n + 1 \/ i \in 0..n
  OBVIOUS
<1>3. v \in [0..n + 1 -> Ids(ns)]
  BY <1>2
<1>4. v[n + 1] = y /\ \A i \in 0..n : v[i] = w[i]
  OBVIOUS
<1>5. v[0] = r
  BY <1>1, <1>4
<1>6. \A i \in 1..n + 1 : Kid(ns, v[i - 1], v[i])
  <2>1. ASSUME NEW i \in 1..n + 1 PROVE Kid(ns, v[i - 1], v[i])
    <3>1. CASE i = n + 1
      <4>1. i - 1 = n /\ n \in 0..n
        BY <3>1
      <4> QED BY <4>1, <3>1, <1>1, <1>4
    <3>2. CASE i # n + 1
      <4>1. i \in 1..n /\ i \in 0..n /\ i - 1 \in 0..n
        BY <3>2
      <4> QED BY <4>1, <1>1, <1>4
    <3> QED BY <3>1, <3>2
  <2> QED BY <2>1
<1> HIDE DEF v
<1>7. n + 1 \in Nat
  OBVIOUS
<1> QED BY <1>3, <1>4, <1>5, <1>6, <1>7 DEF Reach

LEMMA ReachFar ==
  ASSUME NEW ns, NEW r, NEW x, Reach(ns, r, x), NEW y, Reach(ns, x, y)
  PROVE  Reach(ns, r, y)
<1>0. PICK n \in Nat : \E w \in [0..n -> Ids(ns)] :
        w[0] = x /\ w[n] = y /\ \A i \in 1..n : Kid(ns, w[i - 1], w[i])
  BY DEF Reach
<1>1. PICK w \in [0..n -> Ids(ns)] :
        w[0] = x /\ w[n] = y /\ \A i \in 1..n : Kid(ns, w[i - 1], w[i])
  BY <1>0
<1> DEFINE S == {i \in 0..n : Reach(ns, r, w[i])}
<1>2. 0 \in S
  BY <1>1
<1>3. ASSUME NEW i \in 0..n - 1, i \in S PROVE i + 1 \in S
  <2>1. i + 1 \in 1..n /\ i + 1 \in 0..n /\ (i + 1) - 1 = i
    OBVIOUS
  <2>2. Kid(ns, w[i], w[i + 1]) /\ w[i + 1] \in Ids(ns)
    BY <1>1, <2>1
  <2>3. Reach(ns, r, w[i])
    BY <1>3
  <2>4. Reach(ns, r, w[i + 1])
    BY <2>2, <2>3, ReachKid
  <2> QED BY <2>1, <2>4
<1> HIDE DEF S
<1>4. 0..n \subseteq S
  BY <1>2, <1>3, Induction
<1>5. n \in S
  BY <1>4
<1> QED BY <1>5, <1>1 DEF S

-----------------------------------------------------------------------------
(* The forest *)

\* A new node is a root, an error is not seen, and a root that gets a parent is none any more.
LEMMA ForestNew ==
  ASSUME NEW ns, Heap(ns), NEW roots, Forest(ns, roots), NEW kind \in Kinds, NEW header \in BOOLEAN
  PROVE  Forest(Append(ns, Node(kind, header)), roots \cup {Len(ns) + 1})
<1> DEFINE m == Append(ns, Node(kind, header))
           c == Len(ns) + 1
<1>1. /\ Heap(m) /\ Len(m) = c /\ Len(ns) \in Nat /\ \A x \in Ids(ns) : m[x] = ns[x]
      /\ m[c] = Node(kind, header)
  BY NewNode, HeapTypes
<1>2. Node(kind, header).all = << >> /\ Node(kind, header).items = << >>
  BY NewRecord
<1> HIDE DEF m
<1>3. \A y : ~Kid(m, c, y)
  BY <1>1, <1>2 DEF Kid
<1>4. \A x \in Ids(m) : x = c \/ x \in Ids(ns)
  BY <1>1 DEF Ids
<1>5. \A x \in Ids(ns) : \A y : Kid(m, x, y) => Kid(ns, x, y) /\ y \in Ids(ns)
  BY <1>1, Edges DEF Kid
<1>6. c \notin Ids(ns) /\ c \in Ids(m) /\ Ids(ns) \subseteq Ids(m)
  BY <1>1 DEF Ids
<1> HIDE DEF c
<1>7. Forest(m, roots \cup {c})
  BY <1>3, <1>4, <1>5, <1>6 DEF Forest
<1> QED BY <1>7 DEF m, c

LEMMA ForestReport ==
  ASSUME NEW ns, Heap(ns), NEW roots, Forest(ns, roots), NEW x \in Ids(ns), NEW e \in Errors
  PROVE  Forest(Report(ns, x, e), roots)
<1> DEFINE m == Report(ns, x, e)
<1>1. But(ns, m, x) /\ m[x].all = ns[x].all /\ m[x].items = ns[x].items
  BY ReportNode
<1> HIDE DEF m
<1>2. Ids(m) = Ids(ns) /\ \A z \in Ids(ns) : \A y : Kid(m, z, y) <=> Kid(ns, z, y)
  BY <1>1 DEF But, Ids, Kid
<1>3. Forest(m, roots)
  BY <1>2 DEF Forest
<1> QED BY <1>3 DEF m

LEMMA ForestLink ==
  ASSUME NEW ns, Heap(ns), NEW roots, Forest(ns, roots), NEW m, NEW t \in Ids(ns), NEW s,
         NEW c \in roots, Links(ns, m, t, s, c)
  PROVE  Forest(m, roots \ {c})
<1>1. Ids(m) = Ids(ns) /\ \A z \in Ids(ns) : z # t => \A y : Kid(m, z, y) <=> Kid(ns, z, y)
  BY DEF Links, But, Ids, Kid
<1>2. \A y : Kid(m, t, y) <=> Kid(ns, t, y) \/ y = c
  BY DEF Links
<1>3. \A x \in Ids(ns) : ~Kid(ns, x, c)
  BY DEF Forest
<1> QED BY <1>1, <1>2, <1>3 DEF Forest

-----------------------------------------------------------------------------
(* What keys do to a heap *)

\* A heap and a table in it.
At(ns, t) == [nodes |-> ns, id |-> t]

\* A table below the one before, in a forest of the same roots.
Leads(ns, t, at, roots) ==
  /\ Grows(ns, at.nodes) /\ Forest(at.nodes, roots)
  /\ TableOf(at.nodes, t, at.id)

\* There is an error below t.
Complains(m, t) == \E x \in Ids(m) : Reach(m, t, x) /\ m[x].errors # {}

\* Created and PushNew: a node that is the kid of an entry or an item, and below its table.
LEMMA CreatedNode ==
  ASSUME NEW ns, Heap(ns), NEW roots, Forest(ns, roots), NEW t \in Ids(ns), IsTable(ns, t),
         NEW k \in Keys, NEW kind \in Kinds, NEW header \in BOOLEAN,
         ~Has(ns, t, k) \/ ns[t].errors # {}
  PROVE  LET at == Created(At(ns, t), k, Node(kind, header))
         IN /\ Grows(ns, at.nodes) /\ Forest(at.nodes, roots)
            /\ at.id = Len(ns) + 1 /\ at.id \in Ids(at.nodes) /\ Len(at.nodes) = Len(ns) + 1
            /\ at.nodes[at.id] = Node(kind, header)
            /\ Kid(at.nodes, t, at.id) /\ Reach(at.nodes, t, at.id)
            /\ Links(Append(ns, Node(kind, header)), at.nodes, t, Step(k), at.id)
            /\ at.nodes[t].items = ns[t].items
<1> DEFINE c == Len(ns) + 1
           new == Append(ns, Node(kind, header))
           m == Add(new, t, k, c)
<1>1. /\ Heap(new) /\ Len(new) = c /\ new[c] = Node(kind, header) /\ Len(ns) \in Nat
      /\ \A x \in Ids(ns) : new[x] = ns[x]
  BY NewNode, HeapTypes
<1>2. Grows(ns, new) /\ Forest(new, roots \cup {c})
  BY GrowsNew, ForestNew
<1>3. t \in Ids(new) /\ c \in Ids(new) /\ t # c /\ c \notin roots
  BY <1>1 DEF Ids, Forest
<1>4. new[t] = ns[t]
  BY <1>1
<1> HIDE DEF new, c
<1>5. IsTable(new, t) /\ (~Has(new, t, k) \/ new[t].errors # {})
  BY <1>4 DEF IsTable, Has
<1>6. Heap(m) /\ Links(new, m, t, Step(k), c) /\ m[t].items = new[t].items
  BY <1>1, <1>3, <1>5, AddLinks
<1> HIDE DEF m
<1>7. Grows(new, m) /\ Forest(m, (roots \cup {c}) \ {c})
  BY <1>1, <1>2, <1>3, <1>6, GrowsLink, ForestLink
<1>8. Grows(ns, m)
  BY <1>2, <1>7, GrowsTwice
<1>9. (roots \cup {c}) \ {c} = roots
  BY <1>3
<1>10. Forest(m, roots)
  BY <1>7, <1>9
<1>11. Len(m) = c /\ m[c] = Node(kind, header) /\ Kid(m, t, c) /\ c \in Ids(m) /\ t \in Ids(m)
  BY <1>1, <1>3, <1>6 DEF Links, But, Ids
<1>12. Reach(m, t, c)
  BY <1>11, ReachSelf, ReachKid
<1>13. Created(At(ns, t), k, Node(kind, header)) = [nodes |-> m, id |-> c]
  BY DEF Created, At, m, new, c
<1>14. m[t].items = ns[t].items
  BY <1>4, <1>6
<1> QED BY <1>6, <1>8, <1>10, <1>11, <1>12, <1>13, <1>14 DEF c, new

LEMMA PushedNode ==
  ASSUME NEW ns, Heap(ns), NEW roots, Forest(ns, roots), NEW a \in Ids(ns), IsArray(ns, a),
         NEW kind \in Kinds, NEW header \in BOOLEAN
  PROVE  LET m == PushNew(ns, a, Node(kind, header))
             c == Len(ns) + 1
         IN /\ Grows(ns, m) /\ Forest(m, roots)
            /\ c \in Ids(m) /\ Len(m) = c /\ m[c] = Node(kind, header)
            /\ Kid(m, a, c) /\ Reach(m, a, c)
            /\ Links(Append(ns, Node(kind, header)), m, a, Item(Len(ns[a].items) + 1), c)
            /\ Len(m[a].items) = Len(ns[a].items) + 1
<1> DEFINE c == Len(ns) + 1
           new == Append(ns, Node(kind, header))
           m == Push(new, a, c)
<1>1. /\ Heap(new) /\ Len(new) = c /\ new[c] = Node(kind, header) /\ Len(ns) \in Nat
      /\ \A x \in Ids(ns) : new[x] = ns[x]
  BY NewNode, HeapTypes
<1>2. Grows(ns, new) /\ Forest(new, roots \cup {c})
  BY GrowsNew, ForestNew
<1>3. a \in Ids(new) /\ c \in Ids(new) /\ a # c /\ c \notin roots
  BY <1>1 DEF Ids, Forest
<1>4. new[a] = ns[a]
  BY <1>1
<1> HIDE DEF new, c
<1>5. IsArray(new, a)
  BY <1>4 DEF IsArray
<1>6. Heap(m) /\ Links(new, m, a, Item(Len(new[a].items) + 1), c)
      /\ Len(m[a].items) = Len(new[a].items) + 1
  BY <1>1, <1>3, <1>5, PushLinks
<1> HIDE DEF m
<1>7. Grows(new, m) /\ Forest(m, (roots \cup {c}) \ {c})
  BY <1>1, <1>2, <1>3, <1>6, GrowsLink, ForestLink
<1>8. Grows(ns, m)
  BY <1>2, <1>7, GrowsTwice
<1>9. (roots \cup {c}) \ {c} = roots
  BY <1>3
<1>10. Forest(m, roots)
  BY <1>7, <1>9
<1>11. Len(m) = c /\ m[c] = Node(kind, header) /\ Kid(m, a, c) /\ c \in Ids(m) /\ a \in Ids(m)
  BY <1>1, <1>3, <1>6 DEF Links, But, Ids
<1>12. Reach(m, a, c)
  BY <1>11, ReachSelf, ReachKid
<1>13. PushNew(ns, a, Node(kind, header)) = m
  BY DEF PushNew, m, new, c
<1> QED BY <1>4, <1>6, <1>8, <1>10, <1>11, <1>12, <1>13 DEF c, new

\* The node of a key is a kid, and known.
LEMMA GotNode ==
  ASSUME NEW ns, Heap(ns), NEW t \in Ids(ns), NEW k, Has(ns, t, k)
  PROVE  /\ k \in Keys /\ Get(ns, t, k) \in Ids(ns) /\ Kid(ns, t, Get(ns, t, k))
         /\ Edge(ns, t, Step(k), Get(ns, t, k))
         /\ Reach(ns, t, Get(ns, t, k))
<1>1. k \in DOMAIN ns[t].lookup
  BY DEF Has
<1>2. /\ k \in Keys /\ Get(ns, t, k) \in Ids(ns) /\ Edge(ns, t, Step(k), Get(ns, t, k))
      /\ Kid(ns, t, Get(ns, t, k))
  BY <1>1, Edges
<1> QED BY <1>2, ReachSelf, ReachKid

\* A report on a node that is reached.
LEMMA ReportLeads ==
  ASSUME NEW ns, Heap(ns), NEW roots, Forest(ns, roots), NEW t \in Ids(ns),
         NEW x \in Ids(ns), Reach(ns, t, x), NEW e \in Errors
  PROVE  /\ Heap(Report(ns, x, e)) /\ Grows(ns, Report(ns, x, e))
         /\ Forest(Report(ns, x, e), roots)
         /\ Report(ns, x, e)[x].errors # {} /\ Complains(Report(ns, x, e), t)
         /\ Reach(Report(ns, x, e), t, x) /\ Len(Report(ns, x, e)) = Len(ns)
         /\ \A z \in Ids(ns) : /\ Report(ns, x, e)[z].kind = ns[z].kind
                               /\ Report(ns, x, e)[z].items = ns[z].items
                               /\ Report(ns, x, e)[z].lookup = ns[z].lookup
<1> DEFINE m == Report(ns, x, e)
<1>1. /\ Heap(m) /\ But(ns, m, x) /\ m[x].errors # {} /\ m[x].kind = ns[x].kind
      /\ m[x].items = ns[x].items /\ m[x].lookup = ns[x].lookup
  BY ReportNode
<1>2. Grows(ns, m) /\ Forest(m, roots)
  BY GrowsReport, ForestReport
<1> HIDE DEF m
<1>3. Reach(m, t, x) /\ x \in Ids(m)
  BY <1>1, <1>2, ReachGrows, GrowsIds
<1>4. \A z \in Ids(ns) : m[z].kind = ns[z].kind /\ m[z].items = ns[z].items
                         /\ m[z].lookup = ns[z].lookup
  BY <1>1 DEF But
<1>5. Complains(m, t)
  BY <1>1, <1>3 DEF Complains
<1>6. Len(m) = Len(ns)
  BY <1>1 DEF But
<1> QED BY <1>1, <1>2, <1>3, <1>4, <1>5, <1>6 DEF m

\* A complaint stays.
LEMMA ComplainsGrows ==
  ASSUME NEW ns, Heap(ns), NEW m, Grows(ns, m), NEW t, Complains(ns, t)
  PROVE  Complains(m, t)
<1>1. PICK x \in Ids(ns) : Reach(ns, t, x) /\ ns[x].errors # {}
  BY DEF Complains
<1>2. Reach(m, t, x) /\ x \in Ids(m) /\ m[x].errors # {}
  BY <1>1, ReachGrows, GrowsIds DEF Grows
<1> QED BY <1>2 DEF Complains

\* An error below a node is below those above it.
LEMMA ComplainsFar ==
  ASSUME NEW ns, NEW r, NEW t, Reach(ns, r, t), Complains(ns, t)
  PROVE  Complains(ns, r)
BY ReachFar DEF Complains

\* The kinds and errors that the code makes (no solver knows that they are strings).
LEMMA KindsAre ==
  /\ "pseudo" \in Kinds /\ "regular" \in Kinds /\ "tables" \in Kinds
  /\ "ConflictingKeys" \in Errors /\ "ExpectedTable" \in Errors /\ "ExpectedArrayOfTables" \in Errors
  /\ "pseudo" \in Tables /\ "regular" \in Tables /\ "inline" \in Tables /\ "tables" \in Arrays
BY DEF Kinds, Errors, Tables, Arrays

\* A table is made for a key, in a table that has an error if it has the key.
LEMMA CreatedLeads ==
  ASSUME NEW ns, Heap(ns), NEW roots, Forest(ns, roots), NEW t \in Ids(ns), IsTable(ns, t),
         NEW k \in Keys, NEW kind \in Tables, NEW header \in BOOLEAN,
         ~Has(ns, t, k) \/ ns[t].errors # {}
  PROVE  Leads(ns, t, Created(At(ns, t), k, Node(kind, header)), roots)
<1> DEFINE at == Created(At(ns, t), k, Node(kind, header))
<1>1. kind \in Kinds
  BY DEF Kinds
<1>2. /\ Grows(ns, at.nodes) /\ Forest(at.nodes, roots) /\ at.id \in Ids(at.nodes)
      /\ at.nodes[at.id] = Node(kind, header) /\ Reach(at.nodes, t, at.id)
  BY <1>1, CreatedNode
<1> HIDE DEF at
<1>3. IsTable(at.nodes, at.id)
  BY <1>1, <1>2, NewRecord DEF IsTable
<1>4. Leads(ns, t, at, roots)
  BY <1>2, <1>3 DEF Leads, TableOf
<1> QED BY <1>4 DEF at

\* The same after a report on the table.
LEMMA ReportedLeads ==
  ASSUME NEW ns, Heap(ns), NEW roots, Forest(ns, roots), NEW t \in Ids(ns), IsTable(ns, t),
         NEW k \in Keys, NEW kind \in Tables, NEW header \in BOOLEAN, NEW e \in Errors
  PROVE  LET at == Created(At(Report(ns, t, e), t), k, Node(kind, header))
         IN Leads(ns, t, at, roots) /\ Complains(at.nodes, t)
<1> DEFINE m == Report(ns, t, e)
           at == Created(At(m, t), k, Node(kind, header))
<1>1. Reach(ns, t, t)
  BY ReachSelf
<1>2. /\ Heap(m) /\ Grows(ns, m) /\ Forest(m, roots) /\ m[t].errors # {} /\ Complains(m, t)
      /\ t \in Ids(m) /\ IsTable(m, t)
  BY <1>1, ReportLeads, GrowsIds
<1> HIDE DEF m
<1>3. Leads(m, t, at, roots)
  BY <1>2, CreatedLeads
<1> HIDE DEF at
<1>4. Grows(m, at.nodes)
  BY <1>3 DEF Leads
<1>5. Complains(at.nodes, t) /\ Grows(ns, at.nodes)
  BY <1>2, <1>4, ComplainsGrows, GrowsTwice
<1>6. Leads(ns, t, at, roots) /\ Complains(at.nodes, t)
  BY <1>3, <1>5 DEF Leads
<1> QED BY <1>6 DEF at, m

\* Nothing is done, and the table is below the one before.
LEMMA StaysLeads ==
  ASSUME NEW ns, Heap(ns), NEW roots, Forest(ns, roots), NEW t \in Ids(ns), NEW x \in Ids(ns),
         Reach(ns, t, x), IsTable(ns, x)
  PROVE  Leads(ns, t, At(ns, x), roots)
BY GrowsNot DEF Leads, At, TableOf

\* A report on a node below the table.
LEMMA ReportStaysLeads ==
  ASSUME NEW ns, Heap(ns), NEW roots, Forest(ns, roots), NEW t \in Ids(ns), NEW x \in Ids(ns),
         Reach(ns, t, x), NEW z \in Ids(ns), Reach(ns, t, z), IsTable(ns, z), NEW e \in Errors
  PROVE  /\ Leads(ns, t, At(Report(ns, x, e), z), roots)
         /\ Complains(Report(ns, x, e), t)
<1> DEFINE m == Report(ns, x, e)
<1>1. Heap(m) /\ Grows(ns, m) /\ Forest(m, roots) /\ Complains(m, t)
  BY ReportLeads
<1> HIDE DEF m
<1>2. z \in Ids(m) /\ IsTable(m, z) /\ Reach(m, t, z)
  BY <1>1, GrowsIds, ReachGrows
<1>3. Leads(ns, t, At(m, z), roots)
  BY <1>1, <1>2 DEF Leads, At, TableOf
<1> QED BY <1>1, <1>3 DEF m

\* The same operations, by heap and table.
LEMMA ReportedAt ==
  ASSUME NEW ns, NEW t, NEW e
  PROVE  Reported(At(ns, t), e) = At(Report(ns, t, e), t)
BY DEF Reported, At

LEMMA MergeTableAt ==
  ASSUME NEW ns, NEW t, NEW x
  PROVE  MergeTable(At(ns, t), x) =
            At(IF ns[x].kind = "inline" THEN Report(ns, x, "ExpectedTable") ELSE ns, x)
BY DEF MergeTable, At

\* A key of an entry.
LEMMA MergeKeyLeads ==
  ASSUME NEW ns, Heap(ns), NEW roots, Forest(ns, roots), NEW t \in Ids(ns), IsTable(ns, t),
         NEW k \in Keys
  PROVE  LET at == MergeKey(At(ns, t), k)
         IN /\ Leads(ns, t, at, roots)
            /\ Has(ns, t, k) /\ ns[Get(ns, t, k)].kind # "pseudo" => Complains(at.nodes, t)
<1> DEFINE at == MergeKey(At(ns, t), k)
           x == Get(ns, t, k)
<1>1. CASE ~Has(ns, t, k)
  <2>1. at = Created(At(ns, t), k, Node("pseudo", FALSE))
    BY <1>1 DEF MergeKey, At
  <2>2. Leads(ns, t, Created(At(ns, t), k, Node("pseudo", FALSE)), roots)
    BY <1>1, KindsAre, CreatedLeads
  <2> QED BY <2>1, <2>2, <1>1
<1>2. CASE Has(ns, t, k) /\ ns[x].kind = "pseudo"
  <2>1. at = At(ns, x)
    BY <1>2 DEF MergeKey, At
  <2>2. x \in Ids(ns) /\ Reach(ns, t, x) /\ IsTable(ns, x)
    BY <1>2, GotNode, KindsAre DEF IsTable
  <2>3. Leads(ns, t, At(ns, x), roots)
    BY <2>2, StaysLeads
  <2> QED BY <2>1, <2>3, <1>2
<1>3. CASE Has(ns, t, k) /\ ns[x].kind # "pseudo"
  <2> DEFINE to == Created(At(Report(ns, t, "ConflictingKeys"), t), k, Node("pseudo", FALSE))
  <2>1. at = Created(Reported(At(ns, t), "ConflictingKeys"), k, Node("pseudo", FALSE))
    <3> HIDE DEF to
    <3>1. At(ns, t).nodes = ns /\ At(ns, t).id = t
      BY DEF At
    <3> QED BY <1>3, <3>1 DEF MergeKey
  <2>2. Leads(ns, t, to, roots) /\ Complains(to.nodes, t)
    BY KindsAre, ReportedLeads
  <2>3. Reported(At(ns, t), "ConflictingKeys") = At(Report(ns, t, "ConflictingKeys"), t)
    BY ReportedAt
  <2>4. at = to
    BY <2>1, <2>3
  <2> HIDE DEF to, at
  <2> QED BY <2>4, <2>2 DEF at
<1> QED BY <1>1, <1>2, <1>3

\* A value goes into a table.
LEMMA AddEntryLeads ==
  ASSUME NEW ns, Heap(ns), NEW roots, Forest(ns, roots), NEW t \in Ids(ns), IsTable(ns, t),
         NEW k \in Keys, NEW c \in roots
  PROVE  LET m == AddEntry(At(ns, t), k, c)
         IN /\ Grows(ns, m) /\ Forest(m, roots \ {c}) /\ Len(m) = Len(ns)
            /\ t \in Ids(m) /\ Kid(m, t, c) /\ Reach(m, t, c)
            /\ \A z \in Ids(ns) : m[z].items = ns[z].items
            /\ Has(ns, t, k) => Complains(m, t)
            /\ ~Has(ns, t, k) => Links(ns, m, t, Step(k), c)
<1> DEFINE b == IF Has(ns, t, k) THEN Report(ns, t, "ConflictingKeys") ELSE ns
           m == Add(b, t, k, c)
<1>1. AddEntry(At(ns, t), k, c) = m
  BY DEF AddEntry, At, Reported
<1>2. c \in Ids(ns)
  BY DEF Forest
<1>3. /\ Heap(b) /\ Grows(ns, b) /\ Forest(b, roots) /\ Len(b) = Len(ns)
      /\ \A z \in Ids(ns) : b[z].kind = ns[z].kind /\ b[z].items = ns[z].items
                            /\ b[z].lookup = ns[z].lookup
      /\ Has(ns, t, k) => b[t].errors # {} /\ Complains(b, t)
  <2>1. CASE Has(ns, t, k)
    BY <2>1, ReachSelf, ReportLeads, KindsAre
  <2>2. CASE ~Has(ns, t, k)
    BY <2>2, GrowsNot
  <2> QED BY <2>1, <2>2
<1>4. ~Has(ns, t, k) => b = ns
  OBVIOUS
<1> HIDE DEF b
<1>5. t \in Ids(b) /\ c \in Ids(b) /\ IsTable(b, t) /\ (~Has(b, t, k) \/ b[t].errors # {})
  BY <1>2, <1>3 DEF Ids, IsTable, Has
<1>6. Heap(m) /\ Links(b, m, t, Step(k), c) /\ m[t].items = b[t].items
  BY <1>3, <1>5, AddLinks
<1> HIDE DEF m
<1>7. Grows(b, m) /\ Forest(m, roots \ {c})
  BY <1>3, <1>5, <1>6, GrowsLink, ForestLink
<1>8. Grows(ns, m)
  BY <1>3, <1>7, GrowsTwice
<1>9. Len(m) = Len(ns) /\ t \in Ids(m) /\ c \in Ids(m) /\ Kid(m, t, c)
  BY <1>2, <1>3, <1>6 DEF Links, But, Ids
<1>10. Reach(m, t, c)
  BY <1>9, ReachSelf, ReachKid
<1>11. \A z \in Ids(ns) : m[z].items = ns[z].items
  BY <1>3, <1>6 DEF Links, But, Ids
<1>12. Has(ns, t, k) => Complains(m, t)
  BY <1>3, <1>7, ComplainsGrows
<1>13. ~Has(ns, t, k) => Links(ns, m, t, Step(k), c)
  BY <1>4, <1>6
<1> HIDE DEF b
<1> QED BY <1>1, <1>7, <1>8, <1>9, <1>10, <1>11, <1>12, <1>13

\* A new node in an array below the table, after a report or none.
LEMMA PushedLeads ==
  ASSUME NEW ns, Heap(ns), NEW roots, Forest(ns, roots), NEW t \in Ids(ns),
         NEW a \in Ids(ns), Reach(ns, t, a), IsArray(ns, a),
         NEW kind \in Tables, NEW header \in BOOLEAN
  PROVE  Leads(ns, t, [nodes |-> PushNew(ns, a, Node(kind, header)), id |-> Len(ns) + 1], roots)
<1> DEFINE m == PushNew(ns, a, Node(kind, header))
           c == Len(ns) + 1
<1>1. kind \in Kinds
  BY DEF Kinds
<1>2. Grows(ns, m) /\ Forest(m, roots) /\ c \in Ids(m) /\ m[c] = Node(kind, header) /\ Reach(m, a, c)
  BY <1>1, PushedNode
<1> HIDE DEF m, c
<1>3. IsTable(m, c)
  BY <1>1, <1>2, NewRecord DEF IsTable
<1>4. Reach(m, t, a)
  BY <1>2, ReachGrows
<1>5. Reach(m, t, c)
  BY <1>2, <1>4, ReachFar
<1>6. Leads(ns, t, [nodes |-> m, id |-> c], roots)
  BY <1>2, <1>3, <1>5 DEF Leads, TableOf
<1> QED BY <1>6 DEF m, c

\* One thing after the other.
LEMMA LeadsFar ==
  ASSUME NEW ns, Heap(ns), NEW m, Grows(ns, m), NEW t, NEW at, NEW roots,
         Leads(m, t, at, roots)
  PROVE  Leads(ns, t, at, roots)
BY GrowsTwice DEF Leads

\* A key of a header that is not the last one.
LEMMA MergeArrayLeads ==
  ASSUME NEW ns, Heap(ns), NEW roots, Forest(ns, roots), NEW t \in Ids(ns),
         NEW a \in Ids(ns), Reach(ns, t, a), IsArray(ns, a)
  PROVE  LET at == MergeArray(At(ns, t), a)
         IN /\ Leads(ns, t, at, roots)
            /\ ns[a].kind # "tables" => Complains(at.nodes, t)
<1> DEFINE b == IF ns[a].kind # "tables" THEN Report(ns, a, "ExpectedArrayOfTables") ELSE ns
           items == b[a].items
           last == items[Len(items)]
           some == items # << >> /\ IsTable(b, last)
           c == Len(b) + 1
           new == PushNew(b, a, Node("pseudo", TRUE))
<1>1. MergeArray(At(ns, t), a) = IF some THEN [nodes |-> b, id |-> last] ELSE [nodes |-> new, id |-> c]
  BY DEF MergeArray, At
<1>2. /\ Heap(b) /\ Grows(ns, b) /\ Forest(b, roots) /\ Len(b) = Len(ns)
      /\ ns[a].kind # "tables" => Complains(b, t)
      /\ Reach(b, t, a)
  <2>1. CASE ns[a].kind # "tables"
    BY <2>1, ReportLeads, KindsAre
  <2>2. CASE ns[a].kind = "tables"
    BY <2>2, GrowsNot
  <2> QED BY <2>1, <2>2
<1> HIDE DEF b
<1>3. a \in Ids(b) /\ t \in Ids(b) /\ IsArray(b, a)
  BY <1>2 DEF Ids, Grows, IsArray
<1>4. CASE some
  <2>1. b[a] \in NodeRec /\ Agrees(b[a], Len(b)) /\ Len(b) \in Nat
    BY <1>2, <1>3, HeapTypes
  <2>2. items \in Seq(Nat) /\ Len(items) \in Nat /\ \A i \in 1..Len(items) : items[i] \in Ids(b)
    BY <2>1, NodeTypes DEF Ids
  <2>3. Len(items) \in 1..Len(items)
    BY <2>2, <1>4, EmptySeq
  <2>4. last \in Ids(b) /\ Kid(b, a, last)
    BY <2>2, <2>3 DEF Kid
  <2> HIDE DEF last
  <2>5. Reach(b, t, last)
    BY <2>4, <1>2, ReachKid
  <2>6. Leads(b, t, At(b, last), roots)
    BY <1>2, <1>3, <1>4, <2>4, <2>5, StaysLeads
  <2>7. Leads(ns, t, At(b, last), roots)
    BY <1>2, <2>6, LeadsFar
  <2>8. MergeArray(At(ns, t), a) = At(b, last)
    BY <1>1, <1>4 DEF At
  <2> HIDE DEF some
  <2> QED BY <1>2, <2>7, <2>8 DEF At
<1>5. CASE ~some
  <2> HIDE DEF some
  <2>1. Leads(b, t, [nodes |-> new, id |-> c], roots)
    BY <1>2, <1>3, KindsAre, PushedLeads
  <2> HIDE DEF new, c
  <2>2. Leads(ns, t, [nodes |-> new, id |-> c], roots)
    BY <1>2, <2>1, LeadsFar
  <2>3. Grows(b, new)
    BY <2>1 DEF Leads
  <2>4. ns[a].kind # "tables" => Complains(new, t)
    BY <1>2, <2>3, ComplainsGrows
  <2>5. MergeArray(At(ns, t), a) = [nodes |-> new, id |-> c]
    BY <1>1, <1>5
  <2> QED BY <2>2, <2>4, <2>5
<1> QED BY <1>4, <1>5

\* A key of a header comes to a table below; a value that is in its way has an error then.
LEMMA MergeIntermediateLeads ==
  ASSUME NEW ns, Heap(ns), NEW roots, Forest(ns, roots), NEW t \in Ids(ns), IsTable(ns, t),
         NEW k \in Keys
  PROVE  LET at == MergeIntermediate(At(ns, t), k)
         IN /\ Leads(ns, t, at, roots)
            /\ Has(ns, t, k) /\ ns[Get(ns, t, k)].kind \notin {"regular", "pseudo", "tables"} =>
                  Complains(at.nodes, t)
<1> DEFINE at == MergeIntermediate(At(ns, t), k)
           x == Get(ns, t, k)
<1>1. CASE ~Has(ns, t, k)
  <2>1. at = Created(At(ns, t), k, Node("pseudo", TRUE))
    BY <1>1 DEF MergeIntermediate, At
  <2>2. Leads(ns, t, Created(At(ns, t), k, Node("pseudo", TRUE)), roots)
    BY <1>1, KindsAre, CreatedLeads
  <2> QED BY <2>1, <2>2, <1>1
<1>2. CASE Has(ns, t, k) /\ IsTable(ns, x)
  <2>0. x \in Ids(ns) /\ Reach(ns, t, x)
    BY <1>2, GotNode
  <2>1. at = IF ns[x].kind = "inline" THEN At(Report(ns, x, "ExpectedTable"), x) ELSE At(ns, x)
    <3>1. At(ns, t).nodes = ns /\ At(ns, t).id = t
      BY DEF At
    <3>0. ~IsArray(ns, x)
      BY <1>2 DEF IsTable, IsArray, Tables, Arrays
    <3>2. at = MergeTable(At(ns, t), x)
      BY <1>2, <3>0, <3>1 DEF MergeIntermediate
    <3> QED BY <3>2, MergeTableAt
  <2> HIDE DEF x, at
  <2>2. CASE ns[x].kind = "inline"
    <3>1. Leads(ns, t, At(Report(ns, x, "ExpectedTable"), x), roots)
          /\ Complains(Report(ns, x, "ExpectedTable"), t)
      BY <1>2, <2>0, KindsAre, ReportStaysLeads
    <3>2. at.nodes = Report(ns, x, "ExpectedTable")
      BY <2>1, <2>2 DEF At
    <3> QED BY <2>1, <2>2, <3>1, <3>2 DEF at, x
  <2>3. CASE ns[x].kind # "inline"
    <3>1. Leads(ns, t, At(ns, x), roots)
      BY <1>2, <2>0, StaysLeads
    <3>2. ns[x].kind \in {"regular", "pseudo", "tables"}
      BY <1>2, <2>3 DEF IsTable, Tables
    <3> QED BY <2>1, <2>3, <3>1, <3>2 DEF at, x
  <2> QED BY <2>2, <2>3
<1>3. CASE Has(ns, t, k) /\ ~IsTable(ns, x) /\ IsArray(ns, x)
  <2>0. x \in Ids(ns) /\ Reach(ns, t, x)
    BY <1>3, GotNode
  <2>1. at = MergeArray(At(ns, t), x)
    BY <1>3 DEF MergeIntermediate, At
  <2> HIDE DEF x, at
  <2>2. Leads(ns, t, MergeArray(At(ns, t), x), roots)
        /\ (ns[x].kind # "tables" => Complains(MergeArray(At(ns, t), x).nodes, t))
    BY <1>3, <2>0, MergeArrayLeads
  <2> QED BY <2>1, <2>2 DEF at, x
<1>4. CASE Has(ns, t, k) /\ ~IsTable(ns, x) /\ ~IsArray(ns, x)
  <2> DEFINE to == Created(At(Report(ns, t, "ExpectedTable"), t), k, Node("pseudo", TRUE))
  <2>1. at = to
    <3> HIDE DEF to
    <3>1. At(ns, t).nodes = ns /\ At(ns, t).id = t
      BY DEF At
    <3>2. at = Created(Reported(At(ns, t), "ExpectedTable"), k, Node("pseudo", TRUE))
      BY <1>4, <3>1 DEF MergeIntermediate
    <3>3. Reported(At(ns, t), "ExpectedTable") = At(Report(ns, t, "ExpectedTable"), t)
      BY ReportedAt
    <3> QED BY <3>2, <3>3 DEF to
  <2>2. Leads(ns, t, to, roots) /\ Complains(to.nodes, t)
    BY KindsAre, ReportedLeads
  <2> HIDE DEF to, at
  <2> QED BY <2>1, <2>2 DEF at
<1> QED BY <1>1, <1>2, <1>3, <1>4

\* The last key of a header.
LEMMA OpenTableLeads ==
  ASSUME NEW ns, Heap(ns), NEW roots, Forest(ns, roots), NEW t \in Ids(ns), IsTable(ns, t),
         NEW k \in Keys
  PROVE  LET at == OpenTable(At(ns, t), k)
             x == Get(ns, t, k)
         IN /\ Leads(ns, t, at, roots)
            /\ Has(ns, t, k) /\ ~(ns[x].kind = "pseudo" /\ ns[x].header) => Complains(at.nodes, t)
<1> DEFINE at == OpenTable(At(ns, t), k)
           x == Get(ns, t, k)
           implied == ns[x].kind = "pseudo" /\ ns[x].header
<1>1. CASE ~Has(ns, t, k)
  <2>1. at = Created(At(ns, t), k, Node("regular", TRUE))
    BY <1>1 DEF OpenTable, At
  <2>2. Leads(ns, t, Created(At(ns, t), k, Node("regular", TRUE)), roots)
    BY <1>1, KindsAre, CreatedLeads
  <2> QED BY <2>1, <2>2, <1>1
<1>2. CASE Has(ns, t, k) /\ IsTable(ns, x)
  <2>0. x \in Ids(ns) /\ Reach(ns, t, x)
    BY <1>2, GotNode
  <2>1. at = IF implied THEN At(ns, x) ELSE At(Report(ns, x, "ConflictingKeys"), x)
    BY <1>2 DEF OpenTable, At
  <2> HIDE DEF x, at
  <2>2. CASE implied
    <3>1. Leads(ns, t, At(ns, x), roots)
      BY <1>2, <2>0, StaysLeads
    <3> QED BY <2>1, <2>2, <3>1 DEF at, x
  <2>3. CASE ~implied
    <3>1. Leads(ns, t, At(Report(ns, x, "ConflictingKeys"), x), roots)
          /\ Complains(Report(ns, x, "ConflictingKeys"), t)
      BY <1>2, <2>0, KindsAre, ReportStaysLeads
    <3>2. at.nodes = Report(ns, x, "ConflictingKeys")
      BY <2>1, <2>3 DEF At
    <3> QED BY <2>1, <2>3, <3>1, <3>2 DEF at, x
  <2> QED BY <2>2, <2>3
<1>3. CASE Has(ns, t, k) /\ ~IsTable(ns, x)
  <2>0. Reach(ns, t, t)
    BY ReachSelf
  <2>1. at = At(Report(ns, t, "ConflictingKeys"), t)
    BY <1>3 DEF OpenTable, At, Reported
  <2>2. Leads(ns, t, At(Report(ns, t, "ConflictingKeys"), t), roots)
        /\ Complains(Report(ns, t, "ConflictingKeys"), t)
    BY <2>0, KindsAre, ReportStaysLeads
  <2>3. at.nodes = Report(ns, t, "ConflictingKeys")
    BY <2>1 DEF At
  <2> HIDE DEF at
  <2> QED BY <2>1, <2>2, <2>3 DEF at
<1> QED BY <1>1, <1>2, <1>3

\* The header of an array comes to a table below; what is no such array has an error.
LEMMA OpenItemLeads ==
  ASSUME NEW ns, Heap(ns), NEW roots, Forest(ns, roots), NEW t \in Ids(ns), IsTable(ns, t),
         NEW k \in Keys
  PROVE  LET at == OpenItem(At(ns, t), k)
         IN /\ Leads(ns, t, at, roots)
            /\ Has(ns, t, k) /\ ns[Get(ns, t, k)].kind # "tables" => Complains(at.nodes, t)
<1> DEFINE at == OpenItem(At(ns, t), k)
           x == Get(ns, t, k)
<1>1. CASE ~Has(ns, t, k)
  <2> DEFINE fresh == Created(At(ns, t), k, Node("tables", FALSE))
             m == fresh.nodes
             a == fresh.id
             to == [nodes |-> PushNew(m, a, Node("regular", TRUE)), id |-> Len(m) + 1]
  <2>1. /\ Grows(ns, m) /\ Forest(m, roots) /\ a \in Ids(m)
        /\ m[a] = Node("tables", FALSE) /\ Reach(m, t, a)
    BY <1>1, KindsAre, CreatedNode, ZenonT(30)
  <2> HIDE DEF fresh
  <2>2. IsArray(m, a) /\ m[a].kind = "tables"
    BY <2>1, KindsAre, NewRecord DEF IsArray
  <2>3. at = to
    BY <2>2, <1>1 DEF OpenItem, At, fresh
  <2> HIDE DEF m, a, at
  <2>4. Heap(m) /\ t \in Ids(m)
    BY <2>1, ReachIds DEF Grows
  <2>5. Leads(m, t, to, roots)
    BY <2>1, <2>2, <2>4, KindsAre, PushedLeads
  <2> HIDE DEF to
  <2>6. Leads(ns, t, to, roots)
    BY <2>1, <2>5, LeadsFar
  <2> QED BY <1>1, <2>3, <2>6 DEF at
<1>2. CASE Has(ns, t, k)
  <2> DEFINE m == IF ns[x].kind = "tables" THEN ns ELSE Report(ns, x, "ExpectedArrayOfTables")
             to == [nodes |-> PushNew(m, x, Node("regular", TRUE)), id |-> Len(m) + 1]
  <2>0. x \in Ids(ns) /\ Reach(ns, t, x)
    BY <1>2, GotNode
  <2>1. at = IF IsArray(m, x) THEN to ELSE At(m, t)
    BY <1>2 DEF OpenItem, At
  <2> HIDE DEF x, at
  <2>2. /\ Heap(m) /\ Grows(ns, m) /\ Forest(m, roots)
        /\ Reach(m, t, x) /\ (ns[x].kind # "tables" => Complains(m, t))
    <3>1. CASE ns[x].kind = "tables"
      BY <2>0, <3>1, GrowsNot
    <3>2. CASE ns[x].kind # "tables"
      BY <2>0, <3>2, ReportLeads, KindsAre
    <3> QED BY <3>1, <3>2
  <2> HIDE DEF m
  <2>3. t \in Ids(m) /\ x \in Ids(m) /\ IsTable(m, t)
    BY <2>2, ReachIds, GrowsIds
  <2>4. Leads(m, t, IF IsArray(m, x) THEN to ELSE At(m, t), roots)
    <3>1. CASE IsArray(m, x)
      <4>1. Leads(m, t, to, roots)
        BY <2>2, <2>3, <3>1, KindsAre, PushedLeads
      <4> HIDE DEF to
      <4> QED BY <4>1, <3>1
    <3>2. CASE ~IsArray(m, x)
      <4>1. Leads(m, t, At(m, t), roots)
        BY <2>2, <2>3, ReachSelf, StaysLeads
      <4> QED BY <4>1, <3>2
    <3> QED BY <3>1, <3>2
  <2>5. Leads(m, t, at, roots)
    BY <2>1, <2>4
  <2>6. Leads(ns, t, at, roots)
    BY <2>2, <2>5, LeadsFar
  <2>7. Grows(m, at.nodes)
    BY <2>5 DEF Leads
  <2>8. ns[x].kind # "tables" => Complains(at.nodes, t)
    BY <2>2, <2>7, ComplainsGrows
  <2> QED BY <2>6, <2>8 DEF at, x
<1> QED BY <1>1, <1>2

-----------------------------------------------------------------------------
(* The values that are being read *)

\* The stack of the values that are being read is a sequence.
LEMMA StackTypes ==
  ASSUME NEW ns, NEW stack, Stacked(ns, stack)
  PROVE  /\ Len(stack) \in Nat /\ Len(stack) >= 1 /\ Len(stack) \in 1..Len(stack) /\ 1 \in 1..Len(stack)
         /\ stack \in Seq({stack[i] : i \in 1..Len(stack)})
         /\ DOMAIN stack = 1..Len(stack)
<1>1. Len(stack) \in Nat /\ Len(stack) >= 1 /\ stack = [i \in 1..Len(stack) |-> stack[i]]
  BY DEF Stacked
<1> DEFINE S == {stack[i] : i \in 1..Len(stack)}
<1>2. stack \in [1..Len(stack) -> S]
  BY <1>1
<1>3. DOMAIN stack = 1..Len(stack)
  BY <1>1
<1> HIDE DEF S
<1>4. stack \in Seq(S)
  BY <1>1, <1>2, IsASeq
<1>5. Len(stack) \in 1..Len(stack) /\ 1 \in 1..Len(stack)
  BY <1>1
<1> QED BY <1>1, <1>3, <1>4, <1>5 DEF S

\* What the assumption says of one value.
LEMMA ValueKinds ==
  ASSUME NEW v \in Values
  PROVE  /\ v.kind \in {"scalar", "inline", "list"} /\ v.kind \in Kinds /\ v.kind # "document"
         /\ v.kind = "inline" => v.entries \in Seq([keys : Dotted, value : Values])
         /\ v.kind = "list" => v.items \in Seq(Values)
<1>1. v.kind \in {"scalar", "inline", "list"}
  BY ValuesAssumption
<1>2. v.kind \in Kinds /\ v.kind # "document"
  BY <1>1 DEF Kinds, Tables, Arrays
<1> QED BY <1>1, <1>2, ValuesAssumption

\* What is being read is the document, or a value in it.
LEMMA TopKind ==
  ASSUME NEW ns, NEW stack, Stacked(ns, stack), NEW i \in 1..Len(stack),
         stack[i].value.kind # "document"
  PROVE  i \in 2..Len(stack) /\ i - 1 \in 1..Len(stack) /\ IsFrame(stack[i])
         /\ stack[i].value \in Values
<1>1. i # 1 /\ Len(stack) \in Nat
  BY DEF Stacked
<1>2. i \in 2..Len(stack) /\ i - 1 \in 1..Len(stack)
  BY <1>1
<1> QED BY <1>2 DEF Stacked, IsFrame

\* A heap that grows leaves the stack as it is.
LEMMA StackedGrows ==
  ASSUME NEW ns, Heap(ns), NEW m, Grows(ns, m), NEW stack, Stacked(ns, stack),
         Roots(stack) \subseteq Ids(ns)
  PROVE  Stacked(m, stack)
<1>1. \A i \in 1..Len(stack) : stack[i].id \in Ids(ns)
  BY DEF Roots
<1>2. \A i \in 2..Len(stack) : i \in 1..Len(stack)
  OBVIOUS
<1>3. \A i \in 2..Len(stack) : m[stack[i].id].kind = ns[stack[i].id].kind
  BY <1>1, <1>2 DEF Grows
<1>4. \A i \in 2..Len(stack) : m[stack[i].id].kind = stack[i].value.kind
  BY <1>3 DEF Stacked
<1>5. \A i \in 2..Len(stack) :
        /\ IsFrame(stack[i]) 
        /\ stack[i].keys = << >> => stack[i - 1].value.kind = "list"
        /\ stack[i].keys # << >> => i = 2 \/ stack[i - 1].value.kind = "inline"
  BY DEF Stacked
<1>6. \A i \in 1..Len(stack) :
        stack[i] = [id |-> stack[i].id, value |-> stack[i].value,
                    keys |-> stack[i].keys, next |-> stack[i].next]
  BY DEF Stacked
<1>7. /\ Len(stack) \in Nat \ {0} /\ stack = [i \in 1..Len(stack) |-> stack[i]]
      /\ stack[1].id = Root /\ stack[1].value.kind = "document" /\ stack[1].next \in Nat
      /\ \A i, j \in 1..Len(stack) : stack[i].id = stack[j].id => i = j
  BY DEF Stacked
<1> QED BY <1>4, <1>5, <1>6, <1>7 DEF Stacked

\* One part more of the last value has been read.
LEMMA NextStack ==
  ASSUME NEW ns, NEW stack, Stacked(ns, stack)
  PROVE  LET t == Next_(stack)
         IN /\ Stacked(ns, t) /\ Len(t) = Len(stack) /\ Roots(t) = Roots(stack)
            /\ \A i \in 1..Len(stack) :
                 /\ t[i].id = stack[i].id /\ t[i].value = stack[i].value /\ t[i].keys = stack[i].keys
                 /\ t[i].next = IF i = Len(stack) THEN stack[i].next + 1 ELSE stack[i].next
<1> DEFINE n == Len(stack)
           f == [id |-> stack[n].id, value |-> stack[n].value,
                 keys |-> stack[n].keys, next |-> stack[n].next + 1]
           t == [stack EXCEPT ![n] = f]
<1>1. n \in Nat /\ n >= 1 /\ n \in 1..n /\ DOMAIN stack = 1..n
      /\ stack \in Seq({stack[i] : i \in 1..n})
  BY StackTypes
<1>2. stack[n] = [id |-> stack[n].id, value |-> stack[n].value,
                  keys |-> stack[n].keys, next |-> stack[n].next]
  BY <1>1 DEF Stacked
<1>3. Next_(stack) = t
  <2> DEFINE r == stack[n]
             a == r.id
             b == r.value
             c == r.keys
             d == r.next
  <2>1. r = [id |-> a, value |-> b, keys |-> c, next |-> d]
    BY <1>2
  <2> HIDE DEF r, a, b, c, d
  <2>2. [r EXCEPT !.next = d + 1] = [id |-> a, value |-> b, keys |-> c, next |-> d + 1]
    BY <2>1
  <2>3. [r EXCEPT !.next = r.next + 1] = f
    BY <2>2 DEF r, a, b, c, d
  <2> HIDE DEF f
  <2>4. [stack EXCEPT ![n] = [r EXCEPT !.next = r.next + 1]] = t
    BY <2>3
  <2> QED BY <2>4 DEF Next_, r
<1>4. DOMAIN t = 1..n /\ t[n] = f /\ \A i \in 1..n : i # n => t[i] = stack[i]
  BY <1>1
<1>5. t = [i \in 1..n |-> t[i]]
  BY <1>1
<1> DEFINE S == {t[i] : i \in 1..n}
<1>6. t \in Seq(S) /\ Len(t) = n
  <2>1. t \in [1..n -> S]
    BY <1>5
  <2> HIDE DEF t, S
  <2> QED BY <1>1, <2>1, IsASeq, LenProperties
<1>7. f.id = stack[n].id /\ f.value = stack[n].value /\ f.keys = stack[n].keys
      /\ f.next = stack[n].next + 1
      /\ f = [id |-> f.id, value |-> f.value, keys |-> f.keys, next |-> f.next]
  OBVIOUS
<1> HIDE DEF t, f
<1>8. \A i \in 1..n :
         /\ t[i].id = stack[i].id /\ t[i].value = stack[i].value /\ t[i].keys = stack[i].keys
         /\ t[i].next = IF i = n THEN stack[i].next + 1 ELSE stack[i].next
  BY <1>4, <1>7
<1>9. Roots(t) = Roots(stack)
  BY <1>6, <1>8 DEF Roots
<1>10. \A i \in 1..n : t[i] = [id |-> t[i].id, value |-> t[i].value,
                               keys |-> t[i].keys, next |-> t[i].next]
  <2>1. \A i \in 1..n : i # n => t[i] = [id |-> t[i].id, value |-> t[i].value,
                               keys |-> t[i].keys, next |-> t[i].next]
    BY <1>4 DEF Stacked
  <2> QED BY <2>1, <1>4, <1>7
<1>11. t[1].id = Root /\ t[1].value.kind = "document" /\ t[1].next \in Nat
  <2>1. 1 \in 1..n
    BY <1>1
  <2>2. stack[1].id = Root /\ stack[1].value.kind = "document" /\ stack[1].next \in Nat
    BY DEF Stacked
  <2> QED BY <2>1, <2>2, <1>8
<1>12. ASSUME NEW i \in 2..n
       PROVE  /\ IsFrame(t[i]) /\ ns[t[i].id].kind = t[i].value.kind
              /\ t[i].keys = << >> => t[i - 1].value.kind = "list"
              /\ t[i].keys # << >> => i = 2 \/ t[i - 1].value.kind = "inline"
  <2>1. i \in 1..n /\ i - 1 \in 1..n
    BY <1>1
  <2>2. /\ IsFrame(stack[i]) /\ ns[stack[i].id].kind = stack[i].value.kind
        /\ stack[i].keys = << >> => stack[i - 1].value.kind = "list"
        /\ stack[i].keys # << >> => i = 2 \/ stack[i - 1].value.kind = "inline"
    BY DEF Stacked
  <2>3. t[i].next \in Nat \ {0}
    BY <2>1, <2>2, <1>8 DEF IsFrame
  <2> QED BY <2>1, <2>2, <2>3, <1>8 DEF IsFrame
<1>13. \A i, j \in 1..n : t[i].id = t[j].id => i = j
  BY <1>8 DEF Stacked
<1>14. Stacked(ns, t)
  BY <1>1, <1>5, <1>6, <1>10, <1>11, <1>12, <1>13 DEF Stacked
<1> QED BY <1>3, <1>6, <1>8, <1>9, <1>14

\* The last value has been read.
LEMMA HoldersStack ==
  ASSUME NEW ns, NEW stack, Stacked(ns, stack), Len(stack) > 1
  PROVE  LET t == SubSeq(stack, 1, Len(stack) - 1)
         IN /\ Stacked(ns, t) /\ Len(t) = Len(stack) - 1
            /\ Roots(t) = Roots(stack) \ {stack[Len(stack)].id}
            /\ \A i \in 1..Len(t) : t[i] = stack[i]
<1> DEFINE n == Len(stack) - 1
           t == SubSeq(stack, 1, n)
           S == {stack[i] : i \in 1..Len(stack)}
<1>1. Len(stack) \in Nat /\ n \in Nat \ {0} /\ stack \in Seq(S) /\ Len(stack) = n + 1
  BY StackTypes
<1>2. \A i \in 1..n : i \in 1..Len(stack)
  BY <1>1
<1>3. t \in Seq(S) /\ Len(t) = n /\ \A i \in 1..n : t[i] = stack[i]
  BY <1>1, SubSeqProperties, LenProperties
<1>4. t = [i \in 1..n |-> t[i]]
  BY <1>3, LenProperties
<1> HIDE DEF t, n
<1>5. Stacked(ns, t)
  <2>1. \A i \in 1..n : t[i] = [id |-> t[i].id, value |-> t[i].value,
                               keys |-> t[i].keys, next |-> t[i].next]
    BY <1>2, <1>3 DEF Stacked
  <2>2. \A i \in 2..n :
              /\ IsFrame(t[i]) /\ ns[t[i].id].kind = t[i].value.kind
              /\ t[i].keys = << >> => t[i - 1].value.kind = "list"
              /\ t[i].keys # << >> => i = 2 \/ t[i - 1].value.kind = "inline"
    <3>1. ASSUME NEW i \in 2..n
          PROVE  i \in 2..Len(stack) /\ t[i] = stack[i] /\ t[i - 1] = stack[i - 1]
      <4>1. i \in 1..n /\ i - 1 \in 1..n /\ i \in 2..Len(stack)
        BY <1>1
      <4> QED BY <4>1, <1>3
    <3> QED BY <3>1 DEF Stacked
  <2>3. \A i, j \in 1..n : t[i].id = t[j].id => i = j
    BY <1>2, <1>3 DEF Stacked
  <2>4. 1 \in 1..n
    BY <1>1
  <2>5. t[1].id = Root /\ t[1].value.kind = "document" /\ t[1].next \in Nat
    BY <2>4, <1>3 DEF Stacked
  <2> QED BY <1>1, <1>3, <1>4, <2>1, <2>2, <2>3, <2>5 DEF Stacked
<1>6. Roots(t) = Roots(stack) \ {stack[Len(stack)].id}
  <2>1. \A i \in 1..Len(stack) : i = Len(stack) \/ i \in 1..n
    BY <1>1
  <2>2. \A i \in 1..n : stack[i].id # stack[Len(stack)].id
    <3>1. Len(stack) \in 1..Len(stack) /\ \A i \in 1..n : i # Len(stack)
      BY <1>1
    <3> QED BY <3>1, <1>2 DEF Stacked
  <2>3. Roots(t) = {stack[i].id : i \in 1..n}
    BY <1>3 DEF Roots
  <2> QED BY <2>1, <2>2, <2>3, <1>2 DEF Roots
<1> QED BY <1>3, <1>5, <1>6 DEF t, n

\* A value begins, within the one before.
LEMMA PushStack ==
  ASSUME NEW ns, NEW stack, Stacked(ns, stack),
         NEW c, c \in Nat, c \notin Roots(stack),
         NEW v \in Values, ns[c].kind = v.kind, NEW keys \in Seq(Keys),
         keys = << >> => stack[Len(stack)].value.kind = "list",
         keys # << >> => Len(stack) = 1 \/ stack[Len(stack)].value.kind = "inline"
  PROVE  LET f == [id |-> c, value |-> v, keys |-> keys, next |-> 1]
             t == Append(stack, f)
         IN /\ Stacked(ns, t) /\ Len(t) = Len(stack) + 1
            /\ Roots(t) = Roots(stack) \cup {c}
            /\ \A i \in 1..Len(stack) : t[i] = stack[i]
            /\ t[Len(stack) + 1] = f
<1> DEFINE n == Len(stack)
           f == [id |-> c, value |-> v, keys |-> keys, next |-> 1]
           t == Append(stack, f)
           S == {stack[i] : i \in 1..n} \cup {f}
<1>1. n \in Nat /\ n >= 1 /\ n \in 1..n /\ stack \in Seq({stack[i] : i \in 1..n})
  BY StackTypes
<1>2. stack \in Seq(S)
  <2>1. \A i \in 1..n : stack[i] \in S
    OBVIOUS
  <2>2. stack = [i \in 1..n |-> stack[i]]
    BY DEF Stacked
  <2>3. stack \in [1..n -> S]
    BY <2>1, <2>2
  <2> HIDE DEF S
  <2> QED BY <1>1, <2>3, IsASeq
<1>3. f \in S
  OBVIOUS
<1>4. f.id = c /\ f.value = v /\ f.keys = keys /\ f.next = 1
      /\ f = [id |-> f.id, value |-> f.value, keys |-> f.keys, next |-> f.next]
  OBVIOUS
<1> HIDE DEF S, f
<1>5. t \in Seq(S) /\ Len(t) = n + 1 /\ t[n + 1] = f /\ \A i \in 1..n : t[i] = stack[i]
  BY <1>2, <1>3, AppendProperties
<1>6. t = [i \in 1..n + 1 |-> t[i]]
  BY <1>5, LenProperties
<1> HIDE DEF t
<1>7. \A i \in 1..n + 1 : i = n + 1 \/ i \in 1..n
  BY <1>1
<1>8. IsFrame(f)
  BY <1>4 DEF IsFrame
<1>9. \A i \in 1..n + 1 : t[i] = [id |-> t[i].id, value |-> t[i].value,
                               keys |-> t[i].keys, next |-> t[i].next]
  <2>1. \A i \in 1..n : t[i] = [id |-> t[i].id, value |-> t[i].value,
                               keys |-> t[i].keys, next |-> t[i].next]
    BY <1>5 DEF Stacked
  <2> QED BY <2>1, <1>4, <1>5, <1>7
<1>10. ASSUME NEW i \in 2..n + 1
       PROVE  /\ IsFrame(t[i]) /\ ns[t[i].id].kind = t[i].value.kind
              /\ t[i].keys = << >> => t[i - 1].value.kind = "list"
              /\ t[i].keys # << >> => i = 2 \/ t[i - 1].value.kind = "inline"
  <2>1. CASE i = n + 1
    <3>1. i - 1 = n /\ t[i - 1] = stack[n] /\ t[i] = f
      BY <1>1, <1>5, <2>1
    <3>2. n = 1 => i = 2
      BY <2>1
    <3> QED BY <3>1, <3>2, <1>4, <1>8
  <2>2. CASE i # n + 1
    <3>1. i \in 2..n /\ i \in 1..n /\ i - 1 \in 1..n
      BY <1>1, <2>2
    <3>2. t[i] = stack[i] /\ t[i - 1] = stack[i - 1]
      BY <3>1, <1>5
    <3> QED BY <3>1, <3>2 DEF Stacked
  <2> QED BY <2>1, <2>2
<1>11. \A i \in 1..n : stack[i].id # c
  BY DEF Roots
<1>12. \A i, j \in 1..n + 1 : t[i].id = t[j].id => i = j
  BY <1>4, <1>5, <1>7, <1>11 DEF Stacked
<1>13. t[1].id = Root /\ t[1].value.kind = "document" /\ t[1].next \in Nat
  <2>1. 1 \in 1..n
    BY <1>1
  <2> QED BY <2>1, <1>5 DEF Stacked
<1>14. Stacked(ns, t)
  <2>1. n + 1 \in Nat \ {0}
    BY <1>1
  <2> DEFINE l == n + 1
  <2>2. Len(t) = l /\ l \in Nat \ {0} /\ t = [i \in 1..l |-> t[i]]
    BY <2>1, <1>5, <1>6
  <2>3. \A i \in 1..l : t[i] = [id |-> t[i].id, value |-> t[i].value,
                               keys |-> t[i].keys, next |-> t[i].next]
    BY <1>9
  <2>4. \A i \in 2..l :
              /\ IsFrame(t[i]) /\ ns[t[i].id].kind = t[i].value.kind
              /\ t[i].keys = << >> => t[i - 1].value.kind = "list"
              /\ t[i].keys # << >> => i = 2 \/ t[i - 1].value.kind = "inline"
    BY <1>10
  <2>5. \A i, j \in 1..l : t[i].id = t[j].id => i = j
    BY <1>12
  <2> HIDE DEF l
  <2> QED BY <1>13, <2>2, <2>3, <2>4, <2>5 DEF Stacked
<1>15. Roots(t) = Roots(stack) \cup {c}
  <2>1. n + 1 \in 1..n + 1 /\ \A i \in 1..n : i \in 1..n + 1
    BY <1>1
  <2>2. Len(t) = n + 1 /\ t[n + 1].id = c /\ \A i \in 1..n : t[i].id = stack[i].id
    BY <1>4, <1>5
  <2>3. Roots(t) = {t[i].id : i \in 1..n + 1}
    BY <2>2 DEF Roots
  <2>4. Roots(stack) = {stack[i].id : i \in 1..n}
    BY DEF Roots
  <2>5. \A i \in 1..n + 1 : i \in 1..n \/ i = n + 1
    BY <1>1
  <2> HIDE DEF n, t
  <2> QED BY <2>1, <2>2, <2>3, <2>4, <2>5, SMTT(30)
<1> QED BY <1>5, <1>14, <1>15 DEF t, f

-----------------------------------------------------------------------------
(* The shape of the tree: one lemma for each action *)

\* Dotted keys have a first one, and others after it or not.
LEMMA DottedKeys ==
  ASSUME NEW keys \in Dotted
  PROVE  /\ keys \in Seq(Keys) /\ Len(keys) \in Nat /\ Len(keys) >= 1 /\ keys # << >>
         /\ keys[1] \in Keys
         /\ \A i \in 1..Len(keys) : keys[i] \in Keys
         /\ Len(keys) > 1 => /\ Tail(keys) \in Dotted /\ Len(Tail(keys)) = Len(keys) - 1
                             /\ \A i \in 1..Len(keys) - 1 : Tail(keys)[i] = keys[i + 1]
<1>1. keys \in Seq(Keys) /\ keys # << >>
  BY DEF Dotted
<1>2. Len(keys) \in Nat /\ Len(keys) >= 1
  BY <1>1, EmptySeq, LenProperties
<1>3. \A i \in 1..Len(keys) : keys[i] \in Keys
  BY <1>1, ElementOfSeq
<1>4. keys[1] \in Keys
  BY <1>2, <1>3
<1>5. ASSUME Len(keys) > 1
      PROVE  /\ Tail(keys) \in Dotted /\ Len(Tail(keys)) = Len(keys) - 1
             /\ \A i \in 1..Len(keys) - 1 : Tail(keys)[i] = keys[i + 1]
  <2>1. /\ Tail(keys) \in Seq(Keys) /\ Len(Tail(keys)) = Len(keys) - 1
        /\ \A i \in 1..Len(keys) - 1 : Tail(keys)[i] = keys[i + 1]
    BY <1>1, HeadTailProperties
  <2>2. Tail(keys) # << >>
    <3>1. Len(Tail(keys)) # 0
      BY <2>1, <1>2, <1>5
    <3> QED BY <3>1, EmptySeq
  <2> QED BY <2>1, <2>2 DEF Dotted
<1> QED BY <1>1, <1>2, <1>3, <1>4, <1>5

\* An error stays where the document will have it.
LEMMA FaultyGrows ==
  ASSUME NEW ns, Heap(ns), NEW m, Grows(ns, m), NEW stack, NEW t, FaultyIn(ns, stack),
         \A i \in 1..Len(stack) : \E j \in 1..Len(t) : Reach(m, t[j].id, stack[i].id)
  PROVE  FaultyIn(m, t)
<1>1. PICK i \in 1..Len(stack) : \E x \in Ids(ns) : Reach(ns, stack[i].id, x) /\ ns[x].errors # {}
  BY DEF FaultyIn
<1>2. Complains(ns, stack[i].id)
  BY <1>1 DEF Complains
<1>3. Complains(m, stack[i].id)
  BY <1>2, ComplainsGrows
<1>4. PICK j \in 1..Len(t) : Reach(m, t[j].id, stack[i].id)
  OBVIOUS
<1>5. Complains(m, t[j].id)
  BY <1>3, <1>4, ComplainsFar
<1> QED BY <1>5 DEF FaultyIn, Complains

\* An error below an open value is one that the document has or will have.
LEMMA ComplainsFaulty ==
  ASSUME NEW m, NEW t, NEW j \in 1..Len(t), NEW x, Reach(m, t[j].id, x), Complains(m, x)
  PROVE  FaultyIn(m, t)
BY ComplainsFar DEF FaultyIn, Complains

\* What the invariant says of a table stays true.
LEMMA TableOfGrows ==
  ASSUME NEW ns, Heap(ns), NEW m, Grows(ns, m), NEW r, NEW x, TableOf(ns, r, x)
  PROVE  TableOf(m, r, x)
BY GrowsIds, ReachGrows DEF TableOf

\* The open values are roots.
LEMMA RootIds ==
  ASSUME NEW ns, NEW stack, Forest(ns, Roots(stack)), NEW i \in 1..Len(stack)
  PROVE  stack[i].id \in Roots(stack) /\ stack[i].id \in Ids(ns)
BY DEF Roots, Forest

\* Every root of the stack before is below one of the stack after.
Covers(m, stack, t) ==
  \A i \in 1..Len(stack) : \E j \in 1..Len(t) : Reach(m, t[j].id, stack[i].id)

\* The stack that begins as the one before covers it.
LEMMA SameCovers ==
  ASSUME NEW ns, Heap(ns), NEW stack, Forest(ns, Roots(stack)), NEW m, Grows(ns, m),
         NEW t, Len(stack) \in Nat, Len(stack) <= Len(t), Len(t) \in Nat,
         \A i \in 1..Len(stack) : t[i].id = stack[i].id
  PROVE  Covers(m, stack, t)
<1>1. ASSUME NEW i \in 1..Len(stack) PROVE \E j \in 1..Len(t) : Reach(m, t[j].id, stack[i].id)
  <2>1. stack[i].id \in Ids(m)
    BY RootIds, GrowsIds
  <2>2. Reach(m, t[i].id, stack[i].id)
    BY <2>1, ReachSelf
  <2>3. i \in 1..Len(t)
    OBVIOUS
  <2> QED BY <2>2, <2>3
<1> QED BY <1>1 DEF Covers

\* A header begins at the root.
LEMMA HeaderShape ==
  ASSUME Shape, NEW kind \in {"table", "tables"}, NEW path \in Paths, Header(kind, path)
  PROVE  Shape' /\ (Faulty => Faulty')
<1>1. /\ Len(reading) = 1 /\ pc' = kind /\ walk' = [id |-> Root, keys |-> path]
      /\ nodes' = nodes /\ current' = current /\ reading' = reading
  BY DEF Header, Statement, BetweenStatements, tree
<1>2. /\ Heap(nodes) /\ Stacked(nodes, reading) /\ Forest(nodes, Roots(reading))
      /\ TableOf(nodes, Root, Root) /\ TableOf(nodes, Root, current)
  BY DEF Shape
<1>3. path \in Dotted /\ walk'.id = Root /\ walk'.keys = path
  BY <1>1, PathsAssumption
<1>4. Walking'
  BY <1>1, <1>2, <1>3 DEF Walking
<1> QED BY <1>1, <1>2, <1>4 DEF Shape, Faulty

\* What a key of a header does to the shape.
LEMMA HeaderKeyShape ==
  ASSUME Shape, HeaderKey
  PROVE  /\ Shape' /\ Grows(nodes, nodes') /\ (Faulty => Faulty')
         /\ Complains(nodes', walk.id) => Faulty'
<1> DEFINE k == walk.keys[1]
           at == MergeIntermediate(At(nodes, walk.id), k)
<1>1. /\ pc \in {"table", "tables"} /\ Len(walk.keys) > 1 /\ nodes' = at.nodes
      /\ walk' = [id |-> at.id, keys |-> Tail(walk.keys)]
      /\ current' = current /\ reading' = reading /\ pc' = pc
  BY DEF HeaderKey, WalkTo, Here, At
<1>2. /\ Heap(nodes) /\ Stacked(nodes, reading) /\ Forest(nodes, Roots(reading))
      /\ TableOf(nodes, Root, Root) /\ TableOf(nodes, Root, current)
  BY DEF Shape
<1>3. Len(reading) = 1 /\ walk.keys \in Dotted /\ TableOf(nodes, Root, walk.id)
  BY <1>1 DEF Shape, Walking
<1>4. k \in Keys /\ Tail(walk.keys) \in Dotted
  BY <1>1, <1>3, DottedKeys
<1>5. walk.id \in Ids(nodes) /\ IsTable(nodes, walk.id)
  BY <1>3 DEF TableOf
<1>6. Leads(nodes, walk.id, at, Roots(reading))
  BY <1>2, <1>4, <1>5, MergeIntermediateLeads
<1> HIDE DEF at
<1>7. Grows(nodes, nodes') /\ Forest(nodes', Roots(reading)) /\ TableOf(nodes', walk.id, at.id)
  BY <1>1, <1>6 DEF Leads
<1>8. TableOf(nodes', Root, walk.id) /\ TableOf(nodes', Root, Root) /\ TableOf(nodes', Root, current)
  BY <1>2, <1>3, <1>7, TableOfGrows
<1>9. TableOf(nodes', Root, at.id)
  BY <1>7, <1>8, ReachFar DEF TableOf
<1>10. walk'.id = at.id /\ walk'.keys = Tail(walk.keys)
  BY <1>1
<1>11. Walking'
  <2>1. pc' \in {"table", "tables"}
    BY <1>1
  <2>2. Len(reading') = 1 /\ walk'.keys \in Dotted /\ TableOf(nodes', Root, walk'.id)
    BY <1>1, <1>3, <1>4, <1>9, <1>10
  <2> QED BY <2>1, <2>2 DEF Walking
<1>12. Heap(nodes') /\ Stacked(nodes', reading)
  BY <1>2, <1>7, StackedGrows DEF Grows, Forest
<1>13. Shape'
  BY <1>1, <1>7, <1>8, <1>11, <1>12 DEF Shape
<1>14. Covers(nodes', reading, reading)
  BY <1>2, <1>3, <1>7, SameCovers
<1>15. Faulty => FaultyIn(nodes', reading)
  BY <1>2, <1>7, <1>14, FaultyGrows DEF Covers, Faulty
<1>16. Complains(nodes', walk.id) => FaultyIn(nodes', reading)
  <2>1. 1 \in 1..Len(reading) /\ reading[1].id = Root
    BY <1>2, <1>3 DEF Stacked
  <2>2. Reach(nodes', reading[1].id, walk.id)
    BY <1>8, <2>1 DEF TableOf
  <2> QED BY <2>1, <2>2, ComplainsFaulty
<1> QED BY <1>1, <1>7, <1>13, <1>15, <1>16 DEF Faulty

\* The end of a header: what opens is a table of the document.
LEMMA OpenShape ==
  ASSUME Shape, pc \in {"table", "tables"}, NEW at, Open(at),
         Leads(nodes, walk.id, at, Roots(reading))
  PROVE  /\ Shape' /\ Grows(nodes, nodes') /\ (Faulty => Faulty')
         /\ Complains(nodes', walk.id) => Faulty'
<1>1. /\ nodes' = at.nodes /\ current' = at.id /\ pc' = "read" /\ reading' = Next_(reading)
  BY DEF Open
<1>2. /\ Heap(nodes) /\ Stacked(nodes, reading) /\ Forest(nodes, Roots(reading))
      /\ TableOf(nodes, Root, Root)
  BY DEF Shape
<1>3. Len(reading) = 1 /\ TableOf(nodes, Root, walk.id)
  BY DEF Shape, Walking
<1>7. Grows(nodes, nodes') /\ Forest(nodes', Roots(reading)) /\ TableOf(nodes', walk.id, at.id)
  BY <1>1 DEF Leads
<1>8. TableOf(nodes', Root, walk.id) /\ TableOf(nodes', Root, Root)
  BY <1>2, <1>3, <1>7, TableOfGrows
<1>9. TableOf(nodes', Root, at.id)
  BY <1>7, <1>8, ReachFar DEF TableOf
<1>10. Walking'
  BY <1>1 DEF Walking
<1>11. Heap(nodes') /\ Stacked(nodes', reading)
  BY <1>2, <1>7, StackedGrows DEF Grows, Forest
<1>12. /\ Stacked(nodes', reading') /\ Roots(reading') = Roots(reading) /\ Len(reading') = 1
       /\ \A i \in 1..Len(reading) : reading'[i].id = reading[i].id
  BY <1>1, <1>3, <1>11, NextStack
<1>13. Shape'
  BY <1>1, <1>7, <1>8, <1>9, <1>10, <1>11, <1>12 DEF Shape
<1>14. Covers(nodes', reading, reading')
  BY <1>2, <1>3, <1>7, <1>12, SameCovers
<1>15. Faulty => FaultyIn(nodes', reading')
  BY <1>2, <1>7, <1>14, FaultyGrows DEF Covers, Faulty
<1>16. Complains(nodes', walk.id) => FaultyIn(nodes', reading')
  <2>1. 1 \in 1..Len(reading') /\ reading'[1].id = Root
    BY <1>12 DEF Stacked
  <2>2. Reach(nodes', reading'[1].id, walk.id)
    BY <1>8, <2>1 DEF TableOf
  <2> QED BY <2>1, <2>2, ComplainsFaulty
<1> QED BY <1>7, <1>13, <1>15, <1>16 DEF Faulty

\* The last key of a header, of either kind.
LEMMA TableHeaderShape ==
  ASSUME Shape, TableHeader
  PROVE  /\ Shape' /\ Grows(nodes, nodes') /\ (Faulty => Faulty')
         /\ Complains(nodes', walk.id) => Faulty'
<1> DEFINE k == walk.keys[1]
           at == OpenTable(At(nodes, walk.id), k)
<1>1. pc = "table" /\ Open(at)
  BY DEF TableHeader, Here, At
<1>2. Heap(nodes) /\ Forest(nodes, Roots(reading)) /\ walk.keys \in Dotted
      /\ TableOf(nodes, Root, walk.id)
  BY <1>1 DEF Shape, Walking
<1>3. k \in Keys /\ walk.id \in Ids(nodes) /\ IsTable(nodes, walk.id)
  BY <1>2, DottedKeys DEF TableOf
<1>4. Leads(nodes, walk.id, at, Roots(reading))
  BY <1>2, <1>3, OpenTableLeads
<1> HIDE DEF at
<1> QED BY <1>1, <1>4, OpenShape

LEMMA TableArrayHeaderShape ==
  ASSUME Shape, TableArrayHeader
  PROVE  /\ Shape' /\ Grows(nodes, nodes') /\ (Faulty => Faulty')
         /\ Complains(nodes', walk.id) => Faulty'
<1> DEFINE k == walk.keys[1]
           at == OpenItem(At(nodes, walk.id), k)
<1>1. pc = "tables" /\ Open(at)
  BY DEF TableArrayHeader, Here, At
<1>2. Heap(nodes) /\ Forest(nodes, Roots(reading)) /\ walk.keys \in Dotted
      /\ TableOf(nodes, Root, walk.id)
  BY <1>1 DEF Shape, Walking
<1>3. k \in Keys /\ walk.id \in Ids(nodes) /\ IsTable(nodes, walk.id)
  BY <1>2, DottedKeys DEF TableOf
<1>4. Leads(nodes, walk.id, at, Roots(reading))
  BY <1>2, <1>3, OpenItemLeads
<1> HIDE DEF at
<1> QED BY <1>1, <1>4, OpenShape

\* A value begins.
LEMMA BeginShape ==
  ASSUME Shape, pc = "read", NEW keys \in Seq(Keys), NEW value \in Values, Begin(keys, value),
         keys = << >> => Top.value.kind = "list",
         keys # << >> => Len(reading) = 1 \/ Top.value.kind = "inline"
  PROVE  Shape' /\ Grows(nodes, nodes') /\ (Faulty => Faulty')
<1> DEFINE c == Len(nodes) + 1
           m == Append(nodes, Node(value.kind, FALSE))
           f == [id |-> c, value |-> value, keys |-> keys, next |-> 1]
           t == Append(reading, f)
<1>1. nodes' = m /\ current' = current /\ pc' = pc /\ walk' = walk /\ reading' = t
  BY DEF Begin
<1>2. /\ Heap(nodes) /\ Stacked(nodes, reading) /\ Forest(nodes, Roots(reading))
      /\ TableOf(nodes, Root, Root) /\ TableOf(nodes, Root, current)
  BY DEF Shape
<1>3. value.kind \in Kinds
  BY ValueKinds
<1>4. Grows(nodes, m) /\ Forest(m, Roots(reading) \cup {c}) /\ m[c] = Node(value.kind, FALSE)
  BY <1>2, <1>3, GrowsNew, ForestNew, NewNode
<1>5. m[c].kind = value.kind
  <2>1. FALSE \in BOOLEAN
    OBVIOUS
  <2>2. Node(value.kind, FALSE).kind = value.kind
    BY <1>3, <2>1, NewRecord
  <2> HIDE DEF m, c
  <2> QED BY <1>4, <2>2
<1>6. c \in Nat /\ c \notin Roots(reading)
  BY <1>2, HeapTypes DEF Forest, Ids
<1> HIDE DEF m, c
<1>7. Stacked(m, reading)
  BY <1>2, <1>4, StackedGrows DEF Forest
<1>8. /\ Stacked(m, t) /\ Len(t) = Len(reading) + 1 /\ Roots(t) = Roots(reading) \cup {c}
      /\ \A i \in 1..Len(reading) : t[i] = reading[i]
  BY <1>5, <1>6, <1>7, PushStack DEF Top
<1> HIDE DEF t
<1>9. TableOf(m, Root, Root) /\ TableOf(m, Root, current) /\ Heap(m)
  BY <1>2, <1>4, TableOfGrows DEF Grows
<1>10. Walking'
  BY <1>1 DEF Walking
<1>11. Shape'
  BY <1>1, <1>4, <1>8, <1>9, <1>10 DEF Shape
<1>12. Len(reading) \in Nat /\ Len(t) \in Nat /\ Len(reading) <= Len(t)
  BY <1>2, <1>8, StackTypes
<1>13. Covers(m, reading, t)
  BY <1>2, <1>4, <1>8, <1>12, SameCovers
<1>14. Faulty => FaultyIn(m, t)
  BY <1>2, <1>4, <1>13, FaultyGrows DEF Covers, Faulty
<1> QED BY <1>1, <1>4, <1>11, <1>14 DEF Faulty

\* The three places where a value begins.
LEMMA EntryShape ==
  ASSUME Shape, NEW path \in Paths, NEW value \in Values, Entry(path, value)
  PROVE  Shape' /\ Grows(nodes, nodes') /\ (Faulty => Faulty')
<1>1. pc = "read" /\ Len(reading) = 1 /\ Begin(path, value)
  BY DEF Entry, Statement, BetweenStatements
<1>2. path \in Seq(Keys) /\ path # << >>
  BY PathsAssumption DEF Dotted
<1> QED BY <1>1, <1>2, BeginShape

\* What is read is a value, and not the document.
LEMMA TopIsValue ==
  ASSUME Shape, Top.value.kind # "document"
  PROVE  /\ Len(reading) \in 2..Len(reading) /\ Len(reading) > 1 /\ Len(reading) \in Nat
         /\ IsFrame(Top) /\ Top.value \in Values /\ nodes[Top.id].kind = Top.value.kind
         /\ Top.keys = << >> => reading[Len(reading) - 1].value.kind = "list"
         /\ Top.keys # << >> =>
              Len(reading) = 2 \/ reading[Len(reading) - 1].value.kind = "inline"
<1>1. Stacked(nodes, reading)
  BY DEF Shape
<1>2. Len(reading) \in 1..Len(reading) /\ Len(reading) \in Nat
  BY <1>1, StackTypes
<1>3. Len(reading) \in 2..Len(reading) /\ IsFrame(Top) /\ Top.value \in Values
  BY <1>1, <1>2, TopKind DEF Top
<1>4. Len(reading) > 1
  BY <1>2, <1>3
<1> QED BY <1>1, <1>2, <1>3, <1>4 DEF Stacked, Top

LEMMA InlineEntryShape ==
  ASSUME Shape, InlineEntry
  PROVE  /\ Shape' /\ Grows(nodes, nodes') /\ (Faulty => Faulty')
         /\ Top.value.entries[Top.next].keys \in Dotted
         /\ Top.value.entries[Top.next].value \in Values
<1> DEFINE entry == Top.value.entries[Top.next]
<1>1. /\ pc = "read" /\ Top.value.kind = "inline" /\ Top.next <= Len(Top.value.entries)
      /\ Begin(entry.keys, entry.value)
  BY DEF InlineEntry
<1>2. IsFrame(Top) /\ Top.value \in Values
  BY <1>1, TopIsValue
<1>3. Top.value.entries \in Seq([keys : Dotted, value : Values]) /\ Top.next \in Nat \ {0}
  BY <1>1, <1>2, ValueKinds DEF IsFrame
<1>4. Top.next \in 1..Len(Top.value.entries)
  BY <1>1, <1>3, LenProperties
<1>5. entry \in [keys : Dotted, value : Values]
  BY <1>3, <1>4, ElementOfSeq
<1> HIDE DEF entry
<1>6. entry.keys \in Dotted /\ entry.value \in Values /\ entry.keys \in Seq(Keys) /\ entry.keys # << >>
  BY <1>5 DEF Dotted
<1>7. Shape' /\ Grows(nodes, nodes') /\ (Faulty => Faulty')
  BY <1>1, <1>6, BeginShape
<1> QED BY <1>6, <1>7 DEF entry

LEMMA ListItemShape ==
  ASSUME Shape, ListItem
  PROVE  /\ Shape' /\ Grows(nodes, nodes') /\ (Faulty => Faulty')
         /\ Top.value.items[Top.next] \in Values
<1> DEFINE item == Top.value.items[Top.next]
<1>1. /\ pc = "read" /\ Top.value.kind = "list" /\ Top.next <= Len(Top.value.items)
      /\ Begin(<< >>, item)
  BY DEF ListItem
<1>2. IsFrame(Top) /\ Top.value \in Values
  BY <1>1, TopIsValue
<1>3. Top.value.items \in Seq(Values) /\ Top.next \in Nat \ {0}
  BY <1>1, <1>2, ValueKinds DEF IsFrame
<1>4. Top.next \in 1..Len(Top.value.items)
  BY <1>1, <1>3, LenProperties
<1>5. item \in Values
  BY <1>3, <1>4, ElementOfSeq
<1> HIDE DEF item
<1>6. << >> \in Seq(Keys)
  BY EmptySeq
<1>7. Shape' /\ Grows(nodes, nodes') /\ (Faulty => Faulty')
  BY <1>1, <1>5, <1>6, BeginShape
<1> QED BY <1>5, <1>7 DEF item

\* A value that was read.
LEMMA CompleteKind ==
  ASSUME Complete
  PROVE  pc = "read" /\ Top.value.kind # "document"
BY DEF Complete

\* A value is put into the one before it.
LEMMA PutShape ==
  ASSUME Shape, Top.value.kind # "document", NEW m, Grows(nodes, m),
         Forest(m, Roots(reading) \ {Top.id}), NEW x,
         \E j \in 1..Len(reading) - 1 : Reach(m, reading[j].id, x), Kid(m, x, Top.id)
  PROVE  LET t == Next_(Holders)
         IN /\ Heap(m) /\ Stacked(m, t) /\ Forest(m, Roots(t))
            /\ TableOf(m, Root, Root) /\ TableOf(m, Root, current)
            /\ Len(t) = Len(reading) - 1
            /\ Faulty => FaultyIn(m, t)
            /\ Complains(m, x) => FaultyIn(m, t)
            /\ \A i \in 1..Len(t) :
                 /\ t[i].id = reading[i].id /\ t[i].value = reading[i].value
                 /\ t[i].keys = reading[i].keys
                 /\ t[i].next = IF i = Len(t) THEN reading[i].next + 1 ELSE reading[i].next
<1> DEFINE n == Len(reading) - 1
           h == Holders
           t == Next_(h)
<1>1. /\ Heap(nodes) /\ Stacked(nodes, reading) /\ Forest(nodes, Roots(reading))
      /\ TableOf(nodes, Root, Root) /\ TableOf(nodes, Root, current)
  BY DEF Shape
<1>2. Len(reading) > 1 /\ Len(reading) \in Nat /\ Top = reading[Len(reading)]
  BY TopIsValue DEF Top
<1>3. Heap(m) /\ TableOf(m, Root, Root) /\ TableOf(m, Root, current) /\ Stacked(m, reading)
  BY <1>1, TableOfGrows, StackedGrows DEF Grows, Forest
<1>4. /\ Stacked(m, h) /\ Len(h) = n /\ Roots(h) = Roots(reading) \ {Top.id}
      /\ \A i \in 1..n : h[i] = reading[i]
  BY <1>2, <1>3, HoldersStack DEF Holders
<1> HIDE DEF h
<1>5. /\ Stacked(m, t) /\ Len(t) = n /\ Roots(t) = Roots(reading) \ {Top.id}
      /\ \A i \in 1..n :
                 /\ t[i].id = reading[i].id /\ t[i].value = reading[i].value
                 /\ t[i].keys = reading[i].keys
                 /\ t[i].next = IF i = n THEN reading[i].next + 1 ELSE reading[i].next
  <2>1. /\ Stacked(m, t) /\ Len(t) = Len(h) /\ Roots(t) = Roots(h)
        /\ \A i \in 1..Len(h) :
                 /\ t[i].id = h[i].id /\ t[i].value = h[i].value /\ t[i].keys = h[i].keys
                 /\ t[i].next = IF i = Len(h) THEN h[i].next + 1 ELSE h[i].next
    BY <1>4, NextStack
  <2> HIDE DEF t, n
  <2> QED BY <2>1, <1>4
<1> HIDE DEF t
<1>6. PICK j \in 1..n : Reach(m, reading[j].id, x)
  OBVIOUS
<1>7. Top.id \in Ids(m)
  BY <1>1, <1>2, StackTypes, RootIds, GrowsIds
<1>8. Reach(m, t[j].id, Top.id)
  BY <1>5, <1>6, <1>7, ReachKid
<1>9. Covers(m, reading, t)
  <2>1. ASSUME NEW i \in 1..Len(reading)
        PROVE  \E l \in 1..Len(t) : Reach(m, t[l].id, reading[i].id)
    <3>1. CASE i = Len(reading)
      BY <1>2, <1>5, <1>8, <3>1
    <3>2. CASE i # Len(reading)
      <4>1. i \in 1..n
        BY <1>2, <3>2
      <4>2. reading[i].id \in Ids(m)
        BY <1>1, RootIds, GrowsIds
      <4>3. Reach(m, t[i].id, reading[i].id)
        BY <4>1, <4>2, <1>5, ReachSelf
      <4> QED BY <4>1, <4>3, <1>5
    <3> QED BY <3>1, <3>2
  <2> QED BY <2>1 DEF Covers
<1>10. Faulty => FaultyIn(m, t)
  BY <1>1, <1>9, FaultyGrows DEF Covers, Faulty
<1>11. Complains(m, x) => FaultyIn(m, t)
  BY <1>5, <1>6, ComplainsFaulty, ZenonT(30)
<1>12. \A i \in 1..Len(t) :
                 /\ t[i].id = reading[i].id /\ t[i].value = reading[i].value
                 /\ t[i].keys = reading[i].keys
                 /\ t[i].next = IF i = Len(t) THEN reading[i].next + 1 ELSE reading[i].next
  BY <1>5
<1>13. Forest(m, Roots(t))
  BY <1>5
<1> QED BY <1>3, <1>5, <1>10, <1>11, <1>12, <1>13 DEF t, h

\* An item, the keys of an entry, and its value at their end.
LEMMA PushItemShape ==
  ASSUME Shape, PushItem
  PROVE  Shape' /\ Grows(nodes, nodes') /\ (Faulty => Faulty')
<1> DEFINE n == Len(reading) - 1
           a == reading[n].id
           m == Push(nodes, a, Top.id)
           t == Next_(Holders)
<1>1. /\ pc = "read" /\ Top.value.kind # "document" /\ Top.keys = << >>
      /\ nodes' = m /\ reading' = t /\ current' = current /\ pc' = pc /\ walk' = walk
  BY CompleteKind DEF PushItem
<1>2. Heap(nodes) /\ Stacked(nodes, reading) /\ Forest(nodes, Roots(reading))
  BY DEF Shape
<1>3. Len(reading) > 1 /\ Len(reading) \in Nat /\ Top = reading[Len(reading)]
      /\ reading[n].value.kind = "list"
  BY <1>1, TopIsValue DEF Top
<1>4. n \in 1..Len(reading) /\ Len(reading) \in 1..Len(reading) /\ n \in 1..n
  BY <1>3
<1>5. a \in Ids(nodes) /\ Top.id \in Roots(reading) /\ Top.id \in Ids(nodes)
  BY <1>2, <1>3, <1>4, RootIds
<1>6. nodes[a].kind = "list"
  <2>1. n \in 2..Len(reading)
    BY <1>2, <1>3, <1>4, TopKind
  <2> QED BY <2>1, <1>2, <1>3 DEF Stacked
<1>7. IsArray(nodes, a)
  BY <1>6 DEF IsArray, Arrays
<1>8. Heap(m) /\ Links(nodes, m, a, Item(Len(nodes[a].items) + 1), Top.id)
  BY <1>2, <1>5, <1>7, PushLinks
<1>9. Grows(nodes, m) /\ Forest(m, Roots(reading) \ {Top.id})
  BY <1>2, <1>5, <1>8, GrowsLink, ForestLink
<1>10. Kid(m, a, Top.id)
  BY <1>8 DEF Links
<1>11. a \in Ids(m)
  BY <1>2, <1>5, <1>9, GrowsIds
<1>12. \E j \in 1..Len(reading) - 1 : Reach(m, reading[j].id, a)
  BY <1>4, <1>11, ReachSelf
<1> HIDE DEF m, t
<1>13. /\ Heap(m) /\ Stacked(m, t) /\ Forest(m, Roots(t))
       /\ TableOf(m, Root, Root) /\ TableOf(m, Root, current)
       /\ Faulty => FaultyIn(m, t)
  BY <1>1, <1>9, <1>10, <1>12, PutShape DEF t
<1>14. Walking'
  BY <1>1 DEF Walking
<1>15. Shape'
  BY <1>1, <1>13, <1>14 DEF Shape
<1> QED BY <1>1, <1>9, <1>13, <1>15 DEF Faulty

LEMMA EntryKeysShape ==
  ASSUME Shape, EntryKeys
  PROVE  Shape' /\ (Faulty => Faulty')
<1> DEFINE n == Len(reading) - 1
<1>1. /\ pc = "read" /\ Top.value.kind # "document" /\ Top.keys # << >> /\ pc' = "entry"
      /\ walk' = [id |-> IF n = 1 THEN current ELSE reading[n].id, keys |-> Top.keys]
      /\ nodes' = nodes /\ current' = current /\ reading' = reading
  BY CompleteKind DEF EntryKeys, tree
<1>2. /\ Heap(nodes) /\ Stacked(nodes, reading) /\ Forest(nodes, Roots(reading))
      /\ TableOf(nodes, Root, Root) /\ TableOf(nodes, Root, current)
  BY DEF Shape
<1>3. /\ Len(reading) > 1 /\ Len(reading) \in Nat /\ Top.keys \in Seq(Keys)
      /\ Len(reading) = 2 \/ reading[n].value.kind = "inline"
  BY <1>1, TopIsValue DEF IsFrame
<1>4. walk'.keys \in Dotted
  BY <1>1, <1>3 DEF Dotted
<1>5. TableOf(nodes, reading[n].id, walk'.id)
  <2>1. CASE n = 1
    BY <2>1, <1>1, <1>2 DEF Stacked
  <2>2. CASE n # 1
    <3>1. n \in 1..Len(reading) /\ reading[n].value.kind = "inline"
      BY <1>3, <2>2
    <3>2. n \in 2..Len(reading)
      BY <1>2, <3>1, TopKind
    <3>3. nodes[reading[n].id].kind = "inline" /\ reading[n].id \in Ids(nodes)
      BY <1>2, <3>1, <3>2, RootIds DEF Stacked
    <3>4. IsTable(nodes, reading[n].id)
      BY <3>3 DEF IsTable, Tables
    <3> QED BY <1>1, <2>2, <3>3, <3>4, ReachSelf DEF TableOf
  <2> QED BY <2>1, <2>2
<1>6. Walking'
  BY <1>1, <1>3, <1>4, <1>5 DEF Walking, Top
<1> QED BY <1>1, <1>2, <1>6 DEF Shape, Faulty

LEMMA EntryKeyShape ==
  ASSUME Shape, EntryKey
  PROVE  /\ Shape' /\ Grows(nodes, nodes') /\ (Faulty => Faulty')
         /\ Complains(nodes', walk.id) => Faulty'
<1> DEFINE k == walk.keys[1]
           at == MergeKey(At(nodes, walk.id), k)
           n == Len(reading) - 1
           r == reading[n].id
<1>1. /\ pc = "entry" /\ Len(walk.keys) > 1 /\ nodes' = at.nodes
      /\ walk' = [id |-> at.id, keys |-> Tail(walk.keys)]
      /\ current' = current /\ reading' = reading /\ pc' = pc
  BY DEF EntryKey, WalkTo, Here, At
<1>2. /\ Heap(nodes) /\ Stacked(nodes, reading) /\ Forest(nodes, Roots(reading))
      /\ TableOf(nodes, Root, Root) /\ TableOf(nodes, Root, current)
  BY DEF Shape
<1>3. Len(reading) > 1 /\ Top.keys # << >> /\ walk.keys \in Dotted /\ TableOf(nodes, r, walk.id)
  BY <1>1 DEF Shape, Walking
<1>4. k \in Keys /\ Tail(walk.keys) \in Dotted
  BY <1>1, <1>3, DottedKeys
<1>5. walk.id \in Ids(nodes) /\ IsTable(nodes, walk.id)
  BY <1>3 DEF TableOf
<1>6. Leads(nodes, walk.id, at, Roots(reading))
  BY <1>2, <1>4, <1>5, MergeKeyLeads
<1> HIDE DEF at
<1>7. Grows(nodes, nodes') /\ Forest(nodes', Roots(reading)) /\ TableOf(nodes', walk.id, at.id)
  BY <1>1, <1>6 DEF Leads
<1>8. TableOf(nodes', r, walk.id) /\ TableOf(nodes', Root, Root) /\ TableOf(nodes', Root, current)
  BY <1>2, <1>3, <1>7, TableOfGrows
<1>9. TableOf(nodes', r, at.id)
  BY <1>7, <1>8, ReachFar DEF TableOf
<1>10. walk'.id = at.id /\ walk'.keys = Tail(walk.keys)
  BY <1>1
<1>11. Walking'
  <2>1. pc' = "entry" /\ Top'.keys # << >> /\ reading'[Len(reading') - 1].id = r
    BY <1>1, <1>3 DEF Top
  <2>2. Len(reading') > 1 /\ walk'.keys \in Dotted /\ TableOf(nodes', r, walk'.id)
    BY <1>1, <1>3, <1>4, <1>9, <1>10
  <2> HIDE DEF r
  <2> QED BY <2>1, <2>2 DEF Walking
<1>12. Heap(nodes') /\ Stacked(nodes', reading)
  BY <1>2, <1>7, StackedGrows DEF Grows, Forest
<1>13. Shape'
  BY <1>1, <1>7, <1>8, <1>11, <1>12 DEF Shape
<1>14. Len(reading) \in Nat /\ n \in 1..Len(reading)
  BY <1>2, <1>3, StackTypes
<1>15. Covers(nodes', reading, reading)
  BY <1>2, <1>7, <1>14, SameCovers
<1>16. Faulty => FaultyIn(nodes', reading)
  BY <1>2, <1>7, <1>15, FaultyGrows DEF Covers, Faulty
<1>17. Complains(nodes', walk.id) => FaultyIn(nodes', reading)
  BY <1>8, <1>14, ComplainsFaulty DEF TableOf
<1> QED BY <1>1, <1>7, <1>13, <1>16, <1>17 DEF Faulty

LEMMA EntryValueShape ==
  ASSUME Shape, EntryValue
  PROVE  /\ Shape' /\ Grows(nodes, nodes') /\ (Faulty => Faulty')
         /\ Complains(nodes', walk.id) => Faulty'
<1> DEFINE k == walk.keys[1]
           m == AddEntry(At(nodes, walk.id), k, Top.id)
           n == Len(reading) - 1
           t == Next_(Holders)
<1>1. /\ pc = "entry" /\ nodes' = m /\ reading' = t /\ pc' = "read" /\ current' = current
  BY DEF EntryValue, Here, At
<1>2. /\ Heap(nodes) /\ Stacked(nodes, reading) /\ Forest(nodes, Roots(reading))
  BY DEF Shape
<1>3. /\ Len(reading) > 1 /\ Top.keys # << >> /\ walk.keys \in Dotted
      /\ TableOf(nodes, reading[n].id, walk.id)
  BY <1>1 DEF Shape, Walking
<1>4. Len(reading) \in Nat /\ Len(reading) \in 1..Len(reading) /\ n \in 1..n
      /\ Len(reading) \in 2..Len(reading)
  BY <1>2, <1>3, StackTypes
<1>5. Top.id \in Roots(reading) /\ Top.value.kind # "document"
  <2>1. Top.id \in Roots(reading)
    BY <1>2, <1>4, RootIds DEF Top
  <2>2. Top.value \in Values
    BY <1>2, <1>4 DEF Stacked, IsFrame, Top
  <2> QED BY <2>1, <2>2, ValueKinds
<1>6. k \in Keys /\ walk.id \in Ids(nodes) /\ IsTable(nodes, walk.id)
  BY <1>3, DottedKeys DEF TableOf
<1>7. Grows(nodes, m) /\ Forest(m, Roots(reading) \ {Top.id}) /\ Kid(m, walk.id, Top.id)
  BY <1>2, <1>5, <1>6, AddEntryLeads
<1>8. \E j \in 1..Len(reading) - 1 : Reach(m, reading[j].id, walk.id)
  <2>1. Reach(m, reading[n].id, walk.id)
    BY <1>2, <1>3, <1>7, ReachGrows DEF TableOf
  <2> QED BY <2>1, <1>4
<1> HIDE DEF m, t
<1>9. /\ Heap(m) /\ Stacked(m, t) /\ Forest(m, Roots(t))
      /\ TableOf(m, Root, Root) /\ TableOf(m, Root, current)
      /\ Faulty => FaultyIn(m, t)
      /\ Complains(m, walk.id) => FaultyIn(m, t)
  BY <1>5, <1>7, <1>8, PutShape DEF t
<1>10. Walking'
  BY <1>1 DEF Walking
<1>11. Shape'
  BY <1>1, <1>9, <1>10 DEF Shape
<1> QED BY <1>1, <1>7, <1>9, <1>11 DEF Faulty

\* The empty document.
LEMMA InitShape ==
  ASSUME Init
  PROVE  Shape
<1>1. nodes = <<Node("regular", FALSE)>> /\ current = Root /\ reading = <<Document>> /\ pc = "read"
  BY DEF Init
<1> DEFINE n == Node("regular", FALSE)
<1>2. /\ n \in NodeRec /\ n.all = << >> /\ n.items = << >> /\ n.kind = "regular"
      /\ \A k \in Nat : Agrees(n, k)
  <2>1. FALSE \in BOOLEAN
    OBVIOUS
  <2> QED BY <2>1, KindsAre, NewRecord
<1> HIDE DEF n
<1>3. nodes = <<n>> /\ Len(nodes) = 1 /\ nodes[1] = n /\ Ids(nodes) = {1}
  BY <1>1 DEF n, Ids
<1>4. Heap(nodes)
  BY <1>2, <1>3 DEF Heap
<1>5. Stacked(nodes, reading)
  <2>1. /\ Len(reading) = 1 /\ reading[1] = Document
        /\ reading = [i \in 1..1 |-> reading[i]]
    BY <1>1
  <2>2. /\ Document.id = Root /\ Document.value.kind = "document" /\ Document.next \in Nat
        /\ Document = [id |-> Document.id, value |-> Document.value,
                       keys |-> Document.keys, next |-> Document.next]
    BY DEF Document
  <2>3. 1 \in Nat \ {0} /\ (\A i \in 1..1 : i = 1) /\ (2..1 = {})
    OBVIOUS
  <2> QED BY <2>1, <2>2, <2>3 DEF Stacked
<1>6. \A x, y : ~(x \in Ids(nodes) /\ Kid(nodes, x, y))
  BY <1>2, <1>3 DEF Kid
<1>7. Roots(reading) = {Root}
  <2>1. Len(reading) = 1 /\ reading[1].id = Root
    BY <1>1 DEF Document
  <2> QED BY <2>1 DEF Roots
<1>8. Forest(nodes, Roots(reading))
  BY <1>3, <1>6, <1>7 DEF Forest, Root
<1>9. TableOf(nodes, Root, Root)
  <2>1. Root \in Ids(nodes)
    BY <1>3 DEF Root
  <2>2. IsTable(nodes, Root)
    BY <1>2, <1>3 DEF Root, IsTable, Tables
  <2> QED BY <2>1, <2>2, ReachSelf DEF TableOf
<1>10. Walking
  BY <1>1 DEF Walking
<1> QED BY <1>1, <1>4, <1>5, <1>8, <1>9, <1>10 DEF Shape

\* Every step keeps the shape of the tree, and the errors.
LEMMA ShapeStep ==
  ASSUME Shape, [Next]_vars
  PROVE  Shape' /\ (Faulty => Faulty')
<1>1. CASE \E path \in Paths : Header("table", path) \/ Header("tables", path)
  <2>1. PICK path \in Paths : Header("table", path) \/ Header("tables", path)
    BY <1>1
  <2> QED BY <2>1, HeaderShape
<1>2. CASE \E path \in Paths, value \in Values : Entry(path, value)
  BY <1>2, EntryShape
<1>3. CASE HeaderKey
  BY <1>3, HeaderKeyShape
<1>4. CASE TableHeader
  BY <1>4, TableHeaderShape
<1>5. CASE TableArrayHeader
  BY <1>5, TableArrayHeaderShape
<1>6. CASE InlineEntry
  BY <1>6, InlineEntryShape
<1>7. CASE ListItem
  BY <1>7, ListItemShape
<1>8. CASE PushItem
  BY <1>8, PushItemShape
<1>9. CASE EntryKeys
  BY <1>9, EntryKeysShape
<1>10. CASE EntryKey
  BY <1>10, EntryKeyShape
<1>11. CASE EntryValue
  BY <1>11, EntryValueShape
<1>12. CASE UNCHANGED vars
  BY <1>12 DEF vars, tree, Shape, Walking, Faulty, Top
<1> QED BY <1>1, <1>2, <1>3, <1>4, <1>5, <1>6, <1>7, <1>8, <1>9, <1>10, <1>11, <1>12 DEF Next

-----------------------------------------------------------------------------
(* flat_iter *)

\* The entries of the next level.
Below_(ns, last) == UNION {Children(ns, e) : e \in last}
\* The entries of the listing.
Listed(ns) == [path : Seq(AllSteps), node : Ids(ns)]

\* The children of an entry are the edges of its node, a step longer.
LEMMA ChildrenAre ==
  ASSUME NEW ns, Heap(ns), NEW e \in Listed(ns)
  PROVE  /\ Children(ns, e) \subseteq Listed(ns)
         /\ \A x : x \in Children(ns, e) <=>
              \E s \in AllSteps : \E y \in Ids(ns) :
                 x = [path |-> Append(e.path, s), node |-> y] /\ Edge(ns, e.node, s, y)
<1> DEFINE n == ns[e.node]
<1>1. e.node \in Ids(ns) /\ e.path \in Seq(AllSteps)
  BY DEF Listed
<1>2. /\ Children(ns, e) =
            {[path |-> Append(e.path, Step(n.all[i].key)), node |-> n.all[i].node] :
                i \in 1..Len(n.all)}
            \cup {[path |-> Append(e.path, Item(i)), node |-> n.items[i]] : i \in 1..Len(n.items)}
  BY DEF Children
<1>3. \A s, y : Edge(ns, e.node, s, y) =>  s \in AllSteps /\ y \in Ids(ns)
  BY <1>1, Edges
<1>4. ASSUME NEW x, x \in Children(ns, e)
      PROVE  \E s \in AllSteps : \E y \in Ids(ns) :
                 x = [path |-> Append(e.path, s), node |-> y] /\ Edge(ns, e.node, s, y)
  <2>1. CASE \E i \in 1..Len(n.all) :
               x = [path |-> Append(e.path, Step(n.all[i].key)), node |-> n.all[i].node]
    <3>1. PICK i \in 1..Len(n.all) :
               x = [path |-> Append(e.path, Step(n.all[i].key)), node |-> n.all[i].node]
      BY <2>1
    <3>2. Edge(ns, e.node, Step(n.all[i].key), n.all[i].node)
      BY DEF Edge
    <3> QED BY <3>1, <3>2, <1>3
  <2>2. CASE \E i \in 1..Len(n.items) :
               x = [path |-> Append(e.path, Item(i)), node |-> n.items[i]]
    <3>1. PICK i \in 1..Len(n.items) :
               x = [path |-> Append(e.path, Item(i)), node |-> n.items[i]]
      BY <2>2
    <3>2. Edge(ns, e.node, Item(i), n.items[i])
      BY DEF Edge
    <3> QED BY <3>1, <3>2, <1>3
  <2> QED BY <1>2, <1>4, <2>1, <2>2
<1>5. ASSUME NEW s \in AllSteps, NEW y \in Ids(ns), Edge(ns, e.node, s, y)
      PROVE  [path |-> Append(e.path, s), node |-> y] \in Children(ns, e)
  BY <1>2, <1>5 DEF Edge
<1>6. \A s \in AllSteps, y \in Ids(ns) : [path |-> Append(e.path, s), node |-> y] \in Listed(ns)
  BY <1>1, AppendProperties DEF Listed
<1> QED BY <1>4, <1>5, <1>6

\* The levels are a function on numbers: no induction is in its definition.
LEMMA ListingSteps ==
  ASSUME NEW ns, Heap(ns), Root \in Ids(ns)
  PROVE  LET up == Listing(ns)
         IN /\ up \in [0..Len(ns) -> [found : SUBSET Listed(ns), last : SUBSET Listed(ns)]]
            /\ up[0] = [found |-> {}, last |-> {[path |-> << >>, node |-> Root]}]
            /\ \A d \in 1..Len(ns) :
                  up[d] = [found |-> up[d - 1].found \cup Below_(ns, up[d - 1].last),
                           last |-> Below_(ns, up[d - 1].last)]
<1> DEFINE S == [found : SUBSET Listed(ns), last : SUBSET Listed(ns)]
           m == Len(ns)
           G(a) == [found |-> a.found \cup Below_(ns, a.last), last |-> Below_(ns, a.last)]
           first == [found |-> {}, last |-> {[path |-> << >>, node |-> Root]}]
           F == [d \in 1..m |-> [a \in S |-> G(a)]]
           Body(g) == [d \in 0..m |-> IF d = 0 THEN first ELSE G(g[d - 1])]
<1>1. m \in Nat
  BY HeapTypes
<1>2. first \in S
  <2>1. << >> \in Seq(AllSteps)
    BY EmptySeq
  <2> QED BY <2>1 DEF Listed
<1>3. ASSUME NEW a \in S PROVE G(a) \in S
  <2>1. Below_(ns, a.last) \subseteq Listed(ns)
    BY ChildrenAre DEF Below_
  <2> QED BY <2>1
<1>4. F \in [1..m -> [S -> S]]
  BY <1>3
<1> HIDE DEF S
<1>5. PICK g \in [0..m -> S] : g[0] = first /\ \A d \in 1..m : g[d] = F[d][g[d - 1]]
  <2> HIDE DEF F, first, m
  <2> QED BY <1>1, <1>2, <1>4, Iteration
<1>6. \A d \in 1..m : g[d] = G(g[d - 1])
  <2>1. \A d \in 1..m : d - 1 \in 0..m
    BY <1>1
  <2>2. \A d \in 1..m : g[d - 1] \in S
    BY <2>1
  <2> QED BY <1>5, <2>2
<1>7. g = Body(g)
  <2>1. \A d \in 0..m : d = 0 \/ d \in 1..m
    BY <1>1
  <2>2. \A d \in 0..m : g[d] = IF d = 0 THEN first ELSE G(g[d - 1])
    <3> HIDE DEF first, G
    <3> QED BY <1>5, <1>6, <2>1
  <2> HIDE DEF first, G
  <2> QED BY <2>2
<1> DEFINE up == Listing(ns)
<1>8. up = Body(up)
  <2>1. up = CHOOSE f : f = Body(f)
    BY DEF Listing, Below_
  <2> HIDE DEF Body, up
  <2> QED BY <1>7, <2>1
<1>9. DOMAIN up = 0..m /\ up[0] = first /\ \A d \in 1..m : up[d] = G(up[d - 1])
  <2>1. \A d \in 1..m : d \in 0..m /\ d # 0
    BY <1>1
  <2>2. 0 \in 0..m
    BY <1>1
  <2>3. DOMAIN Body(up) = 0..m /\ \A d \in 0..m : Body(up)[d] = IF d = 0 THEN first ELSE G(up[d - 1])
    <3> HIDE DEF up, first, G
    <3> QED OBVIOUS
  <2> HIDE DEF up, first, G, Body
  <2> QED BY <1>8, <2>1, <2>2, <2>3
<1> HIDE DEF up
<1> DEFINE Good == {d \in 0..m : up[d] \in S}
<1>10. 0 \in Good
  <2> HIDE DEF first
  <2> QED BY <1>1, <1>2, <1>9
<1>11. ASSUME NEW d \in 0..m - 1, d \in Good PROVE d + 1 \in Good
  <2>1. d + 1 \in 1..m /\ d + 1 \in 0..m /\ (d + 1) - 1 = d
    BY <1>1
  <2>2. G(up[d]) \in S
    BY <1>11, <1>3
  <2>3. up[d + 1] = G(up[d])
    BY <2>1, <1>9
  <2> HIDE DEF G
  <2> QED BY <2>1, <2>2, <2>3
<1> HIDE DEF Good
<1>12. 0..m \subseteq Good
  BY <1>1, <1>10, <1>11, Induction
<1>13. \A d \in 0..m : up[d] \in S
  BY <1>12 DEF Good
<1>14. up = [d \in 0..m |-> up[d]]
  BY <1>8, <1>9
<1>15. up \in [0..m -> S]
  BY <1>13, <1>14
<1> QED BY <1>9, <1>15 DEF S, up

\* The levels of the listing.
Levels(ns, L) ==
  /\ L \in [0..Len(ns) -> SUBSET Listed(ns)]
  /\ L[0] = {[path |-> << >>, node |-> Root]}
  /\ \A d \in 1..Len(ns) : L[d] = Below_(ns, L[d - 1])
  /\ \A e : e \in FlatIter(ns) <=> \E d \in 1..Len(ns) : e \in L[d]

\* What is listed is in some level.
LEMMA ListingLevels ==
  ASSUME NEW ns, Heap(ns), Root \in Ids(ns)
  PROVE  \E L : Levels(ns, L)
<1> DEFINE m == Len(ns)
           up == Listing(ns)
           L == [d \in 0..m |-> up[d].last]
<1>1. /\ m \in Nat
      /\ up \in [0..m -> [found : SUBSET Listed(ns), last : SUBSET Listed(ns)]]
      /\ up[0] = [found |-> {}, last |-> {[path |-> << >>, node |-> Root]}]
      /\ \A d \in 1..m : up[d] = [found |-> up[d - 1].found \cup Below_(ns, up[d - 1].last),
                                  last |-> Below_(ns, up[d - 1].last)]
  BY ListingSteps, HeapTypes
<1>2. FlatIter(ns) = up[m].found
  BY DEF FlatIter
<1> HIDE DEF up
<1>3. up[0].found = {} /\ up[0].last = {[path |-> << >>, node |-> Root]}
  BY <1>1
<1>4. \A d \in 1..m : /\ up[d].found = up[d - 1].found \cup Below_(ns, up[d - 1].last)
                      /\ up[d].last = Below_(ns, up[d - 1].last)
  <2>1. ASSUME NEW d \in 1..m
        PROVE  /\ up[d].found = up[d - 1].found \cup Below_(ns, up[d - 1].last)
               /\ up[d].last = Below_(ns, up[d - 1].last)
    <3>1. up[d] = [found |-> up[d - 1].found \cup Below_(ns, up[d - 1].last),
                   last |-> Below_(ns, up[d - 1].last)]
      BY <1>1
    <3> QED BY <3>1
  <2> QED BY <2>1
<1>5. \A d \in 1..m : d - 1 \in 0..m /\ d \in 0..m
  BY <1>1
<1>6. L \in [0..m -> SUBSET Listed(ns)]
  BY <1>1
<1>7. L[0] = {[path |-> << >>, node |-> Root]} /\ \A d \in 1..m : L[d] = Below_(ns, L[d - 1])
  <2>1. 0 \in 0..m
    BY <1>1
  <2>2. \A d \in 0..m : L[d] = up[d].last
    OBVIOUS
  <2> HIDE DEF L
  <2> QED BY <2>1, <2>2, <1>3, <1>4, <1>5
<1>8. \A d \in 0..m : L[d] = up[d].last
  OBVIOUS
<1> HIDE DEF L
<1> DEFINE Good == {d \in 0..m : \A e : e \in up[d].found <=> \E c \in 1..d : e \in L[c]}
<1>9. 0 \in Good
  BY <1>1, <1>3
<1>10. ASSUME NEW d \in 0..m - 1, d \in Good PROVE d + 1 \in Good
  <2>1. d + 1 \in 1..m /\ d + 1 \in 0..m /\ (d + 1) - 1 = d /\ d \in Nat
    BY <1>1
  <2>2. up[d + 1].found = up[d].found \cup L[d + 1]
    BY <2>1, <1>4, <1>8
  <2>3. \A c \in 1..d + 1 : c = d + 1 \/ c \in 1..d
    BY <2>1
  <2>4. \A c \in 1..d : c \in 1..d + 1
    BY <2>1
  <2>5. d + 1 \in 1..d + 1
    BY <2>1
  <2>6. \A e : e \in up[d].found <=> \E c \in 1..d : e \in L[c]
    BY <1>10
  <2>7. \A e : e \in up[d + 1].found <=> \E c \in 1..d + 1 : e \in L[c]
    BY <2>2, <2>3, <2>4, <2>5, <2>6
  <2> QED BY <2>1, <2>7
<1> HIDE DEF Good
<1>11. 0..m \subseteq Good
  BY <1>1, <1>9, <1>10, Induction
<1>12. m \in Good
  BY <1>1, <1>11
<1>13. \A e : e \in FlatIter(ns) <=> \E c \in 1..m : e \in L[c]
  BY <1>2, <1>12 DEF Good
<1>14. Levels(ns, L)
  BY <1>6, <1>7, <1>13 DEF Levels
<1> QED BY <1>14

\* What is in a level is below what is in the one before, and the other way round.
LEMMA LevelSteps ==
  ASSUME NEW ns, Heap(ns), NEW L, Levels(ns, L), NEW d \in 1..Len(ns)
  PROVE  /\ d - 1 \in 0..Len(ns) /\ L[d] \subseteq Listed(ns) /\ L[d - 1] \subseteq Listed(ns)
         /\ \A x \in L[d] : \E e \in L[d - 1], s \in AllSteps, y \in Ids(ns) :
               x = [path |-> Append(e.path, s), node |-> y] /\ Edge(ns, e.node, s, y)
         /\ \A e \in L[d - 1], s \in AllSteps, y \in Ids(ns) :
               Edge(ns, e.node, s, y) => [path |-> Append(e.path, s), node |-> y] \in L[d]
<1>1. d - 1 \in 0..Len(ns) /\ d \in 0..Len(ns)
  BY HeapTypes
<1>2. L[d] \subseteq Listed(ns) /\ L[d - 1] \subseteq Listed(ns) /\ L[d] = Below_(ns, L[d - 1])
  BY <1>1 DEF Levels
<1>3. \A x : x \in L[d] <=> \E e \in L[d - 1] : x \in Children(ns, e)
  BY <1>2 DEF Below_
<1>4. ASSUME NEW e \in L[d - 1]
      PROVE  \A x : x \in Children(ns, e) <=>
              \E s \in AllSteps : \E y \in Ids(ns) :
                 x = [path |-> Append(e.path, s), node |-> y] /\ Edge(ns, e.node, s, y)
  BY <1>2, ChildrenAre
<1>5. ASSUME NEW x \in L[d]
      PROVE  \E e \in L[d - 1], s \in AllSteps, y \in Ids(ns) :
               x = [path |-> Append(e.path, s), node |-> y] /\ Edge(ns, e.node, s, y)
  <2>1. PICK e \in L[d - 1] : x \in Children(ns, e)
    BY <1>3
  <2> QED BY <2>1, <1>4
<1>6. ASSUME NEW e \in L[d - 1], NEW s \in AllSteps, NEW y \in Ids(ns), Edge(ns, e.node, s, y)
      PROVE  [path |-> Append(e.path, s), node |-> y] \in L[d]
  <2>1. [path |-> Append(e.path, s), node |-> y] \in Children(ns, e)
    BY <1>4, <1>6
  <2> QED BY <2>1, <1>3
<1> QED BY <1>1, <1>2, <1>5, <1>6

\* What is listed are nodes.
LEMMA FlatNodes ==
  ASSUME NEW ns, Heap(ns), Root \in Ids(ns), NEW e \in FlatIter(ns)
  PROVE  e \in Listed(ns) /\ e.node \in Ids(ns) /\ e.path \in Seq(AllSteps)
<1>1. PICK L : Levels(ns, L)
  BY ListingLevels
<1>2. PICK d \in 1..Len(ns) : e \in L[d]
  BY <1>1 DEF Levels
<1>3. e \in Listed(ns)
  BY <1>1, <1>2, LevelSteps
<1> QED BY <1>3 DEF Listed

-----------------------------------------------------------------------------
(* path *)

\* An index leads to a node or to nowhere.
LEMMA IndexTypes ==
  ASSUME Heap(nodes), NEW id \in Ids(nodes) \cup {0}, NEW s
  PROVE  IndexInto(id, s) \in Ids(nodes) \cup {0}
<1>1. CASE id # 0 /\ s[1] = "key" /\ IsTable(nodes, id) /\ Has(nodes, id, s[2])
  <2>1. IndexInto(id, s) = Get(nodes, id, s[2])
    BY <1>1 DEF IndexInto
  <2>2. Get(nodes, id, s[2]) \in Ids(nodes)
    BY <1>1, GotNode
  <2> QED BY <2>1, <2>2
<1>2. CASE id # 0 /\ s[1] = "item" /\ IsArray(nodes, id) /\ s[2] \in 1..Len(nodes[id].items)
  <2>1. IndexInto(id, s) = nodes[id].items[s[2]]
    BY <1>2 DEF IndexInto
  <2>2. nodes[id] \in NodeRec /\ Agrees(nodes[id], Len(nodes)) /\ Len(nodes) \in Nat
    BY <1>2, HeapTypes
  <2>3. nodes[id].items[s[2]] \in Ids(nodes)
    BY <1>2, <2>2, NodeTypes DEF Ids
  <2> QED BY <2>1, <2>3
<1>3. CASE /\ ~(id # 0 /\ s[1] = "key" /\ IsTable(nodes, id) /\ Has(nodes, id, s[2]))
           /\ ~(id # 0 /\ s[1] = "item" /\ IsArray(nodes, id) /\ s[2] \in 1..Len(nodes[id].items))
  BY <1>3 DEF IndexInto
<1> QED BY <1>1, <1>2, <1>3

\* The nodes on the way of a path.
Way(p, w) ==
  /\ w \in [0..Len(p) -> Ids(nodes) \cup {0}] /\ w[0] = Root /\ w[Len(p)] = Path(p)
  /\ \A i \in 1..Len(p) : w[i] = IndexInto(w[i - 1], p[i])

\* A path has nodes on its way, the first of which is the root.
LEMMA PathWay ==
  ASSUME Heap(nodes), Root \in Ids(nodes), NEW p \in Seq(AllSteps)
  PROVE  \E w : Way(p, w)
<1> DEFINE S == Ids(nodes) \cup {0}
           m == Len(p)
           F == [i \in 1..m |-> [a \in S |-> IndexInto(a, p[i])]]
           Body(g) == [i \in 0..m |-> IF i = 0 THEN Root ELSE IndexInto(g[i - 1], p[i])]
<1>1. m \in Nat
  BY LenProperties
<1>2. F \in [1..m -> [S -> S]]
  BY IndexTypes
<1>3. Root \in S
  OBVIOUS
<1> HIDE DEF S
<1>4. PICK g \in [0..m -> S] : g[0] = Root /\ \A i \in 1..m : g[i] = F[i][g[i - 1]]
  <2> HIDE DEF F, m
  <2> QED BY ONLY <1>1, <1>2, <1>3, Iteration
<1>5. \A i \in 1..m : i - 1 \in 0..m /\ i \in 0..m
  BY <1>1
<1>6. \A i \in 1..m : g[i] = IndexInto(g[i - 1], p[i])
  <2>1. \A i \in 1..m : g[i - 1] \in S
    BY <1>5
  <2> QED BY <1>4, <2>1
<1>7. g = Body(g)
  <2>1. \A i \in 0..m : i = 0 \/ i \in 1..m
    BY <1>1
  <2>2. \A i \in 0..m : g[i] = IF i = 0 THEN Root ELSE IndexInto(g[i - 1], p[i])
    BY <1>4, <1>6, <2>1
  <2> QED BY <2>2
<1> DEFINE to == CHOOSE f : f = Body(f)
<1>8. Path(p) = to[m]
  BY DEF Path
<1>9. to = Body(to)
  <2> HIDE DEF Body
  <2> QED BY <1>7
<1> HIDE DEF to
<1>10. \A i \in 0..m : to[i] = IF i = 0 THEN Root ELSE IndexInto(to[i - 1], p[i])
  <2>1. \A i \in 0..m : Body(to)[i] = IF i = 0 THEN Root ELSE IndexInto(to[i - 1], p[i])
    OBVIOUS
  <2> HIDE DEF Body
  <2> QED BY <1>9, <2>1
<1>11. DOMAIN to = 0..m
  <2>1. DOMAIN Body(to) = 0..m
    OBVIOUS
  <2> HIDE DEF Body
  <2> QED BY <1>9, <2>1
<1> DEFINE Good == {i \in 0..m : to[i] \in S}
<1>12. 0 \in Good /\ to[0] = Root
  BY <1>1, <1>3, <1>10
<1>13. ASSUME NEW i \in 0..m - 1, i \in Good PROVE i + 1 \in Good
  <2>1. i + 1 \in 0..m /\ i + 1 # 0 /\ (i + 1) - 1 = i
    BY <1>1
  <2>2. to[i + 1] = IndexInto(to[i], p[i + 1])
    BY <2>1, <1>10
  <2>3. to[i] \in S
    BY <1>13
  <2>4. IndexInto(to[i], p[i + 1]) \in S
    BY <2>3, IndexTypes DEF S
  <2> QED BY <2>1, <2>2, <2>4
<1> HIDE DEF Good
<1>14. 0..m \subseteq Good
  BY <1>1, <1>12, <1>13, Induction
<1>15. \A i \in 0..m : to[i] \in S
  BY <1>14 DEF Good
<1>16. to = [i \in 0..m |-> to[i]]
  BY <1>9, <1>11
<1>17. to \in [0..m -> S]
  BY <1>15, <1>16
<1>18. \A i \in 1..m : to[i] = IndexInto(to[i - 1], p[i])
  <2>1. \A i \in 1..m : i # 0
    OBVIOUS
  <2> QED BY <1>5, <1>10, <2>1
<1>19. Way(p, to)
  BY <1>8, <1>12, <1>17, <1>18 DEF Way, S
<1> QED BY <1>19

\* A longer path is an index into the node of the shorter one.
LEMMA PathSteps ==
  ASSUME Heap(nodes), Root \in Ids(nodes), NEW p \in Seq(AllSteps), NEW s \in AllSteps
  PROVE  Path(Append(p, s)) = IndexInto(Path(p), s)
<1> DEFINE q == Append(p, s)
           m == Len(p)
<1>1. /\ q \in Seq(AllSteps) /\ m \in Nat /\ Len(q) = m + 1 /\ q[m + 1] = s
      /\ \A i \in 1..m : q[i] = p[i]
  BY AppendPath
<1> HIDE DEF q
<1>2. PICK v : Way(p, v)
  BY PathWay
<1>3. PICK w : Way(q, w)
  BY <1>1, PathWay
<1> DEFINE Good == {i \in 0..m : v[i] = w[i]}
<1>4. 0 \in Good
  BY <1>1, <1>2, <1>3 DEF Way
<1>5. ASSUME NEW i \in 0..m - 1, i \in Good PROVE i + 1 \in Good
  <2>1. i + 1 \in 1..m /\ i + 1 \in 0..m /\ (i + 1) - 1 = i /\ i + 1 \in 1..m + 1
    BY <1>1
  <2>2. v[i + 1] = IndexInto(v[i], p[i + 1]) /\ w[i + 1] = IndexInto(w[i], q[i + 1])
    BY <1>1, <1>2, <1>3, <2>1 DEF Way
  <2> QED BY <2>1, <2>2, <1>1, <1>5
<1> HIDE DEF Good
<1>6. 0..m \subseteq Good
  BY <1>1, <1>4, <1>5, Induction
<1>7. v[m] = w[m]
  <2>1. m \in Good
    BY <1>1, <1>6
  <2> QED BY <2>1 DEF Good
<1>8. m + 1 \in 1..m + 1 /\ (m + 1) - 1 = m
  BY <1>1
<1>9. w[m + 1] = IndexInto(w[m], s)
  BY <1>1, <1>3, <1>8 DEF Way
<1> QED BY <1>1, <1>2, <1>3, <1>7, <1>9 DEF Way, q

LEMMA PathOfRoot ==
  ASSUME Heap(nodes), Root \in Ids(nodes)
  PROVE  Path(<< >>) = Root
<1>1. << >> \in Seq(AllSteps) /\ Len(<< >>) = 0
  BY EmptySeq
<1>2. PICK w : Way(<< >>, w)
  BY <1>1, PathWay
<1> QED BY <1>1, <1>2 DEF Way

\* What is below a node without errors is indexed by its step.
LEMMA IndexLeads ==
  ASSUME Heap(nodes), NEW x \in Ids(nodes), nodes[x].errors = {}, NEW s \in AllSteps, NEW y,
         Edge(nodes, x, s, y)
  PROVE  IndexInto(x, s) = y
<1>1. nodes[x] \in NodeRec /\ Agrees(nodes[x], Len(nodes)) /\ Len(nodes) \in Nat /\ x # 0
  BY HeapTypes DEF Ids
<1>2. CASE \E k \in Keys : s = Step(k)
  <2>1. PICK k \in Keys : s = Step(k)
    BY <1>2
  <2>2. Has(nodes, x, k) /\ y = Get(nodes, x, k)
    BY <2>1, Edges
  <2>3. nodes[x].all # << >>
    <3>1. PICK i \in 1..Len(nodes[x].all) :
            nodes[x].all[i].key = k /\ nodes[x].all[i].node = nodes[x].lookup[k]
      BY <2>2, <1>1 DEF Agrees, Has
    <3> QED BY EmptySeq
  <2>4. IsTable(nodes, x)
    BY <2>3, <1>1 DEF Agrees, IsTable
  <2>5. s[1] = "key" /\ s[2] = k
    BY <2>1 DEF Step
  <2> QED BY <2>2, <2>4, <2>5, <1>1 DEF IndexInto
<1>3. CASE \E n \in Nat : s = Item(n)
  <2>1. PICK n \in Nat : s = Item(n)
    BY <1>3
  <2>2. n \in 1..Len(nodes[x].items) /\ y = nodes[x].items[n]
    BY <2>1, Edges
  <2>3. nodes[x].items # << >>
    BY <2>2, EmptySeq
  <2>4. IsArray(nodes, x)
    BY <2>3, <1>1 DEF Agrees, IsArray
  <2>5. s[1] = "item" /\ s[2] = n
    BY <2>1 DEF Item
  <2> QED BY <2>2, <2>4, <2>5, <1>1 DEF IndexInto
<1> QED BY <1>2, <1>3 DEF AllSteps

\* Level by level, the path of a node leads to it.
LEMMA PathsLeadBackHere ==
  ASSUME Shape
  PROVE  PathsLeadBack
<1> SUFFICES ASSUME Recorded = {}
             PROVE  \A e \in FlatIter(nodes) : Path(e.path) = e.node
  BY DEF PathsLeadBack
<1>1. Heap(nodes) /\ Root \in Ids(nodes) /\ Len(nodes) \in Nat
  BY HeapTypes DEF Shape, TableOf
<1>2. PICK L : Levels(nodes, L)
  BY <1>1, ListingLevels
<1>3. nodes[Root].errors = {} /\ \A e \in FlatIter(nodes) : nodes[e.node].errors = {}
  <2>1. nodes[Root].errors \cup UNION {nodes[e.node].errors : e \in FlatIter(nodes)} = {}
    BY DEF Recorded, RecordedIn
  <2> QED BY <2>1
<1> DEFINE Good == {d \in 0..Len(nodes) :
                      \A e \in L[d] : nodes[e.node].errors = {} /\ Path(e.path) = e.node}
<1>4. 0 \in Good
  BY <1>1, <1>2, <1>3, PathOfRoot DEF Levels
<1>5. ASSUME NEW d \in 0..Len(nodes) - 1, d \in Good PROVE d + 1 \in Good
  <2>1. d + 1 \in 1..Len(nodes) /\ d + 1 \in 0..Len(nodes) /\ (d + 1) - 1 = d
    BY <1>1
  <2>2. ASSUME NEW x \in L[d + 1]
        PROVE  nodes[x.node].errors = {} /\ Path(x.path) = x.node
    <3>1. nodes[x.node].errors = {}
      BY <1>2, <1>3, <2>1 DEF Levels
    <3>2. L[d] \subseteq Listed(nodes) /\ \E e \in L[d], s \in AllSteps, y \in Ids(nodes) :
            x = [path |-> Append(e.path, s), node |-> y] /\ Edge(nodes, e.node, s, y)
      <4>1. /\ L[(d + 1) - 1] \subseteq Listed(nodes)
            /\ \E e \in L[(d + 1) - 1], s \in AllSteps, y \in Ids(nodes) :
                  x = [path |-> Append(e.path, s), node |-> y] /\ Edge(nodes, e.node, s, y)
        BY <1>1, <1>2, <2>1, LevelSteps
      <4> QED BY <4>1, <2>1
    <3>3. PICK e \in L[d], s \in AllSteps, y \in Ids(nodes) :
            x = [path |-> Append(e.path, s), node |-> y] /\ Edge(nodes, e.node, s, y)
      BY <3>2
    <3>4. e.node \in Ids(nodes) /\ e.path \in Seq(AllSteps)
      BY <3>2, <3>3 DEF Listed
    <3>5. nodes[e.node].errors = {} /\ Path(e.path) = e.node
      BY <1>5, <3>3
    <3>6. x.path = Append(e.path, s) /\ x.node = y
      BY <3>3
    <3>7. Path(x.path) = IndexInto(e.node, s)
      BY <1>1, <3>4, <3>5, <3>6, PathSteps
    <3>8. IndexInto(e.node, s) = y
      BY <1>1, <3>3, <3>4, <3>5, IndexLeads
    <3> QED BY <3>1, <3>6, <3>7, <3>8
  <2> QED BY <2>1, <2>2
<1> HIDE DEF Good
<1>6. 0..Len(nodes) \subseteq Good
  BY <1>1, <1>4, <1>5, Induction
<1>7. ASSUME NEW e \in FlatIter(nodes) PROVE Path(e.path) = e.node
  <2>1. PICK d \in 1..Len(nodes) : e \in L[d]
    BY <1>2 DEF Levels
  <2>2. d \in Good
    BY <1>1, <1>6
  <2> QED BY <2>1, <2>2 DEF Good
<1> QED BY <1>7

-----------------------------------------------------------------------------
(* Every node below the root is listed *)

\* A walk that is longer than there are nodes passes one of them twice.
LEMMA NoRoom ==
  ASSUME NEW n \in Nat, NEW m \in Nat, m <= n, NEW w \in [0..n -> 1..m]
  PROVE  \E i, j \in 0..n : i < j /\ w[i] = w[j]
<1>1. IsFiniteSet(0..n) /\ Cardinality(0..n) = n + 1
  <2>1. 0 \in Int /\ n \in Int /\ ~(0 > n)
    OBVIOUS
  <2>2. IsFiniteSet(0..n) /\ Cardinality(0..n) = n - 0 + 1
    BY <2>1, FS_Interval
  <2> QED BY <2>2
<1>2. IsFiniteSet(1..m) /\ Cardinality(1..m) = m
  <2>1. 1 \in Int /\ m \in Int
    OBVIOUS
  <2>2. IsFiniteSet(1..m) /\ Cardinality(1..m) = IF 1 > m THEN 0 ELSE m - 1 + 1
    BY <2>1, FS_Interval
  <2> QED BY <2>2
<1>3. Cardinality(1..m) < Cardinality(0..n)
  BY <1>1, <1>2
<1>4. PICK x, y \in 0..n : x # y /\ w[x] = w[y]
  BY <1>1, <1>2, <1>3, FS_PigeonHole
<1>5. x < y \/ y < x
  BY <1>4
<1> QED BY <1>4, <1>5

\* A walk of n kids.
IsWalk(ns, r, x, n, w) ==
  /\ w \in [0..n -> Ids(ns)] /\ w[0] = r /\ w[n] = x
  /\ \A i \in 1..n : Kid(ns, w[i - 1], w[i])

\* A shortest walk passes no node twice.
LEMMA ShortWalk ==
  ASSUME NEW ns, Heap(ns), NEW r, NEW x, Reach(ns, r, x)
  PROVE  \E n \in 0..Len(ns) - 1 : \E w : IsWalk(ns, r, x, n, w)
<1> DEFINE T == {n \in Nat : \E w : IsWalk(ns, r, x, n, w)}
<1>1. T \subseteq Nat /\ T # {}
  <2>1. \E n \in Nat : \E w \in [0..n -> Ids(ns)] :
            w[0] = r /\ w[n] = x /\ \A i \in 1..n : Kid(ns, w[i - 1], w[i])
    BY DEF Reach
  <2> QED BY <2>1 DEF IsWalk
<1>2. PICK n \in T : \A l \in T : n <= l
  <2> HIDE DEF T
  <2> QED BY <1>1, LeastNumber
<1>3. n \in Nat
  OBVIOUS
<1>4. PICK w : IsWalk(ns, r, x, n, w)
  OBVIOUS
<1>5. Len(ns) \in Nat
  BY HeapTypes
<1>6. ~(Len(ns) <= n)
  <2> SUFFICES ASSUME Len(ns) <= n PROVE FALSE
    OBVIOUS
  <2>1. w \in [0..n -> 1..Len(ns)]
    BY <1>4 DEF IsWalk, Ids
  <2>2. PICK i, j \in 0..n : i < j /\ w[i] = w[j]
    BY <1>3, <1>5, <2>1, NoRoom
  <2> DEFINE d == j - i
             l == n - d
             v == [k \in 0..l |-> IF k <= i THEN w[k] ELSE w[k + d]]
  <2>3. d \in 1..n /\ l \in Nat /\ l < n /\ i \in 0..l /\ i + d = j /\ l + d = n
    BY <1>3, <2>2
  <2> HIDE DEF d, l
  <2>4. \A k \in 0..l : k \in 0..n /\ k + d \in 0..n
    BY <1>3, <2>3
  <2>5. v \in [0..l -> Ids(ns)]
    BY <2>4, <1>4 DEF IsWalk
  <2>6. v[0] = r
    <3>1. 0 \in 0..l /\ 0 <= i
      BY <2>3
    <3> QED BY <3>1, <1>4 DEF IsWalk
  <2>7. v[l] = x
    <3>1. l \in 0..l
      BY <2>3
    <3>2. CASE l <= i
      <4>1. l = i /\ j = n
        BY <1>3, <2>2, <2>3, <3>2
      <4> QED BY <4>1, <3>1, <2>2, <1>4 DEF IsWalk
    <3>3. CASE ~(l <= i)
      BY <3>1, <3>3, <2>3, <1>4 DEF IsWalk
    <3> QED BY <3>2, <3>3
  <2>8. ASSUME NEW k \in 1..l PROVE Kid(ns, v[k - 1], v[k])
    <3>1. k \in 0..l /\ k - 1 \in 0..l /\ k \in Nat
      BY <2>3
    <3>2. CASE k <= i
      <4>1. v[k] = w[k] /\ v[k - 1] = w[k - 1] /\ k \in 1..n
        BY <1>3, <2>3, <3>1, <3>2
      <4> QED BY <4>1, <1>4 DEF IsWalk
    <3>3. CASE k = i + 1
      <4>1. v[k - 1] = w[i] /\ v[k] = w[k + d] /\ k + d \in 1..n /\ (k + d) - 1 = j
        BY <1>3, <2>2, <2>3, <3>1, <3>3
      <4> QED BY <4>1, <2>2, <1>4 DEF IsWalk
    <3>4. CASE k > i + 1
      <4>1. ~(k <= i) /\ ~(k - 1 <= i)
        BY <3>4, <2>2
      <4>2. v[k - 1] = w[(k - 1) + d] /\ v[k] = w[k + d]
        BY <4>1, <3>1
      <4>3. k + d \in 1..n /\ (k + d) - 1 = (k - 1) + d
        BY <1>3, <2>3, <3>1
      <4> QED BY <4>2, <4>3, <1>4 DEF IsWalk
    <3> QED BY <2>2, <3>1, <3>2, <3>3, <3>4
  <2> HIDE DEF v
  <2>9. IsWalk(ns, r, x, l, v)
    BY <2>5, <2>6, <2>7, <2>8 DEF IsWalk
  <2>10. l \in T
    BY <2>3, <2>9
  <2> QED BY <1>2, <1>3, <2>3, <2>10
<1>7. n \in 0..Len(ns) - 1
  BY <1>3, <1>5, <1>6
<1> QED BY <1>4, <1>7

\* A node below the root is in the level of its shortest walk.
LEMMA ReachedIsListed ==
  ASSUME NEW ns, Heap(ns), NEW x, Reach(ns, Root, x), x # Root
  PROVE  \E e \in FlatIter(ns) : e.node = x
<1>1. Root \in Ids(ns) /\ Len(ns) \in Nat
  BY ReachIds, HeapTypes
<1>2. PICK L : Levels(ns, L)
  BY <1>1, ListingLevels
<1>3. PICK n \in 0..Len(ns) - 1 : \E w : IsWalk(ns, Root, x, n, w)
  BY ShortWalk
<1>4. PICK w : IsWalk(ns, Root, x, n, w)
  BY <1>3
<1> DEFINE Good == {d \in 0..n : \E e \in L[d] : e.node = w[d]}
<1>5. 0 \in Good
  <2> DEFINE e == [path |-> << >>, node |-> Root]
  <2>1. e \in L[0] /\ e.node = Root
    BY <1>2 DEF Levels
  <2>2. w[0] = Root /\ 0 \in 0..n
    BY <1>4 DEF IsWalk
  <2> HIDE DEF e
  <2> QED BY <2>1, <2>2
<1>6. ASSUME NEW d \in 0..n - 1, d \in Good PROVE d + 1 \in Good
  <2>1. d + 1 \in 1..n /\ d + 1 \in 0..n /\ d \in 0..n /\ (d + 1) - 1 = d /\ d + 1 \in 1..Len(ns)
    BY <1>1
  <2>2. PICK e \in L[d] : e.node = w[d]
    BY <1>6
  <2>3. Kid(ns, w[d], w[d + 1]) /\ w[d] \in Ids(ns)
    BY <1>4, <2>1 DEF IsWalk
  <2>4. PICK s \in AllSteps : Edge(ns, w[d], s, w[d + 1])
    BY <2>3, Edges
  <2>5. w[d + 1] \in Ids(ns)
    BY <1>4, <2>1 DEF IsWalk
  <2>6. \A a \in L[(d + 1) - 1], t \in AllSteps, y \in Ids(ns) :
               Edge(ns, a.node, t, y) => [path |-> Append(a.path, t), node |-> y] \in L[d + 1]
    BY <1>2, <2>1, LevelSteps
  <2>7. [path |-> Append(e.path, s), node |-> w[d + 1]] \in L[d + 1]
    BY <2>1, <2>2, <2>4, <2>5, <2>6
  <2> QED BY <2>1, <2>7
<1> HIDE DEF Good
<1>7. 0..n \subseteq Good
  BY <1>5, <1>6, Induction
<1>8. n # 0
  BY <1>4 DEF IsWalk
<1>9. n \in 1..Len(ns) /\ n \in Good
  BY <1>1, <1>7, <1>8
<1>10. PICK e \in L[n] : e.node = w[n]
  BY <1>9 DEF Good
<1> QED BY <1>2, <1>4, <1>9, <1>10 DEF Levels, IsWalk

\* An error of the document is recorded, as no value is open any more.
LEMMA FaultIsRecorded ==
  ASSUME Shape, Faulty, Len(reading) = 1
  PROVE  Recorded # {}
<1>1. Heap(nodes) /\ Stacked(nodes, reading)
  BY DEF Shape
<1>2. PICK i \in 1..Len(reading) : \E x \in Ids(nodes) :
        Reach(nodes, reading[i].id, x) /\ nodes[x].errors # {}
  BY DEF Faulty, FaultyIn
<1>3. PICK x \in Ids(nodes) : Reach(nodes, reading[i].id, x) /\ nodes[x].errors # {}
  BY <1>2
<1>4. Reach(nodes, Root, x)
  <2>1. i = 1
    OBVIOUS
  <2> QED BY <2>1, <1>1, <1>3 DEF Stacked
<1>5. CASE x = Root
  BY <1>3, <1>5 DEF Recorded, RecordedIn
<1>6. CASE x # Root
  <2>1. PICK e \in FlatIter(nodes) : e.node = x
    BY <1>1, <1>4, <1>6, ReachedIsListed
  <2> QED BY <2>1, <1>3 DEF Recorded, RecordedIn
<1> QED BY <1>5, <1>6

\* Without errors none is.
LEMMA NothingIsRecorded ==
  ASSUME Shape, Faultless
  PROVE  Recorded = {}
<1>1. Heap(nodes) /\ Root \in Ids(nodes)
  BY DEF Shape, TableOf
<1>2. \A e \in FlatIter(nodes) : nodes[e.node].errors = {}
  BY <1>1, FlatNodes DEF Faultless
<1>3. nodes[Root].errors = {}
  BY <1>1 DEF Faultless
<1> QED BY <1>2, <1>3 DEF Recorded, RecordedIn

-----------------------------------------------------------------------------
(* The theorems *)

\* Whatever is read, the nodes are a forest below the document and the values that are being
\* read, and headers and entries stay in the document: whatever merge_intermediate and
\* add_entry do, no node that is reached is in two places or below itself.
THEOREM TreeIsATree == Spec => []Shape
<1>1. Init => Shape
  BY InitShape
<1>2. Shape /\ [Next]_vars => Shape'
  BY ShapeStep
<1> QED BY <1>1, <1>2, PTL DEF Spec

\* An error of the tree is never lost, whatever is merged later into the node that has it or
\* takes its place in lookup: it stays where flat_iter finds it.
THEOREM ErrorsStay == Spec => [][Faulty => Faulty']_vars
<1>1. Shape /\ [Next]_vars => [Faulty => Faulty']_vars
  BY ShapeStep
<1> QED BY <1>1, TreeIsATree, PTL DEF Spec

\* The path that flat_iter gives a node leads back to that node, when there is no error.
THEOREM PathsAlwaysLeadBack == Spec => []PathsLeadBack
<1>1. Shape => PathsLeadBack
  BY PathsLeadBackHere
<1> QED BY <1>1, TreeIsATree, PTL
===============================================================================
