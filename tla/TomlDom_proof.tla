----------------------------- MODULE TomlDom_proof -----------------------------
(* taplo's tree and TOML agree, whatever the keys, the values and the number of   *)
(* statements: a valid document has no errors and the tree that TOML describes,   *)
(* and any other document has an error that is found, but for the two known       *)
(* faults.                                                                        *)
(*                                                                                *)
(* The invariant adds Verdict to the Shape of the tree.  While TOML allows what   *)
(* was read, no node has an error, and the document and each value that is being  *)
(* read is a Layer: its nodes are, one to one, those of the paths that TOML has   *)
(* defined, with edges and kinds that suit.  So a key is in a table exactly when  *)
(* its path is defined, and the cases of merge_intermediate, add_entry and        *)
(* root_from_syntax are those of TOML's rules.  Of what TOML forbids it is enough *)
(* that the step leaves an error below the root or below a value that is open;    *)
(* ErrorsStay keeps it.                                                           *)
EXTENDS TomlTree_proof

-----------------------------------------------------------------------------
(* Layers: the tree below a node is what a set of definitions describes *)

\* The ways of a definition that suit a node.
Hows == {"table", "super", "reopened", "dotted", "array", "scalar", "inline", "list"}
Suits(n, d) ==
  /\ d.how \in Hows
  /\ d.how = "table" => n.kind = "regular"
  /\ d.how \in {"super", "reopened"} => n.kind = "pseudo" /\ n.header
  /\ d.how = "dotted" => n.kind = "pseudo" /\ ~n.header
  /\ d.how = "array" => n.kind = "tables" /\ d.tables = Len(n.items)
  /\ d.how \in {"scalar", "inline", "list"} => n.kind = d.how

\* Paths that begin with R, and with them every path on the way.
Closed(P, R) ==
  /\ R \in P
  /\ \A q \in P : /\ q \in Seq(AllSteps) /\ Len(R) <= Len(q) /\ SubSeq(q, 1, Len(R)) = R
                  /\ \A n \in Len(R)..Len(q) : SubSeq(q, 1, n) \in P

\* The nodes that are reached from r are, one to one, those of the paths in D that begin
\* with R: f gives the node of a path, its edges are the longer paths, its kind is right.
Layer(ns, D, R, r, f) ==
  /\ Closed(DOMAIN D, R)
  /\ f \in [DOMAIN D -> Ids(ns)] /\ f[R] = r
  /\ \A p, q \in DOMAIN D : f[p] = f[q] => p = q
  /\ \A q \in DOMAIN D \ {R} :
        \E p \in DOMAIN D, s \in AllSteps : q = Append(p, s) /\ Edge(ns, f[p], s, f[q])
  /\ \A p \in DOMAIN D : \A s \in AllSteps, y \in Ids(ns) :
        Edge(ns, f[p], s, y) => Append(p, s) \in DOMAIN D /\ f[Append(p, s)] = y
  /\ \A p \in DOMAIN D : Suits(ns[f[p]], D[p])

\* An array of tables has some, and nothing else.
Arrayed(D) ==
  \A p \in DOMAIN D : D[p].how = "array" =>
     /\ D[p].tables \in Nat \ {0}
     /\ \A n \in Nat : Append(p, Item(n)) \in DOMAIN D => D[Append(p, Item(n))].how = "table"

\* Several layers have no node in common.
Layers(ns, known, stack, fs) ==
  /\ Len(known) = Len(stack)
  /\ \A i \in 1..Len(stack) :
        Layer(ns, known[i].defined, known[i].path, stack[i].id, fs[i])
  /\ \A i, j \in 1..Len(stack) : i # j =>
        \A p \in DOMAIN known[i].defined, q \in DOMAIN known[j].defined : fs[i][p] # fs[j][q]

-----------------------------------------------------------------------------
(* The inductive invariant *)

\* The records of what TOML says.
IsKnown(known) ==
  /\ known = [i \in 1..Len(known) |-> known[i]]
  /\ \A i \in 1..Len(known) : known[i] = [path |-> known[i].path, defined |-> known[i].defined]
IsToml(t) == t = [verdict |-> t.verdict, known |-> t.known,
                  section |-> t.section, place |-> t.place]

\* Where the open values stand in the text.
Placed ==
  /\ toml.known[1].path = << >>
  /\ \A i \in 2..Len(reading) :
        /\ toml.known[i].path =
              IF reading[i].keys = << >>
              THEN Append(toml.known[i - 1].path, Item(reading[i - 1].next))
              ELSE Below(i - 1) \o Steps(reading[i].keys)
        /\ reading[i].value.kind = "list" =>
              Len(nodes[reading[i].id].items) = reading[i].next - 1

\* The text has come to the path that the tree has come to.
Located(fs) ==
  /\ toml.section \in DOMAIN toml.known[1].defined /\ fs[1][toml.section] = current
  /\ pc \in {"table", "tables"} =>
        toml.place \in DOMAIN toml.known[1].defined /\ fs[1][toml.place] = walk.id
  /\ pc = "entry" =>
        LET n == Len(reading) - 1
        IN /\ toml.place \in DOMAIN toml.known[n].defined /\ fs[n][toml.place] = walk.id
           /\ toml.known[n + 1].path = toml.place \o Steps(walk.keys)

\* The tree and the values that are being read are what TOML says, path by path.
Described(fs) ==
  /\ IsKnown(toml.known)
  /\ Layers(nodes, toml.known, reading, fs)
  /\ \A i \in 1..Len(toml.known) : Arrayed(toml.known[i].defined)
  /\ Located(fs)

\* What TOML says of the text, and what the tree has of it.
Verdict ==
  /\ toml.verdict \in {"valid", "tolerated", "invalid"}
  /\ toml.verdict # "invalid" => IsToml(toml) /\ Placed /\ Faultless /\ \E fs : Described(fs)
  /\ toml.verdict = "invalid" => toml = Rejected /\ Faulty

\* Both together.
IInv == Shape /\ Verdict

-----------------------------------------------------------------------------
(* What a layer describes is what flat_iter lists *)

\* What a layer says of a path.
LEMMA LayerIds ==
  ASSUME NEW ns, NEW D, NEW R, NEW r, NEW f, Layer(ns, D, R, r, f)
  PROVE  /\ R \in DOMAIN D /\ f[R] = r /\ r \in Ids(ns)
         /\ \A p \in DOMAIN D : p \in Seq(AllSteps) /\ f[p] \in Ids(ns) /\ Suits(ns[f[p]], D[p])
         /\ R \in Seq(AllSteps)
<1>1. R \in DOMAIN D /\ \A p \in DOMAIN D : p \in Seq(AllSteps)
  BY DEF Layer, Closed
<1>2. f \in [DOMAIN D -> Ids(ns)] /\ f[R] = r
  BY DEF Layer
<1> QED BY <1>1, <1>2 DEF Layer

\* The paths of a document are no longer than there are nodes.
LEMMA PathsAreShort ==
  ASSUME NEW ns, Heap(ns), NEW D, NEW f, Layer(ns, D, << >>, Root, f), NEW q \in DOMAIN D
  PROVE  Len(q) \in 0..Len(ns)
<1>1. /\ q \in Seq(AllSteps) /\ \A n \in 0..Len(q) : SubSeq(q, 1, n) \in DOMAIN D
      /\ f \in [DOMAIN D -> Ids(ns)] /\ \A a, b \in DOMAIN D : f[a] = f[b] => a = b
  <2>1. Len(<< >>) = 0
    OBVIOUS
  <2>2. \A n \in Len(<< >>)..Len(q) : SubSeq(q, 1, n) \in DOMAIN D
    BY DEF Layer, Closed
  <2>3. q \in Seq(AllSteps) /\ f \in [DOMAIN D -> Ids(ns)]
        /\ \A a, b \in DOMAIN D : f[a] = f[b] => a = b
    BY DEF Layer, Closed
  <2> QED BY <2>1, <2>2, <2>3
<1>2. Len(q) \in Nat /\ Len(ns) \in Nat
  BY <1>1, LenProperties, HeapTypes
<1>3. ~(Len(ns) <= Len(q))
  <2> SUFFICES ASSUME Len(ns) <= Len(q) PROVE FALSE
    OBVIOUS
  <2> DEFINE w == [n \in 0..Len(q) |-> f[SubSeq(q, 1, n)]]
  <2>1. w \in [0..Len(q) -> 1..Len(ns)]
    BY <1>1 DEF Ids
  <2>2. \A n \in 0..Len(q) : w[n] = f[SubSeq(q, 1, n)]
    OBVIOUS
  <2> HIDE DEF w
  <2>3. PICK i, j \in 0..Len(q) : i < j /\ w[i] = w[j]
    BY <1>2, <2>1, NoRoom
  <2>4. SubSeq(q, 1, i) = SubSeq(q, 1, j)
    BY <1>1, <2>2, <2>3
  <2>5. Len(SubSeq(q, 1, i)) = i /\ Len(SubSeq(q, 1, j)) = j
    <3>1. ASSUME NEW n \in 0..Len(q) PROVE Len(SubSeq(q, 1, n)) = n
      <4>1. \A l \in 1..n : q[l] \in AllSteps
        BY <1>1, <1>2, LenProperties
      <4>2. Len(SubSeq(q, 1, n)) = IF 1 <= n THEN n - 1 + 1 ELSE 0
        BY <1>2, <4>1, SubSeqProperties
      <4> QED BY <4>2
    <3> QED BY <3>1
  <2> QED BY <2>3, <2>4, <2>5
<1> QED BY <1>2, <1>3

\* Level by level, what is listed is described.
LEMMA ListedIsDescribed ==
  ASSUME NEW ns, Heap(ns), NEW D, NEW f, Layer(ns, D, << >>, Root, f), NEW L, Levels(ns, L),
         NEW d \in 0..Len(ns), NEW e \in L[d]
  PROVE  e.path \in DOMAIN D /\ f[e.path] = e.node
<1> DEFINE Good == {n \in 0..Len(ns) : \A x \in L[n] : x.path \in DOMAIN D /\ f[x.path] = x.node}
<1>1. << >> \in DOMAIN D /\ f[<< >>] = Root /\ \A p \in DOMAIN D : f[p] \in Ids(ns)
  BY LayerIds
<1>2. Len(ns) \in Nat
  BY HeapTypes
<1>3. 0 \in Good
  <2>1. \A x \in L[0] : x.path = << >> /\ x.node = Root
    BY DEF Levels
  <2> QED BY <2>1, <1>1, <1>2
<1>4. ASSUME NEW n \in 0..Len(ns) - 1, n \in Good PROVE n + 1 \in Good
  <2>1. n + 1 \in 1..Len(ns) /\ n + 1 \in 0..Len(ns) /\ (n + 1) - 1 = n
    BY <1>2
  <2>2. ASSUME NEW x \in L[n + 1] PROVE x.path \in DOMAIN D /\ f[x.path] = x.node
    <3> DEFINE c == n + 1
    <3>0. c \in 1..Len(ns) /\ x \in L[c]
      BY <2>1
    <3> HIDE DEF c
    <3>1. \E a \in L[c - 1], s \in AllSteps, y \in Ids(ns) :
            x = [path |-> Append(a.path, s), node |-> y] /\ Edge(ns, a.node, s, y)
      BY <3>0, LevelSteps
    <3>2. PICK a \in L[n], s \in AllSteps, y \in Ids(ns) :
            x = [path |-> Append(a.path, s), node |-> y] /\ Edge(ns, a.node, s, y)
      BY <2>1, <3>1 DEF c
    <3>3. a.path \in DOMAIN D /\ f[a.path] = a.node
      BY <1>4, <3>2
    <3>4. Append(a.path, s) \in DOMAIN D /\ f[Append(a.path, s)] = y
      BY <3>2, <3>3 DEF Layer
    <3> QED BY <3>2, <3>4
  <2> QED BY <2>1, <2>2
<1> HIDE DEF Good
<1>5. 0..Len(ns) \subseteq Good
  BY <1>2, <1>3, <1>4, Induction
<1> QED BY <1>5 DEF Good

\* Path by path, what is described is listed.
LEMMA DescribedIsListed ==
  ASSUME NEW ns, Heap(ns), NEW D, NEW f, Layer(ns, D, << >>, Root, f), NEW L, Levels(ns, L),
         NEW q \in DOMAIN D
  PROVE  Len(q) \in 0..Len(ns) /\ \E e \in L[Len(q)] : e.path = q
<1> DEFINE Good == {n \in 0..Len(ns) :
                      \A p \in DOMAIN D : Len(p) = n => [path |-> p, node |-> f[p]] \in L[n]}
<1>1. /\ << >> \in DOMAIN D /\ f[<< >>] = Root
      /\ \A p \in DOMAIN D : f[p] \in Ids(ns) /\ p \in Seq(AllSteps)
  BY LayerIds
<1>2. Len(ns) \in Nat
  BY HeapTypes
<1>3. 0 \in Good
  <2>1. \A p \in DOMAIN D : Len(p) = 0 => p = << >>
    BY <1>1, EmptySeq
  <2> QED BY <2>1, <1>1, <1>2 DEF Levels
<1>4. ASSUME NEW n \in 0..Len(ns) - 1, n \in Good PROVE n + 1 \in Good
  <2>1. n + 1 \in 1..Len(ns) /\ n + 1 \in 0..Len(ns) /\ (n + 1) - 1 = n
    BY <1>2
  <2>2. ASSUME NEW p \in DOMAIN D, Len(p) = n + 1
        PROVE  [path |-> p, node |-> f[p]] \in L[n + 1]
    <3>1. p # << >>
      BY <2>1, <2>2, EmptySeq
    <3>2. PICK b \in DOMAIN D, s \in AllSteps : p = Append(b, s) /\ Edge(ns, f[b], s, f[p])
      BY <3>1 DEF Layer
    <3>3. Len(b) = n
      BY <1>1, <2>2, <3>2, AppendPath
    <3>4. [path |-> b, node |-> f[b]] \in L[n]
      BY <1>4, <3>3
    <3>5. \A a \in L[(n + 1) - 1], t \in AllSteps, y \in Ids(ns) :
               Edge(ns, a.node, t, y) => [path |-> Append(a.path, t), node |-> y] \in L[n + 1]
      BY <2>1, LevelSteps
    <3>6. [path |-> b, node |-> f[b]] \in L[(n + 1) - 1]
      BY <2>1, <3>4
    <3>7. [path |-> Append(b, s), node |-> f[p]] \in L[n + 1]
      BY <1>1, <3>2, <3>5, <3>6
    <3> QED BY <3>2, <3>7
  <2> QED BY <2>1, <2>2
<1> HIDE DEF Good
<1>5. 0..Len(ns) \subseteq Good
  BY <1>2, <1>3, <1>4, Induction
<1>6. Len(q) \in 0..Len(ns)
  BY PathsAreShort
<1>7. [path |-> q, node |-> f[q]] \in L[Len(q)]
  BY <1>5, <1>6 DEF Good
<1> QED BY <1>6, <1>7

\* A layer of the whole document makes the tree the document.
LEMMA DescribedTree ==
  ASSUME Shape, NEW f, Layer(nodes, toml.known[1].defined, << >>, Root, f)
  PROVE  TreeIsTheDocument
<1> DEFINE D == toml.known[1].defined
<1>1. Heap(nodes) /\ Root \in Ids(nodes) /\ Len(nodes) \in Nat
  BY HeapTypes DEF Shape, TableOf
<1>2. PICK L : Levels(nodes, L)
  BY <1>1, ListingLevels
<1> HIDE DEF D
<1>3. \A e \in FlatIter(nodes) : e.path \in DOMAIN D /\ f[e.path] = e.node
  <2>1. ASSUME NEW e \in FlatIter(nodes) PROVE e.path \in DOMAIN D /\ f[e.path] = e.node
    <3>1. PICK d \in 1..Len(nodes) : e \in L[d]
      BY <1>2 DEF Levels
    <3>2. d \in 0..Len(nodes)
      BY <1>1
    <3> QED BY <1>1, <1>2, <3>1, <3>2, ListedIsDescribed DEF D
  <2> QED BY <2>1
<1>4. \A q \in DOMAIN D : q = << >> \/ \E e \in FlatIter(nodes) : e.path = q
  <2>1. ASSUME NEW q \in DOMAIN D, q # << >> PROVE \E e \in FlatIter(nodes) : e.path = q
    <3>1. Len(q) \in 0..Len(nodes) /\ \E e \in L[Len(q)] : e.path = q
      BY <1>1, <1>2, DescribedIsListed DEF D
    <3>2. q \in Seq(AllSteps)
      BY LayerIds DEF D
    <3>3. Len(q) \in 1..Len(nodes)
      BY <2>1, <3>1, <3>2, EmptySeq
    <3> QED BY <1>2, <3>1, <3>3 DEF Levels
  <2> QED BY <2>1
<1>5. << >> \in DOMAIN D /\ \A p \in DOMAIN D : Suits(nodes[f[p]], D[p])
  BY LayerIds DEF D
<1>6. DOMAIN D = {<< >>} \cup {e.path : e \in FlatIter(nodes)}
  BY <1>3, <1>4, <1>5
<1>7. \A e \in FlatIter(nodes) : Suits(nodes[e.node], D[e.path])
  BY <1>3, <1>5
<1>8. ASSUME NEW e \in FlatIter(nodes)
      PROVE  nodes[e.node].kind =
               CASE D[e.path].how \in {"super", "dotted", "reopened"} -> "pseudo"
                 [] D[e.path].how = "table" -> "regular"
                 [] D[e.path].how = "array" -> "tables"
                 [] OTHER -> D[e.path].how
  BY <1>7 DEF Suits, Hows
<1> QED BY <1>6, <1>8 DEF TreeIsTheDocument, D

-----------------------------------------------------------------------------
(* Layers *)

\* A layer stays one when its nodes stay what they are.
LEMMA LayerFrame ==
  ASSUME NEW ns, Heap(ns), NEW D, NEW R, NEW r, NEW f, Layer(ns, D, R, r, f),
         NEW m, Heap(m), Len(ns) <= Len(m),
         \A p \in DOMAIN D : m[f[p]] = ns[f[p]]
  PROVE  Layer(m, D, R, r, f)
<1>1. Ids(ns) \subseteq Ids(m)
  BY HeapTypes DEF Ids
<1>2. f \in [DOMAIN D -> Ids(ns)]
  BY DEF Layer
<1>3. f \in [DOMAIN D -> Ids(m)]
  BY <1>1, <1>2
<1>4. \A p \in DOMAIN D : \A s, y : Edge(m, f[p], s, y) <=> Edge(ns, f[p], s, y)
  BY DEF Edge
<1>5. \A p \in DOMAIN D : \A s \in AllSteps, y \in Ids(m) :
        Edge(m, f[p], s, y) => Append(p, s) \in DOMAIN D /\ f[Append(p, s)] = y
  <2>1. ASSUME NEW p \in DOMAIN D, NEW s \in AllSteps, NEW y \in Ids(m), Edge(m, f[p], s, y)
        PROVE  Append(p, s) \in DOMAIN D /\ f[Append(p, s)] = y
    <3>1. Edge(ns, f[p], s, y) /\ f[p] \in Ids(ns)
      BY <1>2, <1>4, <2>1
    <3>2. y \in Ids(ns)
      BY <3>1, Edges
    <3> QED BY <3>1, <3>2 DEF Layer
  <2> QED BY <2>1
<1>6. \A q \in DOMAIN D \ {R} :
        \E p \in DOMAIN D, s \in AllSteps : q = Append(p, s) /\ Edge(m, f[p], s, f[q])
  BY <1>4 DEF Layer
<1>7. \A p \in DOMAIN D : Suits(m[f[p]], D[p])
  BY DEF Layer
<1>8. /\ Closed(DOMAIN D, R) /\ f[R] = r
      /\ \A p, q \in DOMAIN D : f[p] = f[q] => p = q
  BY DEF Layer
<1> QED BY <1>3, <1>5, <1>6, <1>7, <1>8 DEF Layer

\* A node of its own.
LEMMA LayerNew ==
  ASSUME NEW m, NEW c \in Ids(m), \A s, y : ~Edge(m, c, s, y),
         NEW R \in Seq(AllSteps), NEW d, Suits(m[c], d)
  PROVE  Layer(m, [q \in {R} |-> d], R, c, [q \in {R} |-> c])
<1> DEFINE D == [q \in {R} |-> d]
           f == [q \in {R} |-> c]
<1>1. DOMAIN D = {R} /\ D[R] = d /\ f \in [{R} -> Ids(m)] /\ f[R] = c
  OBVIOUS
<1>2. Closed({R}, R)
  <2>1. Len(R) \in Nat /\ SubSeq(R, 1, Len(R)) = R
    BY LenProperties, SubSeqFull
  <2>2. \A n \in Len(R)..Len(R) : n = Len(R)
    <3> DEFINE l == Len(R)
    <3>1. l \in Nat
      BY <2>1
    <3> HIDE DEF l
    <3>2. \A n \in l..l : n = l
      BY <3>1
    <3> QED BY <3>2 DEF l
  <2> QED BY <2>1, <2>2 DEF Closed
<1> HIDE DEF D, f
<1>3. Layer(m, D, R, c, f)
  BY <1>1, <1>2 DEF Layer
<1> QED BY <1>3 DEF D, f

\* Other definitions of the same paths.
LEMMA LayerRedefined ==
  ASSUME NEW ns, NEW D, NEW R, NEW r, NEW f, Layer(ns, D, R, r, f),
         NEW p \in DOMAIN D, NEW d, Suits(ns[f[p]], d)
  PROVE  Layer(ns, Define(D, p, d), R, r, f)
<1> DEFINE E == Define(D, p, d)
<1>1. DOMAIN E = DOMAIN D /\ \A q \in DOMAIN D : E[q] = D[q] \/ (q = p /\ E[q] = d)
  <2>1. DOMAIN E = DOMAIN D \cup {p} /\ E[p] = d /\ \A q \in DOMAIN D : q # p => E[q] = D[q]
    BY DEF Define
  <2> HIDE DEF E
  <2> QED BY <2>1
<1> HIDE DEF E
<1>2. \A q \in DOMAIN D : Suits(ns[f[q]], E[q])
  BY <1>1 DEF Layer
<1>3. Layer(ns, E, R, r, f)
  BY <1>1, <1>2 DEF Layer
<1> QED BY <1>3 DEF E

\* The paths of a layer are what its edges say.
LEMMA LayerEdges ==
  ASSUME NEW ns, Heap(ns), NEW D, NEW R, NEW r, NEW f, Layer(ns, D, R, r, f),
         NEW p \in DOMAIN D, NEW s \in AllSteps
  PROVE  /\ Append(p, s) # R
         /\ Append(p, s) \in DOMAIN D => Edge(ns, f[p], s, f[Append(p, s)])
         /\ \A y : Edge(ns, f[p], s, y) => Append(p, s) \in DOMAIN D /\ f[Append(p, s)] = y
<1>1. /\ p \in Seq(AllSteps) /\ R \in Seq(AllSteps) /\ f[p] \in Ids(ns)
      /\ \A q \in DOMAIN D : q \in Seq(AllSteps)
  BY LayerIds
<1>2. Len(R) <= Len(p) /\ Len(R) \in Nat /\ Len(p) \in Nat
  BY <1>1, LenProperties DEF Layer, Closed
<1>3. Append(p, s) # R
  <2>1. Len(Append(p, s)) = Len(p) + 1
    BY <1>1, AppendPath
  <2> QED BY <1>2, <2>1
<1>4. ASSUME Append(p, s) \in DOMAIN D
      PROVE  Edge(ns, f[p], s, f[Append(p, s)])
  <2> DEFINE q == Append(p, s)
  <2>1. q \in DOMAIN D \ {R}
    BY <1>3, <1>4
  <2>2. PICK b \in DOMAIN D, z \in AllSteps : q = Append(b, z) /\ Edge(ns, f[b], z, f[q])
    BY <2>1 DEF Layer
  <2>3. b = p /\ z = s
    BY <1>1, <2>2, AppendOnce
  <2> QED BY <2>2, <2>3
<1>5. ASSUME NEW y, Edge(ns, f[p], s, y)
      PROVE  Append(p, s) \in DOMAIN D /\ f[Append(p, s)] = y
  <2>1. y \in Ids(ns)
    BY <1>1, <1>5, Edges
  <2> QED BY <1>5, <2>1 DEF Layer
<1> QED BY <1>3, <1>4, <1>5

\* Two layers of disjoint paths.
LEMMA PathsApart ==
  ASSUME NEW P, NEW R, Closed(P, R), NEW Q, NEW p \in P, NEW s \in AllSteps,
         Closed(Q, Append(p, s)), Append(p, s) \notin P
  PROVE  P \cap Q = {}
<1> DEFINE T == Append(p, s)
<1>1. p \in Seq(AllSteps) /\ Len(R) <= Len(p) /\ R \in P
  BY DEF Closed
<1>2. Len(T) = Len(p) + 1 /\ Len(p) \in Nat
  BY <1>1, AppendPath
<1>3. R \in Seq(AllSteps)
  BY <1>1 DEF Closed
<1>4. Len(R) \in Nat
  BY <1>3, LenProperties
<1> HIDE DEF T
<1>5. ASSUME NEW q \in P, q \in Q PROVE FALSE
  <2>1. Len(T) <= Len(q) /\ SubSeq(q, 1, Len(T)) = T /\ q \in Seq(AllSteps)
    BY <1>5 DEF Closed, T
  <2>2. Len(q) \in Nat
    BY <2>1, LenProperties
  <2>3. Len(T) \in Len(R)..Len(q)
    BY <1>1, <1>2, <1>4, <2>1, <2>2
  <2>4. SubSeq(q, 1, Len(T)) \in P
    BY <2>3 DEF Closed
  <2> QED BY <2>1, <2>4 DEF T
<1> QED BY <1>5

\* Paths below one of the others may join them.
LEMMA ClosedJoin ==
  ASSUME NEW P, NEW R, Closed(P, R), NEW Q, NEW p \in P, NEW s \in AllSteps,
         Closed(Q, Append(p, s))
  PROVE  Closed(P \cup Q, R)
<1> DEFINE T == Append(p, s)
<1>1. p \in Seq(AllSteps) /\ Len(R) <= Len(p) /\ R \in P
      /\ SubSeq(p, 1, Len(R)) = R
      /\ \A n \in Len(R)..Len(p) : SubSeq(p, 1, n) \in P
  BY DEF Closed
<1>2. /\ Len(T) = Len(p) + 1 /\ Len(p) \in Nat
      /\ \A n \in 0..Len(p) : SubSeq(T, 1, n) = SubSeq(p, 1, n)
  BY <1>1, AppendPath
<1>3. R \in Seq(AllSteps)
  BY <1>1 DEF Closed
<1>4. Len(R) \in Nat
  BY <1>3, LenProperties
<1> HIDE DEF T
<1>5. ASSUME NEW q \in Q
      PROVE  /\ q \in Seq(AllSteps) /\ Len(R) <= Len(q) /\ SubSeq(q, 1, Len(R)) = R
             /\ \A n \in Len(R)..Len(q) : SubSeq(q, 1, n) \in P \cup Q
  <2>1. /\ Len(T) <= Len(q) /\ SubSeq(q, 1, Len(T)) = T /\ q \in Seq(AllSteps)
        /\ \A n \in Len(T)..Len(q) : SubSeq(q, 1, n) \in Q
    BY DEF Closed, T
  <2>2. Len(q) \in Nat
    BY <2>1, LenProperties
  <2>3. \A n \in 0..Len(p) : SubSeq(q, 1, n) = SubSeq(p, 1, n)
    <3>1. ASSUME NEW n \in 0..Len(p) PROVE SubSeq(q, 1, n) = SubSeq(T, 1, n)
      <4>1. \A i \in 1..n : T[i] = q[i]
        <5>1. ASSUME NEW i \in 1..n PROVE T[i] = q[i]
          <6>1. i \in 1..Len(T) /\ i \in 1..Len(T) - 1 + 1 /\ 1 + i - 1 = i
            BY <1>2
          <6>2. \A j \in 1..Len(T) : q[j] \in AllSteps
            BY <2>1, <2>2, <1>2, LenProperties
          <6>3. SubSeq(q, 1, Len(T))[i] = q[1 + i - 1]
            <7>1. 1 \in Int /\ Len(T) \in Int
              BY <1>2
            <7> QED BY <6>1, <6>2, <7>1, SubSeqProperties
          <6> QED BY <2>1, <6>1, <6>3
        <5> QED BY <5>1
      <4>2. SubSeq(q, 1, n) = [i \in 1..n |-> q[i]] /\ SubSeq(T, 1, n) = [i \in 1..n |-> T[i]]
        BY <1>2, <3>1 DEF SubSeq
      <4> QED BY <4>1, <4>2
    <3> QED BY <3>1, <1>2
  <2>4. SubSeq(q, 1, Len(R)) = R
    <3>1. Len(R) \in 0..Len(p)
      BY <1>1, <1>2, <1>4
    <3> QED BY <3>1, <2>3, <1>1
  <2>5. ASSUME NEW n \in Len(R)..Len(q) PROVE SubSeq(q, 1, n) \in P \cup Q
    <3>1. CASE n <= Len(p)
      <4>1. n \in 0..Len(p) /\ n \in Len(R)..Len(p)
        BY <1>2, <1>4, <3>1
      <4> QED BY <4>1, <2>3, <1>1
    <3>2. CASE ~(n <= Len(p))
      <4>1. n \in Len(T)..Len(q)
        BY <1>2, <1>4, <2>2, <3>2
      <4> QED BY <4>1, <2>1
    <3> QED BY <3>1, <3>2
  <2>6. Len(R) <= Len(q)
    BY <1>1, <1>2, <1>4, <2>1, <2>2
  <2> QED BY <2>1, <2>4, <2>5, <2>6
<1>6. ASSUME NEW q \in P
      PROVE  /\ q \in Seq(AllSteps) /\ Len(R) <= Len(q) /\ SubSeq(q, 1, Len(R)) = R
             /\ \A n \in Len(R)..Len(q) : SubSeq(q, 1, n) \in P \cup Q
  BY DEF Closed
<1> QED BY <1>1, <1>5, <1>6 DEF Closed

\* A layer is put below another, where the definitions have room for it.
LEMMA Attach ==
  ASSUME NEW ns, Heap(ns), NEW m, Heap(m),
         NEW D, NEW R, NEW r, NEW f, Layer(ns, D, R, r, f),
         NEW E, NEW c, NEW g, NEW p \in DOMAIN D, NEW s \in AllSteps, Layer(ns, E, Append(p, s), c, g),
         Append(p, s) \notin DOMAIN D,
         \A a \in DOMAIN D, b \in DOMAIN E : f[a] # g[b],
         Links(ns, m, f[p], s, c), NEW d, Suits(m[f[p]], d)
  PROVE  Layer(m, Join(Define(D, p, d), E), R, r, Join(f, g))
<1> DEFINE T == Append(p, s)
           P == DOMAIN D
           Q == DOMAIN E
           C == Define(D, p, d)
           J == Join(C, E)
           h == Join(f, g)
<1>1. /\ Closed(P, R) /\ f \in [P -> Ids(ns)] /\ f[R] = r
      /\ \A a, b \in P : f[a] = f[b] => a = b
      /\ \A q \in P \ {R} : \E a \in P, z \in AllSteps : q = Append(a, z) /\ Edge(ns, f[a], z, f[q])
      /\ \A a \in P : Suits(ns[f[a]], D[a])
      /\ \A a \in P, z \in AllSteps, y \in Ids(ns) :
            Edge(ns, f[a], z, y) => Append(a, z) \in P /\ f[Append(a, z)] = y
  BY DEF Layer
<1>2. /\ Closed(Q, T) /\ g \in [Q -> Ids(ns)] /\ g[T] = c
      /\ \A a, b \in Q : g[a] = g[b] => a = b
      /\ \A q \in Q \ {T} : \E a \in Q, z \in AllSteps : q = Append(a, z) /\ Edge(ns, g[a], z, g[q])
      /\ \A a \in Q : Suits(ns[g[a]], E[a])
      /\ \A a \in Q, z \in AllSteps, y \in Ids(ns) :
            Edge(ns, g[a], z, y) => Append(a, z) \in Q /\ g[Append(a, z)] = y
  BY DEF Layer
<1>3. P \cap Q = {} /\ Closed(P \cup Q, R)
  BY <1>1, <1>2, PathsApart, ClosedJoin
<1>4. R \in P /\ T \in Q
  BY <1>1, <1>2 DEF Closed
<1>5. DOMAIN C = P /\ C[p] = d /\ \A a \in P : a # p => C[a] = D[a]
  <2>1. DOMAIN C = P \cup {p} /\ C[p] = d /\ \A a \in P : a # p => C[a] = D[a]
    BY DEF Define
  <2> HIDE DEF C
  <2> QED BY <2>1
<1> HIDE DEF C
<1>6. /\ DOMAIN J = P \cup Q /\ \A q \in Q : J[q] = E[q]
      /\ \A q \in P : J[q] = C[q]
  <2>1. /\ DOMAIN J = DOMAIN C \cup Q /\ \A q \in Q : J[q] = E[q]
        /\ \A q \in DOMAIN C : q \notin Q => J[q] = C[q]
    BY DEF Join
  <2> HIDE DEF J, P, Q
  <2> QED BY <2>1, <1>3, <1>5
<1> HIDE DEF J
<1>7. /\ DOMAIN h = P \cup Q /\ \A q \in Q : h[q] = g[q]
      /\ \A q \in P : h[q] = f[q]
      /\ h = [q \in P \cup Q |-> h[q]]
  <2>1. DOMAIN f = P /\ DOMAIN g = Q
    BY <1>1, <1>2
  <2>2. h = [q \in DOMAIN f \cup DOMAIN g |-> IF q \in DOMAIN g THEN g[q] ELSE f[q]]
    BY DEF Join
  <2> HIDE DEF h, P, Q
  <2> QED BY <2>1, <2>2, <1>3
<1> HIDE DEF h
<1>8. Ids(m) = Ids(ns) /\ \A z \in Ids(ns) : z # f[p] => m[z] = ns[z]
  BY DEF Links, But, Ids
<1>9. h \in [P \cup Q -> Ids(m)]
  <2>1. \A q \in P \cup Q : h[q] \in Ids(m)
    BY <1>1, <1>2, <1>7, <1>8
  <2> HIDE DEF P, Q
  <2> QED BY <2>1, <1>7
<1>10. h[R] = r /\ h[T] = c /\ h[p] = f[p]
  BY <1>1, <1>2, <1>4, <1>7
<1>11. \A a \in P, b \in Q : f[a] # g[b]
  OBVIOUS
<1> HIDE DEF P, Q
<1>12. \A a, b \in P \cup Q : h[a] = h[b] => a = b
  BY <1>1, <1>2, <1>7, <1>11
<1>13. p \in P /\ f[p] \in Ids(ns)
  BY <1>1 DEF P
<1>14. \A b \in Q : g[b] \in Ids(ns) /\ g[b] # f[p] /\ m[g[b]] = ns[g[b]]
  BY <1>2, <1>8, <1>11, <1>13
<1>15. /\ \A b \in Q : \A z, y : Edge(m, g[b], z, y) <=> Edge(ns, g[b], z, y)
       /\ \A a \in P : a # p => \A z, y : Edge(m, f[a], z, y) <=> Edge(ns, f[a], z, y)
       /\ \A z, y : Edge(m, f[p], z, y) <=> Edge(ns, f[p], z, y) \/ (z = s /\ y = c)
  <2>1. \A a \in P : a # p => m[f[a]] = ns[f[a]]
    BY <1>1, <1>8, <1>13
  <2>2. \A b \in Q : \A z, y : Edge(m, g[b], z, y) <=> Edge(ns, g[b], z, y)
    BY <1>14 DEF Edge
  <2>3. \A a \in P : a # p => \A z, y : Edge(m, f[a], z, y) <=> Edge(ns, f[a], z, y)
    BY <2>1 DEF Edge
  <2>4. \A z, y : Edge(m, f[p], z, y) <=> Edge(ns, f[p], z, y) \/ (z = s /\ y = c)
    BY DEF Links
  <2> QED BY <2>2, <2>3, <2>4
<1>16. ASSUME NEW q \in (P \cup Q) \ {R}
       PROVE  \E a \in P \cup Q, z \in AllSteps : q = Append(a, z) /\ Edge(m, h[a], z, h[q])
  <2>1. CASE q \in P
    <3>1. PICK a \in P, z \in AllSteps : q = Append(a, z) /\ Edge(ns, f[a], z, f[q])
      BY <1>1, <2>1
    <3>2. Edge(m, f[a], z, f[q])
      BY <3>1, <1>15
    <3>3. h[a] = f[a] /\ h[q] = f[q]
      BY <1>7, <2>1
    <3> QED BY <3>1, <3>2, <3>3
  <2>2. CASE q = T
    <3>1. Edge(m, f[p], s, c)
      BY <1>15
    <3> QED BY <3>1, <2>2, <1>10, <1>13
  <2>3. CASE q \in Q /\ q # T
    <3>1. PICK a \in Q, z \in AllSteps : q = Append(a, z) /\ Edge(ns, g[a], z, g[q])
      BY <1>2, <2>3
    <3>2. Edge(m, g[a], z, g[q])
      BY <3>1, <1>15
    <3>3. h[a] = g[a] /\ h[q] = g[q]
      BY <1>7, <2>3
    <3> QED BY <3>1, <3>2, <3>3
  <2> QED BY <2>1, <2>2, <2>3
<1>17. ASSUME NEW a \in P \cup Q, NEW z \in AllSteps, NEW y \in Ids(m), Edge(m, h[a], z, y)
       PROVE  Append(a, z) \in P \cup Q /\ h[Append(a, z)] = y
  <2>1. CASE a \in Q
    <3>1. Edge(ns, g[a], z, y)
      BY <2>1, <1>7, <1>15, <1>17
    <3>2. Append(a, z) \in Q /\ g[Append(a, z)] = y
      BY <1>2, <1>8, <2>1, <3>1
    <3> QED BY <3>2, <1>7
  <2>2. CASE a \in P /\ Edge(ns, f[a], z, y)
    <3>1. Append(a, z) \in P /\ f[Append(a, z)] = y
      BY <1>1, <1>8, <2>2
    <3> QED BY <3>1, <1>7
  <2>3. CASE a \in P /\ ~Edge(ns, f[a], z, y)
    <3>1. Edge(m, f[a], z, y)
      BY <1>7, <1>17, <2>3
    <3>2. a = p
      BY <1>15, <2>3, <3>1
    <3>3. z = s /\ y = c
      BY <1>15, <2>3, <3>1, <3>2
    <3> QED BY <3>2, <3>3, <1>4, <1>10
  <2> QED BY <2>1, <2>2, <2>3
<1>18. ASSUME NEW a \in P \cup Q PROVE Suits(m[h[a]], J[a])
  <2>1. CASE a \in Q
    BY <2>1, <1>2, <1>6, <1>7, <1>14
  <2>2. CASE a = p
    BY <2>2, <1>5, <1>6, <1>10, <1>13
  <2>3. CASE a \in P /\ a # p
    <3>1. m[f[a]] = ns[f[a]]
      BY <2>3, <1>1, <1>8, <1>13
    <3> QED BY <2>3, <3>1, <1>1, <1>5, <1>6, <1>7
  <2> QED BY <2>1, <2>2, <2>3
<1>19. Layer(m, J, R, r, h)
  BY <1>3, <1>6, <1>9, <1>10, <1>12, <1>16, <1>17, <1>18 DEF Layer
<1> QED BY <1>19 DEF J, C, h

\* The layers of the document and of the values that are being read.
LEMMA LayersAre ==
  ASSUME NEW ns, NEW known, NEW stack, NEW fs, Layers(ns, known, stack, fs),
         NEW i \in 1..Len(stack)
  PROVE  /\ Layer(ns, known[i].defined, known[i].path, stack[i].id, fs[i])
         /\ \A q \in DOMAIN known[i].defined : fs[i][q] \in Ids(ns) /\ q \in Seq(AllSteps)
         /\ \A j \in 1..Len(stack) : i # j =>
              \A q \in DOMAIN known[i].defined, a \in DOMAIN known[j].defined : fs[i][q] # fs[j][a]
<1>1. Layer(ns, known[i].defined, known[i].path, stack[i].id, fs[i])
  BY DEF Layers
<1>2. \A q \in DOMAIN known[i].defined : fs[i][q] \in Ids(ns) /\ q \in Seq(AllSteps)
  BY <1>1, LayerIds
<1> QED BY <1>1, <1>2 DEF Layers

\* Layers do not see but the definitions, the paths and the nodes of the open values.
LEMMA SameLayers ==
  ASSUME NEW ns, NEW known, NEW stack, NEW fs, Layers(ns, known, stack, fs),
         NEW more, Len(more) = Len(known), NEW t, Len(t) = Len(stack),
         \A i \in 1..Len(stack) : /\ more[i].path = known[i].path
                                  /\ more[i].defined = known[i].defined
                                  /\ t[i].id = stack[i].id
  PROVE  Layers(ns, more, t, fs)
BY DEF Layers

\* A layer of one path more.
LEMMA DefineOne ==
  ASSUME NEW D, NEW T, NEW e, NEW E, E = [q \in {T} |-> e], T \notin DOMAIN D
  PROVE  Join(D, E) = Define(D, T, e)
<1>1. DOMAIN E = {T} /\ E[T] = e
  OBVIOUS
<1>2. \A q \in DOMAIN D \cup {T} : (IF q \in {T} THEN E[q] ELSE D[q]) = (IF q = T THEN e ELSE D[q])
  BY <1>1
<1>3. Join(D, E) = [q \in DOMAIN D \cup {T} |-> IF q \in {T} THEN E[q] ELSE D[q]]
  BY <1>1 DEF Join
<1>4. Define(D, T, e) = [q \in DOMAIN D \cup {T} |-> IF q = T THEN e ELSE D[q]]
  BY DEF Define
<1> QED BY <1>2, <1>3, <1>4

\* One set of definitions is another, and nothing else of them.
Redefines(more, known, j, defined) ==
  /\ Len(more) = Len(known) /\ IsKnown(more)
  /\ \A i \in 1..Len(known) :
        /\ more[i].path = known[i].path
        /\ more[i].defined = IF i = j THEN defined ELSE known[i].defined

\* The paths of the layers lead to the nodes that they led to before.
Extends(stack, more, gs, known, fs) ==
  \A i \in 1..Len(stack) : \A q \in DOMAIN known[i].defined :
     q \in DOMAIN more[i].defined /\ gs[i][q] = fs[i][q]

\* A node that was just made.
IsFresh(node) == \E kind \in Kinds, header \in BOOLEAN : node = Node(kind, header)

\* A heap with one node more.
Appends(ns, node, m) == m = Append(ns, node)

\* A new node is in no layer.
LEMMA FreshNode ==
  ASSUME NEW ns, Heap(ns), NEW node, IsFresh(node), NEW m, Appends(ns, node, m),
         NEW c, c = Len(ns) + 1
  PROVE  /\ Heap(m) /\ Len(ns) <= Len(m) /\ Len(m) = c /\ c \in Ids(m) /\ c \notin Ids(ns)
         /\ Ids(ns) \subseteq Ids(m) /\ m[c] = node
         /\ \A x \in Ids(ns) : m[x] = ns[x]
         /\ node.all = << >> /\ node.items = << >> /\ node.errors = {}
<1>1. PICK kind \in Kinds, header \in BOOLEAN : node = Node(kind, header)
  BY DEF IsFresh
<1>2. /\ Heap(m) /\ Len(m) = c /\ \A x \in Ids(ns) : m[x] = ns[x]
      /\ m[c] = node
  BY <1>1, NewNode DEF Appends
<1>3. Len(ns) \in Nat
  BY HeapTypes
<1>4. node.all = << >> /\ node.items = << >> /\ node.errors = {}
  BY <1>1, NewRecord
<1>5. Len(ns) <= Len(m) /\ c \in Ids(m) /\ c \notin Ids(ns) /\ Ids(ns) \subseteq Ids(m)
  BY <1>2, <1>3 DEF Ids
<1> QED BY <1>2, <1>4, <1>5

\* What Node makes is new.
LEMMA FreshIs ==
  ASSUME NEW kind \in Kinds, NEW header \in BOOLEAN
  PROVE  IsFresh(Node(kind, header))
BY DEF IsFresh

\* A path of a layer and its node.
Finds(more, gs, j, path, x) == path \in DOMAIN more[j].defined /\ gs[j][path] = x

\* A new node below a path.
LEMMA GrowLayers ==
  ASSUME NEW ns, Heap(ns), NEW known, NEW stack, NEW fs, Layers(ns, known, stack, fs),
         NEW j \in 1..Len(stack), NEW p \in DOMAIN known[j].defined, NEW s \in AllSteps,
         Append(p, s) \notin DOMAIN known[j].defined,
         NEW node, IsFresh(node),
         NEW new, Appends(ns, node, new), NEW c, c = Len(ns) + 1,
         NEW m, Heap(m), Links(new, m, fs[j][p], s, c),
         NEW d, Suits(m[fs[j][p]], d), NEW e, Suits(node, e),
         NEW more, Redefines(more, known, j, Define(Define(known[j].defined, p, d), Append(p, s), e))
  PROVE  \E gs :
           /\ Layers(m, more, stack, gs) /\ Extends(stack, more, gs, known, fs)
           /\ Finds(more, gs, j, Append(p, s), c)
<1>. Len(known) = Len(stack) /\ Len(more) = Len(known)
     /\ \A i \in 1..Len(stack) :
            /\ more[i].path = known[i].path
            /\ more[i].defined = IF i = j THEN Define(Define(known[j].defined, p, d), Append(p, s), e)
                                 ELSE known[i].defined
  BY DEF Layers, Redefines
<1> DEFINE T == Append(p, s)
           D == known[j].defined
           f == fs[j]
           E == [q \in {T} |-> e]
           g == [q \in {T} |-> c]
           h == Join(f, g)
           gs == [i \in 1..Len(stack) |-> IF i = j THEN h ELSE fs[i]]
<1>1. /\ Heap(new) /\ Len(ns) <= Len(new)
      /\ c \in Ids(new) /\ c \notin Ids(ns) /\ Ids(ns) \subseteq Ids(new)
      /\ new[c] = node
      /\ \A z, y : ~Edge(new, c, z, y)
      /\ \A x \in Ids(ns) : new[x] = ns[x]
  <2>1. /\ Heap(new) /\ Len(ns) <= Len(new) /\ c \in Ids(new) /\ c \notin Ids(ns)
        /\ Ids(ns) \subseteq Ids(new) /\ new[c] = node
        /\ \A x \in Ids(ns) : new[x] = ns[x]
        /\ node.all = << >> /\ node.items = << >>
    BY FreshNode
  <2>2. \A z, y : ~Edge(new, c, z, y)
    BY <2>1 DEF Edge
  <2> QED BY <2>1, <2>2
<1>2. ASSUME NEW i \in 1..Len(stack)
      PROVE  Layer(new, known[i].defined, known[i].path, stack[i].id, fs[i])
  <2>1. /\ Layer(ns, known[i].defined, known[i].path, stack[i].id, fs[i])
        /\ \A q \in DOMAIN known[i].defined : fs[i][q] \in Ids(ns)
    BY LayersAre
  <2>2. \A q \in DOMAIN known[i].defined : new[fs[i][q]] = ns[fs[i][q]]
    BY <1>1, <2>1
  <2> QED BY <1>1, <2>1, <2>2, LayerFrame
<1>3. p \in Seq(AllSteps) /\ f[p] \in Ids(ns)
  BY LayersAre
<1>4. T \in Seq(AllSteps)
  BY <1>3, AppendPath
<1> HIDE DEF T
<1>5. Layer(new, E, T, c, g)
  <2>1. Suits(new[c], e)
    BY <1>1
  <2>2. c \in Ids(new) /\ \A z, y : ~Edge(new, c, z, y)
    BY <1>1
  <2> QED BY ONLY <2>1, <2>2, <1>4, LayerNew
<1>6. DOMAIN E = {T} /\ DOMAIN g = {T} /\ g[T] = c
  OBVIOUS
<1>7. DOMAIN f = DOMAIN D /\ \A a \in DOMAIN D : f[a] \in Ids(ns) /\ f[a] # c
  <2>1. \A a \in DOMAIN D : f[a] \in Ids(ns)
    BY LayersAre
  <2>2. DOMAIN f = DOMAIN D
    BY <1>2 DEF Layer
  <2> QED BY <2>1, <2>2, <1>1
<1>8. E = [q \in {T} |-> e]
  OBVIOUS
<1> HIDE DEF E, g
<1>9. \A a \in DOMAIN D, b \in DOMAIN E : f[a] # g[b]
  BY <1>6, <1>7
<1>10. Links(new, m, f[p], s, c) /\ Suits(m[f[p]], d) /\ T \notin DOMAIN D /\ p \in DOMAIN D
  BY DEF T
<1>11. Layer(new, D, known[j].path, stack[j].id, f)
  BY <1>2
<1> HIDE DEF D, f
<1>12. Layer(m, Join(Define(D, p, d), E), known[j].path, stack[j].id, h)
  BY <1>1, <1>5, <1>9, <1>10, <1>11, Attach DEF T
<1>13. DOMAIN Define(D, p, d) = DOMAIN D
  BY <1>10 DEF Define
<1>14. Join(Define(D, p, d), E) = Define(Define(D, p, d), T, e)
  BY <1>8, <1>10, <1>13, DefineOne
<1>15. more[j].defined = Define(Define(D, p, d), T, e)
  BY DEF D, T
<1>16. DOMAIN more[j].defined = DOMAIN D \cup {T}
  BY <1>13, <1>15 DEF Define
<1>17. DOMAIN h = DOMAIN D \cup {T} /\ h[T] = c /\ \A a \in DOMAIN D : h[a] = f[a]
  <2>1. h = [q \in DOMAIN f \cup DOMAIN g |-> IF q \in DOMAIN g THEN g[q] ELSE f[q]]
    BY DEF Join
  <2> HIDE DEF h
  <2> QED BY <2>1, <1>6, <1>7, <1>10
<1> HIDE DEF h
<1>18. gs[j] = h /\ \A i \in 1..Len(stack) : i # j => gs[i] = fs[i]
  OBVIOUS
<1> HIDE DEF gs
<1>19. Layer(m, more[j].defined, more[j].path, stack[j].id, gs[j])
  BY <1>12, <1>14, <1>15, <1>18
<1>20. ASSUME NEW i \in 1..Len(stack), i # j
       PROVE  /\ Layer(m, more[i].defined, more[i].path, stack[i].id, gs[i])
              /\ more[i].defined = known[i].defined /\ gs[i] = fs[i]
  <2>1. more[i].defined = known[i].defined /\ more[i].path = known[i].path /\ gs[i] = fs[i]
    BY <1>18, <1>20
  <2>2. \A q \in DOMAIN known[i].defined : fs[i][q] \in Ids(ns) /\ fs[i][q] # f[p]
    BY <1>20, LayersAre DEF f, D
  <2>3. \A q \in DOMAIN known[i].defined : m[fs[i][q]] = new[fs[i][q]]
    BY <1>1, <1>10, <2>2 DEF Links, But
  <2>4. Len(new) <= Len(m)
    BY <1>1, <1>10, HeapTypes DEF Links, But
  <2>5. Layer(m, known[i].defined, known[i].path, stack[i].id, fs[i])
    BY <1>1, <1>2, <2>3, <2>4, LayerFrame
  <2> QED BY <2>1, <2>5
<1>21. ASSUME NEW i \in 1..Len(stack), NEW k \in 1..Len(stack), i # k,
              NEW q \in DOMAIN more[i].defined, NEW a \in DOMAIN more[k].defined
       PROVE  gs[i][q] # gs[k][a]
  <2>1. \A l \in 1..Len(stack) : l # j =>
          \A b \in DOMAIN known[l].defined : fs[l][b] \in Ids(ns) /\ fs[l][b] # c
    BY <1>1, LayersAre
  <2>2. \A l \in 1..Len(stack) : l # j =>
          \A b \in DOMAIN known[l].defined, z \in DOMAIN D : fs[l][b] # f[z]
    BY LayersAre DEF D, f
  <2>3. CASE i = j
    <3>1. more[k].defined = known[k].defined /\ gs[k] = fs[k] /\ k # j
      BY <1>20, <1>21, <2>3
    <3>2. gs[i] = h /\ (q = T \/ q \in DOMAIN D)
      BY <1>16, <1>18, <2>3
    <3>3. gs[i][q] = c \/ (q \in DOMAIN D /\ gs[i][q] = f[q])
      BY <3>2, <1>17
    <3>4. a \in DOMAIN known[k].defined
      BY <3>1
    <3> QED BY <3>1, <3>3, <3>4, <2>1, <2>2
  <2>4. CASE k = j
    <3>1. more[i].defined = known[i].defined /\ gs[i] = fs[i] /\ i # j
      BY <1>20, <1>21, <2>4
    <3>2. gs[k] = h /\ (a = T \/ a \in DOMAIN D)
      BY <1>16, <1>18, <2>4
    <3>3. gs[k][a] = c \/ (a \in DOMAIN D /\ gs[k][a] = f[a])
      BY <3>2, <1>17
    <3>4. q \in DOMAIN known[i].defined
      BY <3>1
    <3> QED BY <3>1, <3>3, <3>4, <2>1, <2>2
  <2>5. CASE i # j /\ k # j
    <3>1. more[i].defined = known[i].defined /\ gs[i] = fs[i]
          /\ more[k].defined = known[k].defined /\ gs[k] = fs[k]
      BY <1>20, <2>5
    <3>2. q \in DOMAIN known[i].defined /\ a \in DOMAIN known[k].defined
      BY <3>1
    <3> QED BY <1>21, <3>1, <3>2 DEF Layers
  <2> QED BY <2>3, <2>4, <2>5
<1>22. Layers(m, more, stack, gs)
  <2>1. Len(more) = Len(stack)
    BY DEF Layers
  <2>2. \A i \in 1..Len(stack) : Layer(m, more[i].defined, more[i].path, stack[i].id, gs[i])
    BY <1>19, <1>20
  <2> QED BY <2>1, <2>2, <1>21 DEF Layers
<1>23. \A i \in 1..Len(stack) : \A q \in DOMAIN known[i].defined :
                q \in DOMAIN more[i].defined /\ gs[i][q] = fs[i][q]
  <2>1. ASSUME NEW i \in 1..Len(stack), NEW q \in DOMAIN known[i].defined
        PROVE  q \in DOMAIN more[i].defined /\ gs[i][q] = fs[i][q]
    <3>1. CASE i = j
      BY <3>1, <1>16, <1>17, <1>18 DEF D, f
    <3>2. CASE i # j
      <4>1. more[i].defined = known[i].defined /\ gs[i] = fs[i]
        BY <3>2, <1>20
      <4> QED BY <4>1
    <3> QED BY <3>1, <3>2
  <2> QED BY <2>1
<1>24. T \in DOMAIN more[j].defined /\ gs[j][T] = c
  BY <1>16, <1>17, <1>18
<1> HIDE DEF gs
<1> QED BY <1>22, <1>23, <1>24 DEF T, Extends, Finds

\* The definitions of a path may be given again.
LEMMA DefineSame ==
  ASSUME NEW D, NEW p \in DOMAIN D, NEW T, NEW e
  PROVE  Define(Define(D, p, D[p]), T, e) = Define(D, T, e)
<1> DEFINE C == Define(D, p, D[p])
<1>1. DOMAIN C = DOMAIN D /\ \A q \in DOMAIN D : C[q] = D[q]
  <2>1. DOMAIN C = DOMAIN D \cup {p} /\ C[p] = D[p] /\ \A q \in DOMAIN D : q # p => C[q] = D[q]
    BY DEF Define
  <2> HIDE DEF C
  <2> QED BY <2>1
<1> HIDE DEF C
<1>2. Define(C, T, e) = [q \in DOMAIN D \cup {T} |-> IF q = T THEN e ELSE C[q]]
  BY <1>1 DEF Define
<1>3. Define(D, T, e) = [q \in DOMAIN D \cup {T} |-> IF q = T THEN e ELSE D[q]]
  BY DEF Define
<1>4. \A q \in DOMAIN D \cup {T} : (IF q = T THEN e ELSE C[q]) = (IF q = T THEN e ELSE D[q])
  BY <1>1
<1> QED BY <1>2, <1>3, <1>4 DEF C

\* A definition that is there already may be given before a join.
LEMMA JoinSame ==
  ASSUME NEW D, NEW p \in DOMAIN D, NEW E
  PROVE  Join(Define(D, p, D[p]), E) = Join(D, E)
<1> DEFINE C == Define(D, p, D[p])
<1>1. DOMAIN C = DOMAIN D /\ \A q \in DOMAIN D : C[q] = D[q]
  <2>1. DOMAIN C = DOMAIN D \cup {p} /\ C[p] = D[p] /\ \A q \in DOMAIN D : q # p => C[q] = D[q]
    BY DEF Define
  <2> HIDE DEF C
  <2> QED BY <2>1
<1> HIDE DEF C
<1>2. Join(C, E) = [q \in DOMAIN D \cup DOMAIN E |-> IF q \in DOMAIN E THEN E[q] ELSE C[q]]
  BY <1>1 DEF Join
<1>3. Join(D, E) = [q \in DOMAIN D \cup DOMAIN E |-> IF q \in DOMAIN E THEN E[q] ELSE D[q]]
  BY DEF Join
<1>4. \A q \in DOMAIN D \cup DOMAIN E :
        (IF q \in DOMAIN E THEN E[q] ELSE C[q]) = (IF q \in DOMAIN E THEN E[q] ELSE D[q])
  BY <1>1
<1> QED BY <1>2, <1>3, <1>4 DEF C

\* The last set of definitions has gone into the one before.
Merges(more, known, n, defined) ==
  /\ Len(more) = n /\ IsKnown(more)
  /\ \A i \in 1..n : /\ more[i].path = known[i].path
                     /\ more[i].defined = IF i = n THEN defined ELSE known[i].defined

\* The open values but for the last one.
Pops(t, stack, n) == Len(t) = n /\ \A i \in 1..n : t[i].id = stack[i].id

\* The last value has been read, and goes where its path says.
LEMMA MergedLayers ==
  ASSUME NEW ns, Heap(ns), NEW known, NEW stack, NEW fs, Layers(ns, known, stack, fs),
         NEW n \in Nat \ {0}, Len(stack) = n + 1,
         NEW p \in DOMAIN known[n].defined, NEW s \in AllSteps, known[n + 1].path = Append(p, s),
         Append(p, s) \notin DOMAIN known[n].defined,
         NEW m, Heap(m), Links(ns, m, fs[n][p], s, stack[n + 1].id),
         Suits(m[fs[n][p]], known[n].defined[p]),
         NEW t, Pops(t, stack, n),
         NEW more, Merges(more, known, n, Join(known[n].defined, known[n + 1].defined))
  PROVE  \E gs : Layers(m, more, t, gs) /\ Extends(t, more, gs, known, fs)
<1>. /\ Len(more) = n /\ Len(t) = n /\ \A i \in 1..n : t[i].id = stack[i].id
     /\ \A i \in 1..n :
            /\ more[i].path = known[i].path
            /\ more[i].defined = IF i = n THEN Join(known[n].defined, known[n + 1].defined)
                                 ELSE known[i].defined
  BY DEF Merges, Pops
<1> DEFINE k == n + 1
           D == known[n].defined
           E == known[k].defined
           f == fs[n]
           g == fs[k]
           h == Join(f, g)
           gs == [i \in 1..n |-> IF i = n THEN h ELSE fs[i]]
<1>1. n \in 1..Len(stack) /\ k \in 1..Len(stack) /\ n # k /\ 1..n \subseteq 1..Len(stack)
      /\ k \notin 1..n /\ n \in 1..n
  OBVIOUS
<1>2. Links(ns, m, f[p], s, stack[k].id) /\ Suits(m[f[p]], D[p]) /\ p \in DOMAIN D
      /\ known[k].path = Append(p, s) /\ Append(p, s) \notin DOMAIN D
      /\ more[n].defined = Join(D, E)
  BY <1>1
<1>3. \A i \in 1..n : i # n => more[i].defined = known[i].defined
  OBVIOUS
<1> HIDE DEF k
<1>4. /\ \A i \in 1..Len(stack) :
           /\ Layer(ns, known[i].defined, known[i].path, stack[i].id, fs[i])
           /\ \A q \in DOMAIN known[i].defined : fs[i][q] \in Ids(ns)
      /\ \A i, j \in 1..Len(stack) : i # j =>
           \A q \in DOMAIN known[i].defined, a \in DOMAIN known[j].defined : fs[i][q] # fs[j][a]
  <2>1. ASSUME NEW i \in 1..Len(stack)
        PROVE  /\ Layer(ns, known[i].defined, known[i].path, stack[i].id, fs[i])
               /\ \A q \in DOMAIN known[i].defined : fs[i][q] \in Ids(ns)
    BY LayersAre
  <2> QED BY <2>1 DEF Layers
<1>5. Layer(ns, D, known[n].path, stack[n].id, f) /\ Layer(ns, E, Append(p, s), stack[k].id, g)
  BY <1>1, <1>2, <1>4
<1>6. \A a \in DOMAIN D, b \in DOMAIN E : f[a] # g[b]
  BY <1>1, <1>4
<1>7. DOMAIN f = DOMAIN D /\ DOMAIN g = DOMAIN E
  BY <1>5 DEF Layer
<1>8. DOMAIN h = DOMAIN D \cup DOMAIN E /\ (\A a \in DOMAIN E : h[a] = g[a])
      /\ \A a \in DOMAIN D : a \in DOMAIN E \/ h[a] = f[a]
  <2>1. h = [q \in DOMAIN f \cup DOMAIN g |-> IF q \in DOMAIN g THEN g[q] ELSE f[q]]
    BY DEF Join
  <2> HIDE DEF h, D, E, f, g
  <2> QED BY <2>1, <1>7
<1>9. gs[n] = h /\ \A i \in 1..n : i # n => gs[i] = fs[i]
  BY <1>1
<1>10. \A i \in 1..Len(stack) : i # n /\ i # k =>
         \A q \in DOMAIN known[i].defined :
           (\A a \in DOMAIN D : fs[i][q] # f[a]) /\ \A b \in DOMAIN E : fs[i][q] # g[b]
  BY <1>1, <1>4
<1> HIDE DEF D, E, f, g, h, gs
<1>11. Layer(m, Join(Define(D, p, D[p]), E), known[n].path, stack[n].id, h)
  BY <1>2, <1>5, <1>6, Attach DEF h
<1>12. Layer(m, more[n].defined, more[n].path, t[n].id, gs[n])
  BY <1>1, <1>2, <1>9, <1>11, JoinSame
<1>13. DOMAIN D \cap DOMAIN E = {}
  <2>1. Closed(DOMAIN D, known[n].path) /\ Closed(DOMAIN E, Append(p, s))
    BY <1>5 DEF Layer
  <2> QED BY <2>1, <1>2, PathsApart
<1>14. \A a \in DOMAIN D : h[a] = f[a]
  BY <1>8, <1>13
<1>15. DOMAIN more[n].defined = DOMAIN D \cup DOMAIN E
  BY <1>2 DEF Join
<1>16. ASSUME NEW i \in 1..n, i # n
       PROVE  /\ Layer(m, more[i].defined, more[i].path, t[i].id, gs[i])
              /\ more[i].defined = known[i].defined /\ gs[i] = fs[i]
  <2>1. more[i].defined = known[i].defined /\ more[i].path = known[i].path /\ gs[i] = fs[i]
        /\ t[i].id = stack[i].id
    BY <1>3, <1>9, <1>16
  <2>2. \A q \in DOMAIN known[i].defined : fs[i][q] \in Ids(ns) /\ fs[i][q] # f[p]
    BY <1>1, <1>2, <1>4, <1>10, <1>16
  <2>3. \A q \in DOMAIN known[i].defined : m[fs[i][q]] = ns[fs[i][q]]
    BY <1>2, <2>2 DEF Links, But
  <2>4. Len(ns) <= Len(m)
    BY <1>2, HeapTypes DEF Links, But
  <2>5. Layer(ns, known[i].defined, known[i].path, stack[i].id, fs[i])
    BY <1>1, <1>4
  <2>6. Layer(m, known[i].defined, known[i].path, stack[i].id, fs[i])
    BY <2>3, <2>4, <2>5, LayerFrame
  <2> QED BY <2>1, <2>6
<1>17. ASSUME NEW i \in 1..n, NEW j \in 1..n, i # j,
              NEW q \in DOMAIN more[i].defined, NEW a \in DOMAIN more[j].defined
       PROVE  gs[i][q] # gs[j][a]
  <2>1. i \in 1..Len(stack) /\ j \in 1..Len(stack) /\ i # k /\ j # k
    BY <1>1
  <2>2. \A b \in DOMAIN more[n].defined :
          (b \in DOMAIN D /\ gs[n][b] = f[b]) \/ (b \in DOMAIN E /\ gs[n][b] = g[b])
    BY <1>8, <1>9, <1>14, <1>15
  <2>3. CASE i = n
    <3>1. more[j].defined = known[j].defined /\ gs[j] = fs[j] /\ j # n
      BY <1>16, <1>17, <2>3
    <3>2. (q \in DOMAIN D /\ gs[i][q] = f[q]) \/ (q \in DOMAIN E /\ gs[i][q] = g[q])
      BY <2>2, <2>3
    <3>3. a \in DOMAIN known[j].defined
      BY <3>1
    <3> QED BY <3>1, <3>2, <3>3, <2>1, <1>10
  <2>4. CASE j = n
    <3>1. more[i].defined = known[i].defined /\ gs[i] = fs[i] /\ i # n
      BY <1>16, <1>17, <2>4
    <3>2. (a \in DOMAIN D /\ gs[j][a] = f[a]) \/ (a \in DOMAIN E /\ gs[j][a] = g[a])
      BY <2>2, <2>4
    <3>3. q \in DOMAIN known[i].defined
      BY <3>1
    <3> QED BY <3>1, <3>2, <3>3, <2>1, <1>10
  <2>5. CASE i # n /\ j # n
    <3>1. more[i].defined = known[i].defined /\ gs[i] = fs[i]
          /\ more[j].defined = known[j].defined /\ gs[j] = fs[j]
      BY <1>16, <2>5
    <3>2. q \in DOMAIN known[i].defined /\ a \in DOMAIN known[j].defined
      BY <3>1
    <3> QED BY <1>17, <3>1, <3>2, <2>1, <1>4
  <2> QED BY <2>3, <2>4, <2>5
<1>18. \A i \in 1..n : Layer(m, more[i].defined, more[i].path, t[i].id, gs[i])
  BY <1>12, <1>16
<1>19. Layers(m, more, t, gs)
  BY <1>17, <1>18 DEF Layers
<1>20. \A i \in 1..n : \A q \in DOMAIN known[i].defined :
         q \in DOMAIN more[i].defined /\ gs[i][q] = fs[i][q]
  <2>1. ASSUME NEW i \in 1..n, NEW q \in DOMAIN known[i].defined
        PROVE  q \in DOMAIN more[i].defined /\ gs[i][q] = fs[i][q]
    <3>1. CASE i = n
      BY <3>1, <1>9, <1>14, <1>15 DEF D, f
    <3>2. CASE i # n
      <4>1. more[i].defined = known[i].defined /\ gs[i] = fs[i]
        BY <3>2, <1>16
      <4> QED BY <4>1
    <3> QED BY <3>1, <3>2
  <2> QED BY <2>1
<1>21. Extends(t, more, gs, known, fs)
  BY <1>20 DEF Extends
<1> QED BY ONLY <1>19, <1>21

\* A set of definitions is begun, and a value.
Begins(more, known, path, defined) ==
  /\ Len(more) = Len(known) + 1 /\ IsKnown(more)
  /\ \A i \in 1..Len(known) : more[i].path = known[i].path /\ more[i].defined = known[i].defined
  /\ more[Len(known) + 1].path = path /\ more[Len(known) + 1].defined = defined
\* The open values and one more.
Pushes(t, stack, c) ==
  /\ Len(t) = Len(stack) + 1 /\ t[Len(stack) + 1].id = c
  /\ \A i \in 1..Len(stack) : t[i].id = stack[i].id

\* A set of definitions of one path.
Single(path, definition) == [q \in {path} |-> definition]

\* A value begins, and has a layer of its own.
LEMMA BeganLayers ==
  ASSUME NEW ns, Heap(ns), NEW known, NEW stack, NEW fs, Layers(ns, known, stack, fs),
         NEW node, IsFresh(node),
         NEW new, Appends(ns, node, new), NEW c, c = Len(ns) + 1,
         NEW R \in Seq(AllSteps), NEW e, Suits(node, e),
         NEW t, Pushes(t, stack, c),
         NEW more, Len(stack) \in Nat, Begins(more, known, R, Single(R, e))
  PROVE  \E gs : Layers(new, more, t, gs) /\ Extends(stack, more, gs, known, fs)
<1> DEFINE n == Len(stack)
<1>. n \in Nat /\ Len(stack) = n
  OBVIOUS
<1> HIDE DEF n
<1>. /\ Len(t) = n + 1 /\ (\A i \in 1..n : t[i].id = stack[i].id) /\ t[n + 1].id = c
     /\ Len(more) = n + 1 /\ more[n + 1].path = R /\ more[n + 1].defined = [q \in {R} |-> e]
     /\ \A i \in 1..n : more[i].path = known[i].path /\ more[i].defined = known[i].defined
  <2>1. Len(known) = n /\ Len(stack) = n
    BY DEF Layers, n
  <2> QED BY <2>1 DEF Pushes, Begins, Single
<1> DEFINE k == n + 1
           E == [q \in {R} |-> e]
           g == [q \in {R} |-> c]
           gs == [i \in 1..k |-> IF i = k THEN g ELSE fs[i]]
<1>1. /\ k \in 1..k /\ \A i \in 1..k : i # k => i \in 1..n
      /\ 1..n \subseteq 1..k /\ k \notin 1..n
  OBVIOUS
<1>2. t[k].id = c /\ Len(t) = k /\ Len(more) = k /\ more[k].path = R /\ more[k].defined = E
  OBVIOUS
<1>3. DOMAIN E = {R} /\ DOMAIN g = {R} /\ g[R] = c
  OBVIOUS
<1>4. gs[k] = g /\ \A i \in 1..n : gs[i] = fs[i]
  BY <1>1
<1> HIDE DEF k, gs
<1>5. /\ Heap(new) /\ Len(ns) <= Len(new) /\ c \in Ids(new) /\ c \notin Ids(ns)
      /\ Ids(ns) \subseteq Ids(new)
      /\ new[c] = node
      /\ \A x \in Ids(ns) : new[x] = ns[x]
      /\ \A z, y : ~Edge(new, c, z, y)
  <2>1. /\ Heap(new) /\ Len(ns) <= Len(new) /\ c \in Ids(new) /\ c \notin Ids(ns)
        /\ Ids(ns) \subseteq Ids(new) /\ new[c] = node
        /\ \A x \in Ids(ns) : new[x] = ns[x]
        /\ node.all = << >> /\ node.items = << >>
    BY FreshNode
  <2>2. \A z, y : ~Edge(new, c, z, y)
    BY <2>1 DEF Edge
  <2> QED BY <2>1, <2>2
<1>6. Layer(new, E, R, c, g)
  <2>1. Suits(new[c], e)
    BY <1>5
  <2>2. c \in Ids(new) /\ \A z, y : ~Edge(new, c, z, y)
    BY <1>5
  <2> QED BY ONLY <2>1, <2>2, R \in Seq(AllSteps), LayerNew
<1> HIDE DEF E, g
<1>7. ASSUME NEW i \in 1..n
      PROVE  Layer(new, more[i].defined, more[i].path, t[i].id, gs[i])
  <2>1. /\ Layer(ns, known[i].defined, known[i].path, stack[i].id, fs[i])
        /\ \A q \in DOMAIN known[i].defined : fs[i][q] \in Ids(ns)
    BY LayersAre
  <2>2. \A q \in DOMAIN known[i].defined : new[fs[i][q]] = ns[fs[i][q]]
    BY <1>5, <2>1
  <2>3. Layer(new, known[i].defined, known[i].path, stack[i].id, fs[i])
    BY <1>5, <2>1, <2>2, LayerFrame
  <2> QED BY <2>3, <1>4
<1>8. \A i \in 1..k : Layer(new, more[i].defined, more[i].path, t[i].id, gs[i])
  BY <1>1, <1>2, <1>4, <1>6, <1>7
<1>9. \A i \in 1..n : \A q \in DOMAIN more[i].defined : gs[i][q] # c
  <2>1. ASSUME NEW i \in 1..n, NEW q \in DOMAIN more[i].defined PROVE gs[i][q] # c
    <3>1. more[i].defined = known[i].defined /\ gs[i] = fs[i]
      BY <1>4
    <3>2. fs[i][q] \in Ids(ns)
      BY <3>1, LayersAre
    <3> QED BY <3>1, <3>2, <1>5
  <2> QED BY <2>1
<1>10. \A q \in DOMAIN more[k].defined : gs[k][q] = c
  BY <1>2, <1>3, <1>4
<1>11. ASSUME NEW i \in 1..k, NEW j \in 1..k, i # j,
              NEW q \in DOMAIN more[i].defined, NEW a \in DOMAIN more[j].defined
       PROVE  gs[i][q] # gs[j][a]
  <2>1. CASE i = k
    <3>1. j \in 1..n
      BY <2>1, <1>1, <1>11
    <3> QED BY ONLY <2>1, <3>1, <1>9, <1>10, <1>11
  <2>2. CASE j = k
    <3>1. i \in 1..n
      BY <2>2, <1>1, <1>11
    <3> QED BY ONLY <2>2, <3>1, <1>9, <1>10, <1>11
  <2>3. CASE i # k /\ j # k
    <3>1. i \in 1..n /\ j \in 1..n
      BY <1>1, <2>3
    <3>2. more[i].defined = known[i].defined /\ gs[i] = fs[i]
          /\ more[j].defined = known[j].defined /\ gs[j] = fs[j]
      BY <3>1, <1>4
    <3>3. q \in DOMAIN known[i].defined /\ a \in DOMAIN known[j].defined
      BY <3>2
    <3> QED BY <1>11, <3>1, <3>2, <3>3, LayersAre
  <2> QED BY <2>1, <2>2, <2>3
<1>12. Layers(new, more, t, gs)
  BY <1>2, <1>8, <1>11 DEF Layers
<1>13. Extends(stack, more, gs, known, fs)
  BY <1>4 DEF Extends, n
<1> QED BY ONLY <1>12, <1>13

-----------------------------------------------------------------------------
(* What TOML says, step by step *)

\* A changed set of definitions is a set of definitions.
LEMMA KnownExcept ==
  ASSUME NEW known, IsKnown(known), Len(known) \in Nat, NEW j \in 1..Len(known), NEW defined
  PROVE  Redefines([known EXCEPT ![j].defined = defined], known, j, defined)
<1> DEFINE more == [known EXCEPT ![j].defined = defined]
           at(i) == [path |-> known[i].path,
                     defined |-> IF i = j THEN defined ELSE known[i].defined]
<1>1. /\ known = [i \in 1..Len(known) |-> known[i]]
      /\ \A i \in 1..Len(known) : known[i] = [path |-> known[i].path, defined |-> known[i].defined]
  BY DEF IsKnown
<1>2. known \in Seq({known[i] : i \in 1..Len(known)})
  <2> DEFINE S == {known[i] : i \in 1..Len(known)}
             n == Len(known)
  <2>1. n \in Nat /\ known = [i \in 1..n |-> known[i]] /\ \A i \in 1..n : known[i] \in S
    BY <1>1
  <2> HIDE DEF S, n
  <2>2. known \in [1..n -> S]
    BY <2>1
  <2>3. known \in Seq(S)
    BY <2>1, <2>2 DEF Seq
  <2> QED BY <2>3 DEF S
<1>3. DOMAIN known = 1..Len(known)
  BY <1>2
<1>4. \A i \in 1..Len(known) : more[i] = at(i)
  <2>1. ASSUME NEW i \in 1..Len(known) PROVE more[i] = at(i)
    <3>1. CASE i # j
      BY <1>1, <1>3, <3>1
    <3>2. CASE i = j
      <4> DEFINE r == known[j]
      <4>1. more[j] = [r EXCEPT !.defined = defined]
        BY <1>3
      <4>2. r = [path |-> r.path, defined |-> r.defined]
        BY <1>1
      <4> HIDE DEF r
      <4>3. [r EXCEPT !.defined = defined] = [path |-> r.path, defined |-> defined]
        BY <4>2
      <4> QED BY <3>2, <4>1, <4>3 DEF r
    <3> QED BY <3>1, <3>2
  <2> QED BY <2>1
<1>5. DOMAIN more = 1..Len(known)
  BY <1>3
<1>6. more = [i \in 1..Len(known) |-> more[i]]
  BY <1>3
<1> HIDE DEF more
<1>7. Len(more) = Len(known)
  <2> DEFINE n == Len(known)
             S == {more[i] : i \in 1..n}
  <2>1. n \in Nat /\ more = [i \in 1..n |-> more[i]] /\ \A i \in 1..n : more[i] \in S
    BY <1>6
  <2> HIDE DEF S, n
  <2>2. more \in [1..n -> S]
    BY <2>1
  <2>3. more \in Seq(S) /\ DOMAIN more = 1..n
    BY <2>1, <2>2 DEF Seq
  <2>4. Len(more) = n
    BY <2>1, <2>3, LenProperties
  <2> QED BY <2>4 DEF n
<1>8. \A i \in 1..Len(known) : more[i].path = known[i].path
         /\ more[i].defined = IF i = j THEN defined ELSE known[i].defined
  <2>1. \A i : /\ at(i).path = known[i].path
               /\ at(i).defined = IF i = j THEN defined ELSE known[i].defined
    OBVIOUS
  <2> HIDE DEF at
  <2> QED BY <1>4, <2>1
<1>9. IsKnown(more)
  BY <1>4, <1>6, <1>7 DEF IsKnown
<1> QED BY <1>7, <1>8, <1>9 DEF more, Redefines

\* A key of a header or of an entry.
Moves(t, v, j, defined, place, verdict) ==
  LET u == [t EXCEPT !.known[j].defined = defined, !.place = place]
  IN v = u \/ v = [u EXCEPT !.verdict = verdict]

\* What a key leaves of the state of the text.
LEMMA TomlPlace ==
  ASSUME NEW t, IsToml(t), IsKnown(t.known), Len(t.known) \in Nat, NEW j \in 1..Len(t.known),
         NEW defined, NEW place, NEW verdict,
         NEW v, Moves(t, v, j, defined, place, verdict)
  PROVE  /\ IsToml(v) /\ Redefines(v.known, t.known, j, defined)
         /\ v.section = t.section /\ v.place = place
         /\ v.verdict \in {t.verdict, verdict}
<1>1. t = [verdict |-> t.verdict, known |-> t.known, section |-> t.section, place |-> t.place]
  BY DEF IsToml
<1> DEFINE more == [t.known EXCEPT ![j].defined = defined]
           u == [t EXCEPT !.known[j].defined = defined, !.place = place]
<1>2. u = [verdict |-> t.verdict, known |-> more, section |-> t.section, place |-> place]
  <2> DEFINE w == [t EXCEPT !.known = more]
  <2>1. u = [w EXCEPT !.place = place]
    OBVIOUS
  <2> HIDE DEF more, u
  <2>2. w = [verdict |-> t.verdict, known |-> more, section |-> t.section, place |-> t.place]
    BY <1>1
  <2> HIDE DEF w
  <2> QED BY <2>1, <2>2
<1>3. Redefines(more, t.known, j, defined)
  BY KnownExcept
<1>0. v = u \/ v = [u EXCEPT !.verdict = verdict]
  BY DEF Moves
<1> HIDE DEF more, u
<1>4. CASE v = u
  BY <1>2, <1>3, <1>4 DEF IsToml
<1>5. CASE v = [u EXCEPT !.verdict = verdict]
  <2>1. v = [verdict |-> verdict, known |-> more, section |-> t.section, place |-> place]
    BY <1>2, <1>5
  <2> QED BY <2>1, <1>3 DEF IsToml
<1> QED BY <1>0, <1>4, <1>5

\* The end of a header.
Ends(t, v, j, defined, section, verdict) ==
  LET u == [t EXCEPT !.known[j].defined = defined, !.section = section]
  IN v = u \/ v = [u EXCEPT !.verdict = verdict]

\* What the end of a header leaves of it.
LEMMA TomlSection ==
  ASSUME NEW t, IsToml(t), IsKnown(t.known), Len(t.known) \in Nat, NEW j \in 1..Len(t.known),
         NEW defined, NEW section, NEW verdict,
         NEW v, Ends(t, v, j, defined, section, verdict)
  PROVE  /\ IsToml(v) /\ Redefines(v.known, t.known, j, defined)
         /\ v.section = section /\ v.place = t.place
         /\ v.verdict \in {t.verdict, verdict}
<1>1. t = [verdict |-> t.verdict, known |-> t.known, section |-> t.section, place |-> t.place]
  BY DEF IsToml
<1> DEFINE more == [t.known EXCEPT ![j].defined = defined]
           u == [t EXCEPT !.known[j].defined = defined, !.section = section]
<1>2. u = [verdict |-> t.verdict, known |-> more, section |-> section, place |-> t.place]
  <2> DEFINE w == [t EXCEPT !.known = more]
  <2>1. u = [w EXCEPT !.section = section]
    OBVIOUS
  <2> HIDE DEF more, u
  <2>2. w = [verdict |-> t.verdict, known |-> more, section |-> t.section, place |-> t.place]
    BY <1>1
  <2> HIDE DEF w
  <2> QED BY <2>1, <2>2
<1>3. Redefines(more, t.known, j, defined)
  BY KnownExcept
<1>0. v = u \/ v = [u EXCEPT !.verdict = verdict]
  BY DEF Ends
<1> HIDE DEF more, u
<1>4. CASE v = u
  BY <1>2, <1>3, <1>4 DEF IsToml
<1>5. CASE v = [u EXCEPT !.verdict = verdict]
  <2>1. v = [verdict |-> verdict, known |-> more, section |-> section, place |-> t.place]
    BY <1>2, <1>5
  <2> QED BY <2>1, <1>3 DEF IsToml
<1> QED BY <1>0, <1>4, <1>5

\* A value begins, or the last one is taken into the one before.
Widens(t, u, path, defined) ==
  u = [t EXCEPT !.known = Append(@, [path |-> path, defined |-> defined])]

\* What the begin of a value leaves of it.
LEMMA TomlAppend ==
  ASSUME NEW t, IsToml(t), IsKnown(t.known), Len(t.known) \in Nat, NEW path, NEW defined,
         NEW u, Widens(t, u, path, defined)
  PROVE  /\ IsToml(u) /\ u.verdict = t.verdict /\ u.section = t.section /\ u.place = t.place
         /\ Begins(u.known, t.known, path, defined)
<1> DEFINE k == t.known
           n == Len(k)
           r == [path |-> path, defined |-> defined]
           more == Append(k, r)
           S == {k[i] : i \in 1..n} \cup {r}
<1>1. u = [verdict |-> t.verdict, known |-> more, section |-> t.section, place |-> t.place]
  BY DEF IsToml, Widens
<1>2. /\ k = [i \in 1..n |-> k[i]] /\ n \in Nat
      /\ \A i \in 1..n : k[i] = [path |-> k[i].path, defined |-> k[i].defined]
  BY DEF IsKnown
<1>3. r \in S /\ \A i \in 1..n : k[i] \in S
  OBVIOUS
<1>4. r = [path |-> r.path, defined |-> r.defined] /\ r.path = path /\ r.defined = defined
  OBVIOUS
<1>5. n = Len(k)
  OBVIOUS
<1> HIDE DEF k, n, S, r
<1>6. k \in Seq(S)
  <2>1. k \in [1..n -> S]
    BY <1>2, <1>3
  <2> QED BY <2>1, <1>2 DEF Seq
<1>7. /\ more \in Seq(S) /\ Len(more) = n + 1 /\ more[n + 1] = r
      /\ \A i \in 1..n : more[i] = k[i]
  BY <1>3, <1>5, <1>6, AppendProperties
<1> HIDE DEF more
<1>8. more = [i \in 1..Len(more) |-> more[i]]
  BY <1>7
<1>9. ASSUME NEW i \in 1..Len(more)
      PROVE  more[i] = [path |-> more[i].path, defined |-> more[i].defined]
  <2>1. CASE i \in 1..n
    BY <1>2, <1>7, <2>1
  <2>2. CASE i \notin 1..n
    <3>1. i = n + 1
      BY <1>2, <1>7, <2>2
    <3> QED BY <3>1, <1>4, <1>7
  <2> QED BY <2>1, <2>2
<1>10. IsKnown(more)
  BY <1>8, <1>9 DEF IsKnown
<1>11. IsToml(u) /\ u.verdict = t.verdict /\ u.section = t.section /\ u.place = t.place
       /\ u.known = more
  <2>1. u.verdict = t.verdict /\ u.section = t.section /\ u.place = t.place /\ u.known = more
    BY ONLY <1>1
  <2> QED BY ONLY <1>1, <2>1 DEF IsToml
<1>12. Begins(more, k, path, defined)
  BY <1>4, <1>5, <1>7, <1>10 DEF Begins
<1> QED BY <1>11, <1>12 DEF k

\* The definitions without the last set.
LEMMA KnownFirst ==
  ASSUME NEW known, IsKnown(known), NEW n \in Nat, n + 1 = Len(known)
  PROVE  LET more == SubSeq(known, 1, n)
         IN IsKnown(more) /\ Len(more) = n /\ \A i \in 1..n : more[i] = known[i]
<1> DEFINE S == {known[i] : i \in 1..n + 1}
           more == SubSeq(known, 1, n)
<1>1. /\ known = [i \in 1..n + 1 |-> known[i]] /\ \A i \in 1..n + 1 : known[i] \in S
      /\ \A i \in 1..n + 1 : known[i] = [path |-> known[i].path, defined |-> known[i].defined]
  BY DEF IsKnown
<1> HIDE DEF S
<1>2. known \in [1..n + 1 -> S]
  BY <1>1
<1>3. n + 1 \in Nat
  OBVIOUS
<1>4. known \in Seq(S)
  BY <1>2, <1>3 DEF Seq
<1>5. more = [i \in 1..n |-> known[i]]
  BY <1>4 DEF SubSeq
<1> HIDE DEF more
<1>6. more \in [1..n -> S]
  BY <1>1, <1>5
<1>7. more \in Seq(S) /\ Len(more) = n
  <2>1. more \in Seq(S) /\ DOMAIN more = 1..n
    BY <1>6 DEF Seq
  <2> QED BY <2>1, LenProperties
<1>8. \A i \in 1..n : more[i] = known[i]
  BY <1>5
<1>9. ASSUME NEW i \in 1..n
      PROVE  more[i] = [path |-> more[i].path, defined |-> more[i].defined]
  <2>1. more[i] = known[i] /\ i \in 1..n + 1
    BY <1>8
  <2> QED BY <1>1, <2>1
<1>10. more = [i \in 1..Len(more) |-> more[i]]
  BY <1>7
<1> QED BY <1>7, <1>8, <1>9, <1>10 DEF more, IsKnown

\* The last set of definitions goes into the one before.
Narrows(t, u, n, defined) ==
  u = [t EXCEPT !.known = SubSeq([t.known EXCEPT ![n].defined = defined], 1, n)]

\* What a value leaves of the state of the text, when it is taken.
LEMMA TomlTaken ==
  ASSUME NEW t, IsToml(t), IsKnown(t.known), NEW n \in Nat \ {0}, Len(t.known) = n + 1,
         NEW defined, NEW u, Narrows(t, u, n, defined)
  PROVE  /\ IsToml(u) /\ u.verdict = t.verdict /\ u.section = t.section /\ u.place = t.place
         /\ Merges(u.known, t.known, n, defined)
<1> DEFINE all == [t.known EXCEPT ![n].defined = defined]
           more == SubSeq(all, 1, n)
<1>1. u = [verdict |-> t.verdict, known |-> more, section |-> t.section, place |-> t.place]
  BY DEF IsToml, Narrows
<1>2. Len(t.known) \in Nat /\ n \in 1..Len(t.known) /\ 1..n \subseteq 1..Len(t.known)
  OBVIOUS
<1>3. Redefines(all, t.known, n, defined)
  BY <1>2, KnownExcept
<1> HIDE DEF all
<1>4. IsKnown(all) /\ n + 1 = Len(all)
      /\ \A i \in 1..n : /\ all[i].path = t.known[i].path
                         /\ all[i].defined = IF i = n THEN defined ELSE t.known[i].defined
  BY <1>2, <1>3 DEF Redefines
<1>5. IsKnown(more) /\ Len(more) = n /\ \A i \in 1..n : more[i] = all[i]
  BY <1>4, KnownFirst
<1> HIDE DEF more
<1>6. IsToml(u) /\ u.verdict = t.verdict /\ u.section = t.section /\ u.place = t.place
       /\ u.known = more
  <2>1. u.verdict = t.verdict /\ u.section = t.section /\ u.place = t.place /\ u.known = more
    BY ONLY <1>1
  <2> QED BY ONLY <1>1, <2>1 DEF IsToml
<1>7. \A i \in 1..n : /\ u.known[i].path = t.known[i].path
                     /\ u.known[i].defined = IF i = n THEN defined ELSE t.known[i].defined
  BY ONLY <1>4, <1>5, <1>6
<1>8. Merges(u.known, t.known, n, defined)
  BY ONLY <1>5, <1>6, <1>7 DEF Merges
<1> QED BY ONLY <1>6, <1>8

-----------------------------------------------------------------------------
(* What a step adds *)

\* The steps of keys, one after the other.
LEMMA StepsOf ==
  ASSUME NEW keys \in Dotted
  PROVE  /\ Steps(keys) \in Seq(AllSteps) /\ Len(Steps(keys)) = Len(keys)
         /\ Step(keys[1]) \in AllSteps
         /\ \A i \in 1..Len(keys) : Steps(keys)[i] = Step(keys[i])
<1>1. keys \in Seq(Keys) /\ Len(keys) \in Nat /\ Len(keys) >= 1
      /\ \A i \in 1..Len(keys) : keys[i] \in Keys
  BY DottedKeys
<1>2. \A k \in Keys : Step(k) \in AllSteps
  BY DEF AllSteps
<1>3. Steps(keys) = [i \in 1..Len(keys) |-> Step(keys[i])]
  BY DEF Steps
<1>4. Steps(keys) \in [1..Len(keys) -> AllSteps]
  <2>1. \A i \in 1..Len(keys) : Step(keys[i]) \in AllSteps
    BY <1>1, <1>2
  <2> QED BY <1>3, <2>1
<1>5. Steps(keys) \in Seq(AllSteps) /\ DOMAIN Steps(keys) = 1..Len(keys)
  BY <1>1, <1>4 DEF Seq
<1>6. Len(Steps(keys)) = Len(keys)
  BY <1>1, <1>5, LenProperties
<1>7. 1 \in 1..Len(keys)
  BY <1>1
<1> QED BY <1>1, <1>2, <1>3, <1>5, <1>6, <1>7

\* A path with keys behind it goes on with their first one.
LEMMA PathConcat ==
  ASSUME NEW p \in Seq(AllSteps), NEW keys \in Dotted
  PROVE  /\ p \o Steps(keys) \in Seq(AllSteps)
         /\ Len(keys) = 1 => p \o Steps(keys) = Append(p, Step(keys[1]))
         /\ Len(keys) > 1 =>
              p \o Steps(keys) = Append(p, Step(keys[1])) \o Steps(Tail(keys))
<1> DEFINE a == Steps(keys)
           s == Step(keys[1])
           q == Append(p, s)
           n == Len(p)
           l == Len(keys)
<1>1. /\ a \in Seq(AllSteps) /\ Len(a) = l /\ s \in AllSteps
      /\ \A i \in 1..l : a[i] = Step(keys[i])
  BY StepsOf
<1>2. l \in Nat /\ l >= 1 /\ n \in Nat
  BY DottedKeys, LenProperties
<1> HIDE DEF a, s, l
<1>3. /\ p \o a \in Seq(AllSteps) /\ Len(p \o a) = n + l
      /\ \A i \in 1..n + l : (p \o a)[i] = IF i <= n THEN p[i] ELSE a[i - n]
  BY <1>1, <1>2, ConcatProperties
<1>4. /\ q \in Seq(AllSteps) /\ Len(q) = n + 1 /\ q[n + 1] = s
      /\ \A i \in 1..n : q[i] = p[i]
  BY <1>1, AppendProperties
<1>5. a[1] = s
  BY <1>1, <1>2 DEF s
<1> HIDE DEF q
<1>6. ASSUME l = 1 PROVE p \o a = q
  <2>1. Len(p \o a) = Len(q)
    BY <1>3, <1>4, <1>6
  <2>2. ASSUME NEW i \in 1..Len(q) PROVE (p \o a)[i] = q[i]
    <3>1. i \in 1..n + 1
      BY <1>4, <2>2
    <3>2. CASE i \in 1..n
      <4>1. i <= n /\ i \in 1..n + l
        BY <1>2, <3>2
      <4> QED BY <3>2, <4>1, <1>3, <1>4
    <3>3. CASE i \notin 1..n
      <4>1. i = n + 1 /\ ~(i <= n) /\ i \in 1..n + l /\ i - n = 1
        BY <1>2, <3>1, <3>3
      <4> QED BY <4>1, <1>3, <1>4, <1>5
    <3> QED BY <3>2, <3>3
  <2> QED BY <1>3, <1>4, <2>1, <2>2, SeqEqual
<1>7. ASSUME l > 1 PROVE p \o a = q \o Steps(Tail(keys))
  <2> DEFINE b == Steps(Tail(keys))
  <2>1. Tail(keys) \in Dotted /\ Len(Tail(keys)) = l - 1
        /\ \A i \in 1..l - 1 : Tail(keys)[i] = keys[i + 1]
    BY <1>7, DottedKeys DEF l
  <2>2. /\ b \in Seq(AllSteps) /\ Len(b) = l - 1
        /\ \A i \in 1..l - 1 : b[i] = Step(Tail(keys)[i])
    BY <2>1, StepsOf
  <2> HIDE DEF b
  <2>3. /\ q \o b \in Seq(AllSteps) /\ Len(q \o b) = n + 1 + (l - 1)
        /\ \A i \in 1..n + 1 + (l - 1) : (q \o b)[i] = IF i <= n + 1 THEN q[i] ELSE b[i - (n + 1)]
    <3>1. /\ q \o b \in Seq(AllSteps) /\ Len(q \o b) = Len(q) + Len(b)
          /\ \A i \in 1..Len(q) + Len(b) : (q \o b)[i] = IF i <= Len(q) THEN q[i] ELSE b[i - Len(q)]
      BY ONLY <1>4, <2>2, ConcatProperties
    <3> QED BY <3>1, <1>4, <2>2
  <2>4. Len(p \o a) = Len(q \o b)
    BY <1>2, <1>3, <2>3
  <2>5. ASSUME NEW i \in 1..Len(p \o a) PROVE (p \o a)[i] = (q \o b)[i]
    <3>1. i \in 1..n + l /\ i \in 1..n + 1 + (l - 1)
      BY <1>2, <1>3, <2>5
    <3>2. CASE i \in 1..n
      <4>1. i <= n /\ i <= n + 1
        BY <1>2, <3>2
      <4> QED BY <3>1, <3>2, <4>1, <1>3, <1>4, <2>3
    <3>3. CASE i = n + 1
      <4>1. ~(i <= n) /\ i <= n + 1 /\ i - n = 1
        BY <1>2, <3>3
      <4> QED BY <3>1, <3>3, <4>1, <1>3, <1>4, <1>5, <2>3
    <3>4. CASE i \notin 1..n /\ i # n + 1
      <4>1. ~(i <= n) /\ ~(i <= n + 1) /\ i - n \in 1..l /\ i - (n + 1) \in 1..l - 1
            /\ i - n = (i - (n + 1)) + 1
        BY <1>2, <3>1, <3>4
      <4>2. (p \o a)[i] = Step(keys[i - n])
        BY <3>1, <4>1, <1>1, <1>3
      <4>3. (q \o b)[i] = Step(keys[(i - (n + 1)) + 1])
        BY <3>1, <4>1, <2>1, <2>2, <2>3
      <4> QED BY <4>1, <4>2, <4>3
    <3> QED BY <3>2, <3>3, <3>4
  <2> QED BY <1>3, <2>3, <2>4, <2>5, SeqEqual DEF b
<1> QED BY <1>3, <1>6, <1>7 DEF a, q, s, l

\* A table has a key when the path of the key is defined, and then it is that path's node.
LEMMA FoundNode ==
  ASSUME NEW ns, Heap(ns), NEW D, NEW R, NEW r, NEW f, Layer(ns, D, R, r, f),
         NEW p \in DOMAIN D, NEW t, f[p] = t, ns[t].errors = {}, NEW k \in Keys
  PROVE  /\ t \in Ids(ns) /\ p \in Seq(AllSteps) /\ Step(k) \in AllSteps
         /\ Append(p, Step(k)) \in DOMAIN D <=> Has(ns, t, k)
         /\ Has(ns, t, k) => /\ Get(ns, t, k) = f[Append(p, Step(k))]
                             /\ Get(ns, t, k) \in Ids(ns)
                             /\ Suits(ns[Get(ns, t, k)], D[Append(p, Step(k))])
<1> DEFINE q == Append(p, Step(k))
<1>1. t \in Ids(ns) /\ p \in Seq(AllSteps)
  BY LayerIds
<1>2. Step(k) \in AllSteps
  BY DEF AllSteps
<1>3. /\ q \in DOMAIN D => Edge(ns, t, Step(k), f[q])
      /\ \A y : Edge(ns, t, Step(k), y) => q \in DOMAIN D /\ f[q] = y
  <2> DEFINE s == Step(k)
  <2>1. s \in AllSteps
    BY <1>2
  <2> HIDE DEF s
  <2>2. /\ Append(p, s) \in DOMAIN D => Edge(ns, f[p], s, f[Append(p, s)])
        /\ \A y : Edge(ns, f[p], s, y) => Append(p, s) \in DOMAIN D /\ f[Append(p, s)] = y
    <3>1. Heap(ns) /\ Layer(ns, D, R, r, f) /\ p \in DOMAIN D
      OBVIOUS
    <3>2. Append(p, s) \in DOMAIN D => Edge(ns, f[p], s, f[Append(p, s)])
      BY ONLY <2>1, <3>1, LayerEdges
    <3>3. ASSUME NEW y, Edge(ns, f[p], s, y)
          PROVE  Append(p, s) \in DOMAIN D /\ f[Append(p, s)] = y
      <4>1. y \in Ids(ns)
        BY <1>1, <3>3, Edges
      <4> QED BY ONLY <2>1, <3>1, <3>3, <4>1 DEF Layer
    <3> QED BY <3>2, <3>3
  <2> QED BY <2>2 DEF s
<1>4. \A y : Edge(ns, t, Step(k), y) => Has(ns, t, k)
  BY <1>1, Edges
<1>5. Has(ns, t, k) => Edge(ns, t, Step(k), Get(ns, t, k)) /\ Get(ns, t, k) \in Ids(ns)
  BY <1>1, GotNode
<1>6. \A b \in DOMAIN D : Suits(ns[f[b]], D[b])
  BY LayerIds
<1> QED BY <1>1, <1>2, <1>3, <1>4, <1>5, <1>6

\* No error is made.
FaultlessIn(ns) == \A x \in Ids(ns) : ns[x].errors = {}

\* New nodes and edges have no errors.
LEMMA FaultlessNew ==
  ASSUME NEW ns, Heap(ns), FaultlessIn(ns), NEW kind \in Kinds, NEW header \in BOOLEAN
  PROVE  FaultlessIn(Append(ns, Node(kind, header)))
<1> DEFINE m == Append(ns, Node(kind, header))
<1>1. /\ Len(m) = Len(ns) + 1 /\ (\A x \in Ids(ns) : m[x] = ns[x])
      /\ m[Len(ns) + 1].errors = {} /\ Len(ns) \in Nat
  <2>1. m[Len(ns) + 1] = Node(kind, header)
    BY NewNode
  <2>2. Node(kind, header).errors = {}
    BY NewRecord
  <2>3. Len(m) = Len(ns) + 1 /\ \A x \in Ids(ns) : m[x] = ns[x]
    BY NewNode
  <2> QED BY <2>1, <2>2, <2>3, HeapTypes
<1> HIDE DEF m
<1>2. \A x \in Ids(m) : x \in Ids(ns) \/ x = Len(ns) + 1
  BY <1>1 DEF Ids
<1>3. FaultlessIn(m)
  BY <1>1, <1>2 DEF FaultlessIn
<1> QED BY <1>3 DEF m

LEMMA FaultlessLink ==
  ASSUME NEW ns, FaultlessIn(ns), NEW m, NEW t, NEW s, NEW c, Links(ns, m, t, s, c)
  PROVE  FaultlessIn(m)
BY DEF FaultlessIn, Links, But, Ids

\* A key added to the definitions is no item of an array.
LEMMA ArrayedDefine ==
  ASSUME NEW D, Arrayed(D), \A q \in DOMAIN D : q \in Seq(AllSteps),
         NEW p \in Seq(AllSteps), NEW k \in Keys, Append(p, Step(k)) \notin DOMAIN D,
         NEW e, e.how # "array"
  PROVE  Arrayed(Define(D, Append(p, Step(k)), e))
<1> DEFINE T == Append(p, Step(k))
           C == Define(D, T, e)
<1>1. DOMAIN C = DOMAIN D \cup {T} /\ C[T] = e /\ \A q \in DOMAIN D : C[q] = D[q]
  BY DEF Define
<1>2. \A q \in DOMAIN D, n \in Nat : Append(q, Item(n)) # T
  <2>1. Step(k) \in AllSteps /\ \A n \in Nat : Item(n) \in AllSteps /\ Step(k) # Item(n)
    BY StepsApart
  <2> QED BY <2>1, AppendOnce
<1> HIDE DEF C, T
<1>3. Arrayed(C)
  <2>1. ASSUME NEW q \in DOMAIN C, C[q].how = "array"
        PROVE  /\ C[q].tables \in Nat \ {0}
               /\ \A n \in Nat : Append(q, Item(n)) \in DOMAIN C => C[Append(q, Item(n))].how = "table"
    <3>1. q \in DOMAIN D /\ C[q] = D[q]
      BY <1>1, <2>1
    <3>2. D[q].tables \in Nat \ {0}
          /\ \A n \in Nat : Append(q, Item(n)) \in DOMAIN D => D[Append(q, Item(n))].how = "table"
      BY <2>1, <3>1 DEF Arrayed
    <3> QED BY <1>1, <1>2, <3>1, <3>2
  <2> QED BY <2>1 DEF Arrayed
<1> QED BY <1>3 DEF C, T

\* What is defined in another way was and is no array, nor a table of one.
LEMMA ArrayedRedefine ==
  ASSUME NEW D, Arrayed(D), NEW p \in DOMAIN D, D[p].how # "table",
         NEW e, e.how # "array"
  PROVE  Arrayed(Define(D, p, e))
<1> DEFINE C == Define(D, p, e)
<1>1. DOMAIN C = DOMAIN D /\ C[p] = e /\ \A q \in DOMAIN D : q # p => C[q] = D[q]
  BY DEF Define
<1> HIDE DEF C
<1>2. Arrayed(C)
  <2>1. ASSUME NEW q \in DOMAIN C, C[q].how = "array"
        PROVE  /\ C[q].tables \in Nat \ {0}
               /\ \A n \in Nat : Append(q, Item(n)) \in DOMAIN C => C[Append(q, Item(n))].how = "table"
    <3>1. q \in DOMAIN D /\ C[q] = D[q]
      BY <1>1, <2>1
    <3>2. D[q].tables \in Nat \ {0}
          /\ \A n \in Nat : Append(q, Item(n)) \in DOMAIN D => D[Append(q, Item(n))].how = "table"
      BY <2>1, <3>1 DEF Arrayed
    <3> QED BY <1>1, <3>1, <3>2
  <2> QED BY <2>1 DEF Arrayed
<1> QED BY <1>2 DEF C

\* An array gets a table.
LEMMA ArrayedItem ==
  ASSUME NEW D, Arrayed(D), \A q \in DOMAIN D : q \in Seq(AllSteps),
         NEW p \in Seq(AllSteps), NEW k \in Keys, NEW T, T = Append(p, Step(k)),
         \A i \in Nat : Append(T, Item(i)) \in DOMAIN D => D[Append(T, Item(i))].how = "table",
         NEW n \in Nat \ {0}, Append(T, Item(n)) \notin DOMAIN D,
         NEW d, d.how = "array", d.tables = n, NEW e, e.how = "table"
  PROVE  Arrayed(Define(Define(D, T, d), Append(T, Item(n)), e))
<1> DEFINE U == Append(T, Item(n))
           B == Define(D, T, d)
           C == Define(B, U, e)
<1>1. /\ Step(k) \in AllSteps
      /\ \A i \in Nat : Item(i) \in AllSteps /\ Step(k) # Item(i)
      /\ \A i, j \in Nat : Item(i) = Item(j) => i = j
  BY StepsApart
<1>2. T \in Seq(AllSteps)
  BY <1>1, AppendPath
<1>3. \A q \in DOMAIN D \cup {T} : q \in Seq(AllSteps)
  BY <1>2
<1>4. \A q \in DOMAIN D \cup {T}, i \in Nat : Append(q, Item(i)) # T
  BY <1>1, <1>3, AppendOnce
<1>5. \A q \in DOMAIN D \cup {T}, i \in Nat : Append(q, Item(i)) = U => q = T /\ i = n
  <2>1. ASSUME NEW q \in DOMAIN D \cup {T}, NEW i \in Nat, Append(q, Item(i)) = U
        PROVE  q = T /\ i = n
    <3>1. q = T /\ Item(i) = Item(n)
      BY <1>1, <1>2, <1>3, <2>1, AppendOnce
    <3> QED BY <3>1, <1>1
  <2> QED BY <2>1
<1>6. U # T
  BY <1>4
<1>7. DOMAIN B = DOMAIN D \cup {T} /\ B[T] = d /\ \A q \in DOMAIN D : q # T => B[q] = D[q]
  BY DEF Define
<1> HIDE DEF B
<1>8. DOMAIN C = DOMAIN B \cup {U} /\ C[U] = e /\ \A q \in DOMAIN B : q # U => C[q] = B[q]
  BY DEF Define
<1> HIDE DEF C, U
<1>9. U \notin DOMAIN D
  BY DEF U
<1>10. ASSUME NEW q \in DOMAIN C, C[q].how = "array"
       PROVE  /\ C[q].tables \in Nat \ {0}
              /\ \A i \in Nat : Append(q, Item(i)) \in DOMAIN C => C[Append(q, Item(i))].how = "table"
  <2>1. q \in DOMAIN D \cup {T} /\ q # U
    BY <1>7, <1>8, <1>10
  <2>2. CASE q = T
    <3>1. C[T] = d
      BY <1>6, <1>7, <1>8
    <3>2. ASSUME NEW i \in Nat, Append(T, Item(i)) \in DOMAIN C
          PROVE  C[Append(T, Item(i))].how = "table"
      <4>1. CASE Append(T, Item(i)) = U
        BY <4>1, <1>8
      <4>2. CASE Append(T, Item(i)) # U
        <5>1. Append(T, Item(i)) # T
          BY <1>4
        <5>2. Append(T, Item(i)) \in DOMAIN D
          BY <3>2, <4>2, <5>1, <1>7, <1>8
        <5>3. C[Append(T, Item(i))] = D[Append(T, Item(i))]
          BY <4>2, <5>1, <5>2, <1>7, <1>8
        <5> QED BY <5>2, <5>3
      <4> QED BY <4>1, <4>2
    <3> QED BY <2>2, <3>1, <3>2
  <2>3. CASE q # T
    <3>1. q \in DOMAIN D /\ C[q] = D[q]
      BY <2>1, <2>3, <1>7, <1>8
    <3>2. D[q].tables \in Nat \ {0}
          /\ \A i \in Nat : Append(q, Item(i)) \in DOMAIN D => D[Append(q, Item(i))].how = "table"
      BY <1>10, <3>1 DEF Arrayed
    <3>3. ASSUME NEW i \in Nat, Append(q, Item(i)) \in DOMAIN C
          PROVE  C[Append(q, Item(i))].how = "table"
      <4>1. Append(q, Item(i)) # T /\ Append(q, Item(i)) # U
        BY <1>4, <1>5, <2>1, <2>3
      <4>2. Append(q, Item(i)) \in DOMAIN D
        BY <3>3, <4>1, <1>7, <1>8
      <4>3. C[Append(q, Item(i))] = D[Append(q, Item(i))]
        BY <4>1, <4>2, <1>7, <1>8
      <4> QED BY <4>2, <4>3, <3>2
    <3> QED BY <3>1, <3>2, <3>3
  <2> QED BY <2>2, <2>3
<1>11. Arrayed(C)
  BY <1>10 DEF Arrayed
<1> QED BY <1>11 DEF C, B, U

\* The definitions of a value go below a path that is no array.
LEMMA ArrayedJoin ==
  ASSUME NEW D, Arrayed(D), NEW E, Arrayed(E), NEW R, Closed(DOMAIN D, R),
         NEW p \in DOMAIN D, D[p].how # "array", NEW s \in AllSteps,
         Closed(DOMAIN E, Append(p, s)), Append(p, s) \notin DOMAIN D
  PROVE  Arrayed(Join(D, E))
<1> DEFINE T == Append(p, s)
           C == Join(D, E)
<1>1. DOMAIN D \cap DOMAIN E = {}
  BY PathsApart
<1>2. /\ DOMAIN C = DOMAIN D \cup DOMAIN E /\ (\A q \in DOMAIN E : C[q] = E[q])
      /\ \A q \in DOMAIN D : C[q] = D[q]
  <2>1. C = [q \in DOMAIN D \cup DOMAIN E |-> IF q \in DOMAIN E THEN E[q] ELSE D[q]]
    BY DEF Join
  <2> HIDE DEF C
  <2> QED BY <1>1, <2>1
<1>3. /\ \A q \in DOMAIN D : q \in Seq(AllSteps) /\ Len(R) <= Len(q)
      /\ \A q \in DOMAIN D : \A n \in Len(R)..Len(q) : SubSeq(q, 1, n) \in DOMAIN D
      /\ R \in DOMAIN D
  BY DEF Closed
<1>4. /\ \A q \in DOMAIN E : q \in Seq(AllSteps) /\ Len(T) <= Len(q) /\ SubSeq(q, 1, Len(T)) = T
      /\ \A q \in DOMAIN E : \A n \in Len(T)..Len(q) : SubSeq(q, 1, n) \in DOMAIN E
  BY DEF Closed
<1>5. p \in Seq(AllSteps) /\ Len(T) = Len(p) + 1 /\ Len(p) \in Nat /\ T \in Seq(AllSteps)
      /\ SubSeq(T, 1, Len(T)) = T
  <2>1. p \in Seq(AllSteps)
    BY <1>3
  <2> QED BY <2>1, AppendPath
<1>6. Len(R) \in Nat /\ Len(R) <= Len(p)
  BY <1>3, LenProperties
<1>7. \A n \in Nat : Item(n) \in AllSteps
  BY StepsApart
<1> HIDE DEF C
<1>8. ASSUME NEW q \in DOMAIN D, NEW n \in Nat, Append(q, Item(n)) \in DOMAIN E
      PROVE  q = p
  <2> DEFINE b == Append(q, Item(n))
  <2>1. q \in Seq(AllSteps) /\ Item(n) \in AllSteps
    BY <1>3, <1>7
  <2>2. Len(b) = Len(q) + 1 /\ Len(q) \in Nat /\ SubSeq(b, 1, Len(q)) = q
        /\ SubSeq(b, 1, Len(q) + 1) = b
    BY <2>1, AppendPath
  <2>3. Len(T) <= Len(b) /\ SubSeq(b, 1, Len(T)) = T
    BY <1>4, <1>8
  <2>4. CASE Len(T) = Len(b)
    <3>1. b = T
      BY <2>2, <2>3, <2>4
    <3> QED BY <3>1, <2>1, <1>5, AppendOnce
  <2>5. CASE Len(T) # Len(b)
    <3>1. Len(q) \in Len(T)..Len(b)
      BY <2>2, <2>3, <2>5, <1>5
    <3>2. q \in DOMAIN E
      BY <3>1, <2>2, <1>4, <1>8
    <3> QED BY <3>2, <1>1
  <2> QED BY <2>4, <2>5
<1>9. ASSUME NEW q \in DOMAIN E, NEW n \in Nat, Append(q, Item(n)) \in DOMAIN D
      PROVE  FALSE
  <2> DEFINE b == Append(q, Item(n))
  <2>1. q \in Seq(AllSteps) /\ Item(n) \in AllSteps /\ Len(T) <= Len(q)
    BY <1>4, <1>7
  <2>2. Len(b) = Len(q) + 1 /\ Len(q) \in Nat /\ SubSeq(b, 1, Len(q)) = q
    BY <2>1, AppendPath
  <2>3. Len(q) \in Len(R)..Len(b)
    BY <2>1, <2>2, <1>5, <1>6
  <2>4. q \in DOMAIN D
    BY <1>3, <1>9, <2>2, <2>3
  <2> QED BY <2>4, <1>1
<1>10. ASSUME NEW q \in DOMAIN C, C[q].how = "array"
       PROVE  /\ C[q].tables \in Nat \ {0}
              /\ \A n \in Nat : Append(q, Item(n)) \in DOMAIN C => C[Append(q, Item(n))].how = "table"
  <2>1. CASE q \in DOMAIN D
    <3>1. C[q] = D[q] /\ q # p
      BY <1>2, <1>10, <2>1
    <3>2. D[q].tables \in Nat \ {0}
          /\ \A n \in Nat : Append(q, Item(n)) \in DOMAIN D => D[Append(q, Item(n))].how = "table"
      BY <1>10, <2>1, <3>1 DEF Arrayed
    <3>3. \A n \in Nat : Append(q, Item(n)) \in DOMAIN C => Append(q, Item(n)) \in DOMAIN D
      BY <1>2, <1>8, <2>1, <3>1
    <3> QED BY <3>1, <3>2, <3>3, <1>2
  <2>2. CASE q \in DOMAIN E
    <3>1. C[q] = E[q]
      BY <1>2, <2>2
    <3>2. E[q].tables \in Nat \ {0}
          /\ \A n \in Nat : Append(q, Item(n)) \in DOMAIN E => E[Append(q, Item(n))].how = "table"
      BY <1>10, <2>2, <3>1 DEF Arrayed
    <3>3. \A n \in Nat : Append(q, Item(n)) \in DOMAIN C => Append(q, Item(n)) \in DOMAIN E
      BY <1>2, <1>9, <2>2
    <3> QED BY <3>1, <3>2, <3>3, <1>2
  <2> QED BY <2>1, <2>2, <1>2
<1>11. Arrayed(C)
  BY <1>10 DEF Arrayed
<1> QED BY <1>11 DEF C

\* A key that is not defined makes a node, and the definitions of its path. The heap is m
\* after it and the node c. Steps and definitions have names here that say what they do to
\* a path and not how, so that the lemmas about them can be cited.
Creates(m, c, ns, t, k, node) ==
  m = Created(At(ns, t), k, node).nodes /\ c = Created(At(ns, t), k, node).id
Goes(p, k, T) == T = Append(p, Step(k))
Lacks(known, j, T) == T \notin DOMAIN known[j].defined
Defines(more, known, j, T, e) == Redefines(more, known, j, Define(known[j].defined, T, e))
KeepsItems(ns, m) == \A x \in Ids(ns) : m[x].items = ns[x].items
Holds(m, c, node) == c \in Ids(m) /\ m[c] = node

\* A new node for a new key: the layers have one path more.
LEMMA KeyLayers ==
  ASSUME NEW ns, Heap(ns), FaultlessIn(ns), NEW roots, Forest(ns, roots),
         NEW known, IsKnown(known), NEW stack, NEW fs, Layers(ns, known, stack, fs),
         NEW j \in 1..Len(stack), NEW p, NEW t, Finds(known, fs, j, p, t),
         IsTable(ns, t), NEW k \in Keys, NEW T, Goes(p, k, T), Lacks(known, j, T),
         NEW node, IsFresh(node), NEW e, Suits(node, e),
         NEW more, Defines(more, known, j, T, e),
         NEW m, NEW c, Creates(m, c, ns, t, k, node)
  PROVE  /\ Heap(m) /\ FaultlessIn(m) /\ Forest(m, roots) /\ KeepsItems(ns, m) /\ Holds(m, c, node)
         /\ \E gs : /\ Layers(m, more, stack, gs) /\ Extends(stack, more, gs, known, fs)
                    /\ Finds(more, gs, j, T, c)
<1> DEFINE D == known[j].defined
           s == Step(k)
           new == Append(ns, node)
<1>0. PICK kind \in Kinds, header \in BOOLEAN : node = Node(kind, header)
  BY DEF IsFresh
<1>1. Layer(ns, D, known[j].path, stack[j].id, fs[j])
  BY LayersAre
<1>2. p \in DOMAIN D /\ fs[j][p] = t /\ T = Append(p, s) /\ T \notin DOMAIN D
  BY DEF Finds, Goes, Lacks
<1>3. ns[t].errors = {} /\ t \in Ids(ns)
  <2>1. t \in Ids(ns)
    BY <1>2, LayersAre
  <2> QED BY <2>1 DEF FaultlessIn
<1>4. /\ s \in AllSteps /\ ~Has(ns, t, k) /\ p \in Seq(AllSteps)
  BY <1>1, <1>2, <1>3, FoundNode
<1>5. /\ Heap(m) /\ Forest(m, roots) /\ c = Len(ns) + 1 /\ c \in Ids(m) /\ m[c] = node
      /\ Links(new, m, t, s, c) /\ m[t].items = ns[t].items
  <2>1. m = Created(At(ns, t), k, Node(kind, header)).nodes
        /\ c = Created(At(ns, t), k, Node(kind, header)).id
    BY <1>0 DEF Creates
  <2> QED BY <1>0, <1>3, <1>4, <2>1, CreatedNode DEF Grows
<1>6. /\ \A x \in Ids(ns) : new[x] = ns[x]
      /\ Len(new) = Len(ns) + 1
  BY <1>0, NewNode
<1>7. FaultlessIn(m)
  BY <1>0, <1>5, FaultlessNew, FaultlessLink
<1>8. KeepsItems(ns, m)
  <2>1. Ids(ns) \subseteq Ids(new)
    BY <1>6, HeapTypes DEF Ids
  <2>2. \A x \in Ids(ns) : x # t => m[x] = ns[x]
    BY <1>5, <1>6, <2>1 DEF Links, But
  <2> QED BY <2>2, <1>5 DEF KeepsItems
<1>9. Suits(m[t], D[p])
  <2>1. Suits(ns[t], D[p])
    BY <1>1, <1>2, LayerIds
  <2>2. m[t].kind = ns[t].kind /\ m[t].header = ns[t].header
    BY <1>3, <1>5, <1>6 DEF Links
  <2> QED BY <2>1, <2>2, <1>5 DEF Suits
<1>10. Define(Define(D, p, D[p]), T, e) = Define(D, T, e)
  BY <1>2, DefineSame
<1> HIDE DEF new, s
<1>11. Redefines(more, known, j, Define(Define(D, p, D[p]), Append(p, s), e))
  BY <1>2, <1>10 DEF Defines
<1>12. Links(new, m, fs[j][p], s, c) /\ Appends(ns, node, new)
  BY <1>2, <1>5 DEF new, Appends
<1>13. Suits(m[fs[j][p]], D[p]) /\ Append(p, s) \notin DOMAIN D
  BY <1>2, <1>9
<1>14. \E gs :
         /\ Layers(m, more, stack, gs) /\ Extends(stack, more, gs, known, fs)
         /\ Finds(more, gs, j, Append(p, s), c)
  <2>1. /\ Heap(ns) /\ Heap(m) /\ Layers(ns, known, stack, fs) /\ s \in AllSteps
        /\ j \in 1..Len(stack) /\ p \in DOMAIN D /\ c = Len(ns) + 1
        /\ IsFresh(node) /\ Suits(node, e)
    BY <1>2, <1>4, <1>5
  <2> QED BY ONLY <1>11, <1>12, <1>13, <2>1, GrowLayers
<1>15. \E gs :
         /\ Layers(m, more, stack, gs) /\ Extends(stack, more, gs, known, fs)
         /\ Finds(more, gs, j, T, c)
  BY ONLY <1>2, <1>14
<1>16. Holds(m, c, node)
  BY <1>5 DEF Holds
<1> QED BY ONLY <1>5, <1>7, <1>8, <1>15, <1>16

\* The definitions are the same, and so are the layers.
LEMMA SameDefinitions ==
  ASSUME NEW ns, NEW known, NEW stack, NEW fs, Layers(ns, known, stack, fs),
         NEW j \in 1..Len(stack), NEW more, NEW D, Redefines(more, known, j, D), D = known[j].defined
  PROVE  Layers(ns, more, stack, fs) /\ Extends(stack, more, fs, known, fs)
<1>1. \A i \in 1..Len(stack) : /\ more[i].path = known[i].path
                               /\ more[i].defined = known[i].defined
  BY DEF Redefines, Layers
<1>2. Len(more) = Len(known)
  BY DEF Redefines
<1>3. Layers(ns, more, stack, fs)
  BY <1>1, <1>2, SameLayers
<1> QED BY <1>1, <1>3 DEF Extends

\* Arrays of tables stay such arrays when one set of definitions does.
LEMMA ArrayedMore ==
  ASSUME NEW ns, NEW known, NEW stack, NEW fs, Layers(ns, known, stack, fs),
         \A i \in 1..Len(known) : Arrayed(known[i].defined),
         NEW j \in 1..Len(stack), NEW defined, Arrayed(defined),
         NEW more, Redefines(more, known, j, defined)
  PROVE  \A i \in 1..Len(more) : Arrayed(more[i].defined)
BY DEF Redefines

-----------------------------------------------------------------------------
(* The verdict: one lemma for each action *)

\* A text that is rejected needs an error, and nothing else.
LEMMA RejectedVerdict ==
  ASSUME toml' = Rejected, Faulty'
  PROVE  Verdict'
BY DEF Verdict, Rejected

\* A text that is not rejected needs all the rest.
LEMMA TrueVerdict ==
  ASSUME toml'.verdict \in {"valid", "tolerated"}, IsToml(toml)', Placed', FaultlessIn(nodes'),
         NEW gs, Described(gs)'
  PROVE  Verdict'
<1>1. Faultless'
  BY DEF Faultless, FaultlessIn
<1>2. (\E fs : Described(fs))'
  OBVIOUS
<1> QED BY <1>1, <1>2 DEF Verdict

\* What holds while the text is valid.
LEMMA TrueState ==
  ASSUME IInv, toml.verdict # "invalid"
  PROVE  /\ toml.verdict \in {"valid", "tolerated"} /\ IsToml(toml) /\ FaultlessIn(nodes)
         /\ IsKnown(toml.known) /\ Len(toml.known) = Len(reading) /\ Len(reading) \in Nat
         /\ 1 \in 1..Len(reading) /\ Len(reading) \in 1..Len(reading)
         /\ Heap(nodes) /\ Forest(nodes, Roots(reading)) /\ Placed
         /\ \E fs : Described(fs)
<1>1. Len(reading) \in Nat /\ 1 \in 1..Len(reading) /\ Len(reading) \in 1..Len(reading)
  BY StackTypes DEF IInv, Shape
<1>2. \E fs : Described(fs)
  BY DEF IInv, Verdict
<1>3. IsKnown(toml.known) /\ Len(toml.known) = Len(reading)
  BY <1>2 DEF Described, Layers
<1> QED BY <1>1, <1>2, <1>3 DEF IInv, Verdict, Shape, Faultless, FaultlessIn

\* The layer of the document itself.
LEMMA RootLayer ==
  ASSUME IInv, toml.verdict # "invalid", NEW fs, Described(fs)
  PROVE  /\ Layer(nodes, toml.known[1].defined, << >>, Root, fs[1])
         /\ << >> \in DOMAIN toml.known[1].defined /\ fs[1][<< >>] = Root
         /\ Layers(nodes, toml.known, reading, fs) /\ Located(fs)
         /\ \A i \in 1..Len(toml.known) : Arrayed(toml.known[i].defined)
<1>1. reading[1].id = Root /\ toml.known[1].path = << >> /\ 1 \in 1..Len(reading)
  BY TrueState DEF IInv, Shape, Stacked, Placed
<1>2. /\ Layers(nodes, toml.known, reading, fs) /\ Located(fs)
      /\ \A i \in 1..Len(toml.known) : Arrayed(toml.known[i].defined)
  BY DEF Described
<1>3. Layer(nodes, toml.known[1].defined, << >>, Root, fs[1])
  BY <1>1, <1>2, LayersAre
<1> QED BY <1>2, <1>3, LayerIds

\* A header begins, and so does the path that it defines.
LEMMA HeaderVerdict ==
  ASSUME IInv, NEW kind \in {"table", "tables"}, NEW path \in Paths, Header(kind, path)
  PROVE  Verdict'
<1>1. /\ nodes' = nodes /\ reading' = reading /\ current' = current /\ pc' = kind
      /\ walk' = [id |-> Root, keys |-> path] /\ toml' = [toml EXCEPT !.place = << >>]
      /\ Len(reading) = 1
  BY DEF Header, tree, Statement, BetweenStatements
<1>2. Faulty => Faulty'
  BY HeaderShape DEF IInv
<1>3. CASE toml.verdict = "invalid"
  <2>1. toml = Rejected /\ Faulty
    BY <1>3 DEF IInv, Verdict
  <2>2. toml' = Rejected
    BY <1>1, <2>1 DEF Rejected
  <2> QED BY <1>2, <2>1, <2>2, RejectedVerdict
<1>4. CASE toml.verdict # "invalid"
  <2>1. /\ toml.verdict \in {"valid", "tolerated"} /\ IsToml(toml) /\ FaultlessIn(nodes)
        /\ IsKnown(toml.known) /\ Len(toml.known) = Len(reading)
        /\ toml.known[1].path = << >>
    BY <1>4, TrueState DEF Placed
  <2>2. PICK fs : Described(fs)
    BY <1>4, TrueState
  <2>3. /\ << >> \in DOMAIN toml.known[1].defined /\ fs[1][<< >>] = Root
        /\ Layers(nodes, toml.known, reading, fs) /\ Located(fs)
        /\ \A i \in 1..Len(toml.known) : Arrayed(toml.known[i].defined)
    BY <1>4, <2>2, RootLayer
  <2>4. toml' = [verdict |-> toml.verdict, known |-> toml.known,
                 section |-> toml.section, place |-> << >>]
    BY <1>1, <2>1 DEF IsToml
  <2>5. /\ toml'.verdict = toml.verdict /\ toml'.known = toml.known
        /\ toml'.section = toml.section /\ toml'.place = << >>
    BY ONLY <2>4
  <2>6. IsToml(toml)'
    BY ONLY <2>4, <2>5 DEF IsToml
  <2>7. Placed'
    BY <1>1, <2>1, <2>5 DEF Placed
  <2>8. Located(fs)'
    <3>1. pc' # "entry" /\ walk'.id = Root
      BY <1>1
    <3>2. toml.section \in DOMAIN toml.known[1].defined /\ fs[1][toml.section] = current
      BY <2>3 DEF Located
    <3> QED BY ONLY <1>1, <2>3, <2>5, <3>1, <3>2 DEF Located
  <2>9. Described(fs)'
    BY <1>1, <2>1, <2>3, <2>5, <2>8 DEF Described
  <2> QED BY <1>1, <2>1, <2>5, <2>6, <2>7, <2>9, TrueVerdict
<1> QED BY <1>3, <1>4

\* The keys of an entry begin where its table stands.
LEMMA EntryKeysVerdict ==
  ASSUME IInv, EntryKeys
  PROVE  Verdict'
<1> DEFINE n == Len(reading) - 1
<1>1. /\ nodes' = nodes /\ reading' = reading /\ current' = current /\ pc' = "entry"
      /\ walk' = [id |-> IF n = 1 THEN current ELSE reading[n].id, keys |-> Top.keys]
      /\ toml' = IF toml.verdict = "invalid" THEN toml ELSE [toml EXCEPT !.place = Below(n)]
      /\ Complete /\ Top.keys # << >>
  BY DEF EntryKeys, tree
<1>2. Faulty => Faulty'
  BY EntryKeysShape DEF IInv
<1>3. CASE toml.verdict = "invalid"
  <2>1. toml = Rejected /\ Faulty
    BY <1>3 DEF IInv, Verdict
  <2>2. toml' = Rejected
    BY <1>1, <1>3, <2>1
  <2> QED BY <1>2, <2>1, <2>2, RejectedVerdict
<1>4. CASE toml.verdict # "invalid"
  <2>1. /\ toml.verdict \in {"valid", "tolerated"} /\ IsToml(toml) /\ FaultlessIn(nodes)
        /\ IsKnown(toml.known) /\ Len(toml.known) = Len(reading) /\ Placed
    BY <1>4, TrueState
  <2>2. PICK fs : Described(fs)
    BY <1>4, TrueState
  <2>3. /\ Layers(nodes, toml.known, reading, fs) /\ Located(fs)
        /\ \A i \in 1..Len(toml.known) : Arrayed(toml.known[i].defined)
    BY <1>4, <2>2, RootLayer
  <2>4. toml' = [verdict |-> toml.verdict, known |-> toml.known,
                 section |-> toml.section, place |-> Below(n)]
    BY <1>1, <1>4, <2>1 DEF IsToml
  <2>5. /\ toml'.verdict = toml.verdict /\ toml'.known = toml.known
        /\ toml'.section = toml.section /\ toml'.place = Below(n)
    BY ONLY <2>4
  <2>6. IsToml(toml)'
    BY ONLY <2>4, <2>5 DEF IsToml
  <2>7. Placed'
    BY <1>1, <2>1, <2>5 DEF Placed, Below
  <2>8. /\ Len(reading) \in 2..Len(reading) /\ Len(reading) > 1 /\ Len(reading) \in Nat
    BY <1>1, CompleteKind, TopIsValue DEF IInv
  <2>9. n \in 1..Len(reading) /\ Len(reading) = n + 1
    BY <2>8
  <2>10. toml.section \in DOMAIN toml.known[1].defined /\ fs[1][toml.section] = current
    BY <2>3 DEF Located
  <2>11. /\ toml.known[n].path \in DOMAIN toml.known[n].defined
         /\ fs[n][toml.known[n].path] = reading[n].id
    <3>1. Layer(nodes, toml.known[n].defined, toml.known[n].path, reading[n].id, fs[n])
      BY <2>3, <2>9, LayersAre
    <3> QED BY <3>1, LayerIds
  <2>12. Below(n) \in DOMAIN toml.known[n].defined /\ fs[n][Below(n)] = walk'.id
    <3>1. CASE n = 1
      BY <1>1, <2>10, <3>1 DEF Below
    <3>2. CASE n # 1
      BY <1>1, <2>11, <3>2 DEF Below
    <3> QED BY <3>1, <3>2
  <2>13. toml.known[n + 1].path = Below(n) \o Steps(walk'.keys)
    <3>1. toml.known[Len(reading)].path = Below(Len(reading) - 1) \o Steps(reading[Len(reading)].keys)
      BY <1>1, <2>1, <2>8 DEF Placed, Top
    <3> QED BY <1>1, <2>9, <3>1 DEF Top
  <2>14. Located(fs)'
    BY ONLY <1>1, <2>5, <2>10, <2>12, <2>13 DEF Located
  <2>15. Described(fs)'
    BY <1>1, <2>1, <2>3, <2>5, <2>14 DEF Described
  <2> QED BY <1>1, <2>1, <2>5, <2>6, <2>7, <2>15, TrueVerdict
<1> QED BY <1>3, <1>4

\* The empty document has one layer, of the root.
LEMMA InitVerdict ==
  ASSUME Init
  PROVE  Verdict
<1> DEFINE node == Node("regular", FALSE)
           f == [q \in {<< >>} |-> Root]
           D == [p \in {<< >>} |-> Def("table")]
           known == <<[path |-> << >>, defined |-> D]>>
<1>1. /\ nodes = <<node>> /\ current = Root /\ reading = <<Document>> /\ pc = "read"
      /\ toml = [verdict |-> "valid", section |-> << >>, place |-> << >>, known |-> known]
  BY DEF Init
<1>2. node.kind = "regular" /\ node.errors = {} /\ node.all = << >> /\ node.items = << >>
  <2>1. "regular" \in Kinds /\ FALSE \in BOOLEAN
    BY KindsAre
  <2> QED BY <2>1, NewRecord
<1> HIDE DEF node
<1>3. Len(nodes) = 1 /\ nodes[1] = node /\ Len(reading) = 1 /\ reading[1] = Document
  BY <1>1
<1>4. Ids(nodes) = {1} /\ Root \in Ids(nodes) /\ Root = 1
  BY <1>3 DEF Ids, Root
<1>5. \A s, y : ~Edge(nodes, Root, s, y)
  BY <1>2, <1>3, <1>4 DEF Edge
<1>6. Def("table").how = "table" /\ Suits(nodes[Root], Def("table"))
  <2>1. Def("table").how = "table"
    BY DEF Def
  <2> QED BY <2>1, <1>2, <1>3, <1>4 DEF Suits, Hows
<1>7. << >> \in Seq(AllSteps)
  BY EmptySeq
<1>8. Layer(nodes, D, << >>, Root, f)
  <2> DEFINE R == << >>
             e == Def("table")
             r == Root
  <2>1. /\ r \in Ids(nodes) /\ (\A s, y : ~Edge(nodes, r, s, y)) /\ R \in Seq(AllSteps)
        /\ Suits(nodes[r], e)
    BY <1>4, <1>5, <1>6, <1>7
  <2> HIDE DEF R, e, r
  <2>2. Layer(nodes, [q \in {R} |-> e], R, r, [q \in {R} |-> r])
    BY ONLY <2>1, LayerNew
  <2> QED BY <2>2 DEF R, e, r
<1>9. DOMAIN D = {<< >>} /\ D[<< >>] = Def("table") /\ f[<< >>] = Root
  OBVIOUS
<1>10. Arrayed(D)
  BY <1>6, <1>9 DEF Arrayed
<1> HIDE DEF D, f
<1>11. /\ Len(known) = 1 /\ known[1].path = << >> /\ known[1].defined = D
       /\ known[1] = [path |-> known[1].path, defined |-> known[1].defined]
       /\ known = [i \in 1..Len(known) |-> known[i]]
  OBVIOUS
<1> HIDE DEF known
<1>12. IsKnown(known)
  BY <1>11 DEF IsKnown
<1>13. /\ toml.verdict = "valid" /\ toml.section = << >> /\ toml.place = << >> /\ toml.known = known
       /\ IsToml(toml)
  <2>1. toml.verdict = "valid" /\ toml.section = << >> /\ toml.place = << >> /\ toml.known = known
    BY <1>1
  <2> QED BY <1>1, <2>1 DEF IsToml
<1>14. Document.id = Root
  BY DEF Document
<1> DEFINE fs == [i \in {1} |-> f]
<1>15. fs[1] = f
  OBVIOUS
<1> HIDE DEF fs
<1>16. Layers(nodes, known, reading, fs)
  BY <1>3, <1>8, <1>11, <1>14, <1>15 DEF Layers
<1>17. Described(fs)
  <2>1. Located(fs)
    BY <1>1, <1>9, <1>11, <1>13, <1>15 DEF Located
  <2>2. \A i \in 1..Len(toml.known) : Arrayed(toml.known[i].defined)
    <3>1. Len(toml.known) = 1 /\ toml.known[1].defined = D
      BY <1>11, <1>13
    <3>2. \A i \in 1..Len(toml.known) : i = 1
      BY <3>1
    <3> QED BY ONLY <1>10, <3>1, <3>2
  <2>3. IsKnown(toml.known) /\ Layers(nodes, toml.known, reading, fs)
    BY <1>12, <1>13, <1>16
  <2> QED BY ONLY <2>1, <2>2, <2>3 DEF Described
<1>18. Placed
  BY <1>3, <1>11, <1>13 DEF Placed
<1>19. Faultless
  BY <1>2, <1>3, <1>4 DEF Faultless
<1> QED BY <1>13, <1>17, <1>18, <1>19 DEF Verdict

\* A value begins.
LEMMA BeginVerdict ==
  ASSUME IInv, pc = "read", NEW keys \in Seq(Keys), NEW value \in Values, Begin(keys, value),
         keys = << >> => Top.value.kind = "list",
         keys # << >> => Len(reading) = 1 \/ Top.value.kind = "inline"
  PROVE  Verdict'
<1> DEFINE n == Len(reading)
           c == Len(nodes) + 1
           node == Node(value.kind, FALSE)
           frame == [id |-> c, value |-> value, keys |-> keys, next |-> 1]
           R == IF keys = << >> THEN Append(toml.known[n].path, Item(reading[n].next))
                ELSE Below(n) \o Steps(keys)
           e == Def(value.kind)
           D == [q \in {R} |-> e]
<1>1. /\ nodes' = Append(nodes, node) /\ current' = current /\ pc' = pc
      /\ reading' = Append(reading, frame)
      /\ toml' = IF toml.verdict = "invalid" THEN toml
                 ELSE [toml EXCEPT !.known = Append(@, [path |-> R, defined |-> D])]
  BY DEF Begin, RuleValue
<1>2. Faulty => Faulty'
  BY BeginShape DEF IInv
<1>3. CASE toml.verdict = "invalid"
  <2>1. toml = Rejected /\ Faulty
    BY <1>3 DEF IInv, Verdict
  <2>2. toml' = Rejected
    BY <1>1, <1>3, <2>1
  <2> QED BY <1>2, <2>1, <2>2, RejectedVerdict
<1>4. CASE toml.verdict # "invalid"
  <2>1. /\ toml.verdict \in {"valid", "tolerated"} /\ IsToml(toml) /\ FaultlessIn(nodes)
        /\ IsKnown(toml.known) /\ Len(toml.known) = n /\ Placed /\ n \in Nat
        /\ 1 \in 1..n /\ n \in 1..n /\ Heap(nodes) /\ Forest(nodes, Roots(reading))
    BY <1>4, TrueState
  <2>2. PICK fs : Described(fs)
    BY <1>4, TrueState
  <2>3. /\ Layers(nodes, toml.known, reading, fs) /\ Located(fs)
        /\ \A i \in 1..Len(toml.known) : Arrayed(toml.known[i].defined)
    BY <1>4, <2>2, RootLayer
  <2>4. /\ value.kind \in {"scalar", "inline", "list"} /\ value.kind \in Kinds
        /\ value.kind # "document"
    BY ValueKinds
  <2>5. toml' = [toml EXCEPT !.known = Append(@, [path |-> R, defined |-> D])]
    BY <1>1, <1>4
  <2>6. \A i \in 1..n : reading[i].id \in Ids(nodes) /\ reading[i].next \in Nat
    <3>1. ASSUME NEW i \in 1..n PROVE reading[i].id \in Ids(nodes) /\ reading[i].next \in Nat
      <4>1. reading[i].id \in Ids(nodes)
        BY <2>1, <3>1, RootIds
      <4>2. reading[i].next \in Nat
        <5>1. CASE i = 1
          BY <5>1 DEF IInv, Shape, Stacked
        <5>2. CASE i # 1
          <6>1. i \in 2..n
            BY <2>1, <3>1, <5>2
          <6> QED BY <6>1 DEF IInv, Shape, Stacked, IsFrame
        <5> QED BY <5>1, <5>2
      <4> QED BY <4>1, <4>2
    <3> QED BY <3>1
  <2>7. toml.section \in DOMAIN toml.known[1].defined /\ fs[1][toml.section] = current
    BY <2>3 DEF Located
  <2>8. R \in Seq(AllSteps)
    <3>1. toml.known[n].path \in Seq(AllSteps) /\ toml.section \in Seq(AllSteps)
      <4>1. Layer(nodes, toml.known[n].defined, toml.known[n].path, reading[n].id, fs[n])
        BY <2>1, <2>3, LayersAre
      <4>2. toml.known[n].path \in Seq(AllSteps)
        BY <4>1, LayerIds
      <4>3. toml.section \in Seq(AllSteps)
        BY <2>1, <2>3, <2>7, LayersAre
      <4> QED BY <4>2, <4>3
    <3>2. CASE keys = << >>
      <4>1. Item(reading[n].next) \in AllSteps
        BY <2>1, <2>6, StepsApart
      <4> QED BY <3>1, <3>2, <4>1, AppendPath
    <3>3. CASE keys # << >>
      <4>1. keys \in Dotted /\ Below(n) \in Seq(AllSteps)
        BY <3>1, <3>3 DEF Dotted, Below
      <4>2. Below(n) \o Steps(keys) \in Seq(AllSteps)
        BY <4>1, PathConcat
      <4> QED BY <3>3, <4>2
    <3> QED BY <3>2, <3>3
  <2>9. /\ IsToml(toml') /\ toml'.verdict = toml.verdict /\ toml'.section = toml.section
        /\ toml'.place = toml.place /\ Begins(toml'.known, toml.known, R, D)
    <3>1. Widens(toml, toml', R, D)
      BY <2>5 DEF Widens
    <3> HIDE DEF R, D
    <3> QED BY <2>1, <3>1, TomlAppend
  <2>10. /\ Len(reading') = n + 1 /\ reading'[n + 1] = frame
         /\ \A i \in 1..n : reading'[i] = reading[i]
    <3> DEFINE S == {reading[i] : i \in 1..n} \cup {frame}
    <3>1. reading \in Seq(S)
      <4>1. reading \in Seq({reading[i] : i \in 1..n})
        BY StackTypes DEF IInv, Shape
      <4> QED BY <4>1
    <3>2. frame \in S
      OBVIOUS
    <3> HIDE DEF S, frame
    <3> QED BY <1>1, <3>1, <3>2, AppendProperties
  <2>11. frame.id = c /\ frame.value = value /\ frame.keys = keys /\ frame.next = 1
    OBVIOUS
  <2>12. /\ IsFresh(node) /\ node.kind = value.kind
    <3>1. FALSE \in BOOLEAN
      OBVIOUS
    <3> QED BY <2>4, <3>1, FreshIs, NewRecord
  <2>13. FaultlessIn(nodes')
    <3>1. FALSE \in BOOLEAN
      OBVIOUS
    <3> QED BY <1>1, <2>1, <2>4, <3>1, FaultlessNew
  <2>14. Suits(node, e)
    <3>1. e.how = value.kind
      BY DEF Def
    <3> HIDE DEF e, node
    <3> QED BY <2>4, <2>12, <3>1 DEF Suits, Hows
  <2>15. Appends(nodes, node, nodes')
    BY <1>1 DEF Appends
  <2> HIDE DEF frame, node
  <2>16. /\ nodes'[c].items = << >> /\ \A x \in Ids(nodes) : nodes'[x] = nodes[x]
    <3>1. c = Len(nodes) + 1
      OBVIOUS
    <3> HIDE DEF c
    <3>2. /\ nodes'[c] = node /\ node.items = << >>
          /\ \A x \in Ids(nodes) : nodes'[x] = nodes[x]
      BY ONLY <2>1, <2>12, <2>15, <3>1, FreshNode
    <3> QED BY <3>2
  <2>17. Pushes(reading', reading, c)
    BY <2>10, <2>11 DEF Pushes
  <2>18. PICK gs : /\ Layers(nodes', toml'.known, reading', gs)
                   /\ Extends(reading, toml'.known, gs, toml.known, fs)
    <3>1. Begins(toml'.known, toml.known, R, Single(R, e))
      BY <2>9 DEF Single
    <3> HIDE DEF R, e, D
    <3>2. c = Len(nodes) + 1 /\ n = Len(reading)
      OBVIOUS
    <3> HIDE DEF c, n
    <3> QED BY ONLY <2>1, <2>3, <2>8, <2>12, <2>14, <2>15, <2>17, <3>1, <3>2, BeganLayers
  <2>19. \A i \in 1..n + 1 : i \in 1..n \/ i = n + 1
    BY <2>1
  <2>20. /\ Len(toml'.known) = n + 1 /\ IsKnown(toml'.known)
         /\ \A i \in 1..n : /\ toml'.known[i].path = toml.known[i].path
                            /\ toml'.known[i].defined = toml.known[i].defined
         /\ toml'.known[n + 1].path = R /\ toml'.known[n + 1].defined = D
    BY <2>1, <2>9 DEF Begins
  <2>21. Arrayed(D)
    <3>1. DOMAIN D = {R} /\ D[R].how = value.kind
      BY DEF Def
    <3> HIDE DEF D, R
    <3> QED BY <2>4, <3>1 DEF Arrayed
  <2>22. \A i \in 1..Len(toml'.known) : Arrayed(toml'.known[i].defined)
    <3> HIDE DEF D
    <3> QED BY <2>1, <2>3, <2>19, <2>20, <2>21
  <2>23. Located(gs)'
    <3>1. 1 \in 1..Len(reading)
      BY <2>1
    <3>2. toml.section \in DOMAIN toml'.known[1].defined /\ gs[1][toml.section] = current
      BY <2>7, <2>18, <3>1 DEF Extends
    <3> QED BY <1>1, <2>9, <3>2 DEF Located
  <2>24. Described(gs)'
    BY <2>18, <2>20, <2>22, <2>23 DEF Described
  <2>25. Placed'
    <3>1. toml'.known[1].path = << >>
      BY <2>1, <2>20 DEF Placed
    <3>2. ASSUME NEW i \in 2..Len(reading')
          PROVE  /\ toml'.known[i].path =
                      IF reading'[i].keys = << >>
                      THEN Append(toml'.known[i - 1].path, Item(reading'[i - 1].next))
                      ELSE (IF i - 1 = 1 THEN toml'.section ELSE toml'.known[i - 1].path)
                             \o Steps(reading'[i].keys)
                 /\ reading'[i].value.kind = "list" =>
                      Len(nodes'[reading'[i].id].items) = reading'[i].next - 1
      <4>1. i \in 1..n + 1 /\ i - 1 \in 1..n
        BY <2>1, <2>10, <3>2
      <4>2. CASE i \in 1..n
        <5>1. i \in 2..n
          BY <2>1, <3>2, <4>2
        <5>2. reading'[i] = reading[i] /\ reading'[i - 1] = reading[i - 1]
              /\ toml'.known[i].path = toml.known[i].path
              /\ toml'.known[i - 1].path = toml.known[i - 1].path
              /\ nodes'[reading[i].id] = nodes[reading[i].id]
          BY <2>6, <2>10, <2>16, <2>20, <4>1, <4>2
        <5> QED BY <5>1, <5>2, <2>1, <2>9 DEF Placed, Below
      <4>3. CASE i = n + 1
        <5>1. i - 1 = n
          BY <2>1, <4>3
        <5>2. reading'[i] = frame /\ reading'[n] = reading[n] /\ toml'.known[n].path = toml.known[n].path
              /\ toml'.known[i].path = R
          BY <2>1, <2>10, <2>20, <4>3
        <5>3. reading'[i].keys = keys /\ nodes'[reading'[i].id].items = << >> /\ reading'[i].next = 1
          BY <2>11, <2>16, <5>2
        <5>4. Len(nodes'[reading'[i].id].items) = reading'[i].next - 1
          BY <5>3, EmptySeq
        <5> QED BY <5>1, <5>2, <5>3, <5>4, <2>9 DEF Below
      <4> QED BY <4>1, <4>2, <4>3, <2>19
    <3> QED BY <3>1, <3>2 DEF Placed, Below
  <2>26. IsToml(toml)' /\ toml'.verdict \in {"valid", "tolerated"}
    BY <2>1, <2>9
  <2> QED BY <2>13, <2>24, <2>25, <2>26, TrueVerdict
<1> QED BY <1>3, <1>4

-----------------------------------------------------------------------------
(* Headers *)

\* What makes a header's step keep the verdict: only the document is open.
LEMMA DocumentVerdict ==
  ASSUME toml'.verdict \in {"valid", "tolerated"}, IsToml(toml'), IsKnown(toml'.known),
         Len(reading') = 1, toml'.known[1].path = << >>, FaultlessIn(nodes'),
         NEW gs, Layers(nodes', toml'.known, reading', gs),
         \A i \in 1..Len(toml'.known) : Arrayed(toml'.known[i].defined),
         Finds(toml'.known, gs, 1, toml'.section, current'), pc' # "entry",
         pc' \in {"table", "tables"} => Finds(toml'.known, gs, 1, toml'.place, walk'.id)
  PROVE  Verdict'
<1>1. Placed'
  <2>1. \A i \in 2..1 : FALSE
    OBVIOUS
  <2> QED BY <2>1 DEF Placed
<1>2. Located(gs)'
  BY DEF Located, Finds
<1>3. Described(gs)'
  BY <1>2 DEF Described
<1>4. IsToml(toml)'
  OBVIOUS
<1> QED BY <1>1, <1>3, <1>4, TrueVerdict

\* Before a key of a header, while the text is valid.
LEMMA HeaderState ==
  ASSUME IInv, toml.verdict # "invalid", pc \in {"table", "tables"}, NEW fs, Described(fs)
  PROVE  /\ Len(reading) = 1 /\ Len(toml.known) = 1 /\ toml.known[1].path = << >>
         /\ walk.keys[1] \in Keys /\ walk.id \in Ids(nodes) /\ IsTable(nodes, walk.id)
         /\ Finds(toml.known, fs, 1, toml.section, current)
         /\ Finds(toml.known, fs, 1, toml.place, walk.id)
<1>1. Len(reading) = 1 /\ walk.keys \in Dotted /\ walk.id \in Ids(nodes) /\ IsTable(nodes, walk.id)
  BY DEF IInv, Shape, Walking, TableOf
<1>2. walk.keys[1] \in Keys
  BY <1>1, DottedKeys
<1>3. Len(toml.known) = 1 /\ toml.known[1].path = << >>
  BY <1>1, TrueState DEF Placed
<1>4. Located(fs)
  BY DEF Described
<1> QED BY <1>1, <1>2, <1>3, <1>4 DEF Located, Finds

\* What is found for a key of a header, by its status.
LEMMA FoundKind ==
  ASSUME NEW n, n \in NodeRec, NEW d, Suits(n, d)
  PROVE  /\ d.how \in Hows
         /\ d.how = "table" <=> n.kind = "regular"
         /\ d.how \in {"super", "reopened"} <=> n.kind = "pseudo" /\ n.header
         /\ d.how = "dotted" <=> n.kind = "pseudo" /\ ~n.header
         /\ d.how = "array" <=> n.kind = "tables"
         /\ d.how = "array" => d.tables = Len(n.items)
         /\ d.how = "scalar" <=> n.kind = "scalar"
         /\ d.how = "inline" <=> n.kind = "inline"
         /\ d.how = "list" <=> n.kind = "list"
<1>1. d.how \in {"table", "super", "reopened", "dotted", "array", "scalar", "inline", "list"}
  BY DEF Suits, Hows
<1>2. /\ d.how = "table" => n.kind = "regular"
      /\ d.how \in {"super", "reopened"} => n.kind = "pseudo" /\ n.header
      /\ d.how = "dotted" => n.kind = "pseudo" /\ ~n.header
      /\ d.how = "array" => n.kind = "tables" /\ d.tables = Len(n.items)
      /\ d.how \in {"scalar", "inline", "list"} => n.kind = d.how
  BY DEF Suits
<1>3. d.how \in Hows
  BY DEF Suits
<1> QED BY <1>1, <1>2, <1>3

\* The last item of an array of tables is the table that headers extend.
LEMMA LastItem ==
  ASSUME NEW ns, Heap(ns), NEW D, NEW R, NEW r, NEW f, Layer(ns, D, R, r, f), Arrayed(D),
         NEW p \in DOMAIN D, NEW x, f[p] = x, D[p].how = "array"
  PROVE  LET items == ns[x].items
             q == Append(p, Item(D[p].tables))
         IN /\ ns[x].kind = "tables" /\ Len(items) = D[p].tables /\ D[p].tables \in Nat \ {0}
            /\ items # << >> /\ q \in DOMAIN D /\ f[q] = items[Len(items)]
            /\ items[Len(items)] \in Ids(ns) /\ ns[items[Len(items)]].kind = "regular"
<1> DEFINE items == ns[x].items
           l == Len(items)
           q == Append(p, Item(l))
<1>1. x \in Ids(ns) /\ Suits(ns[x], D[p]) /\ p \in Seq(AllSteps)
  BY LayerIds
<1>2. ns[x] \in NodeRec /\ Agrees(ns[x], Len(ns))
  BY <1>1, HeapTypes
<1>3. ns[x].kind = "tables" /\ D[p].tables = l
  BY <1>1, <1>2, FoundKind
<1>4. D[p].tables \in Nat \ {0}
        /\ \A n \in Nat : Append(p, Item(n)) \in DOMAIN D => D[Append(p, Item(n))].how = "table"
  BY DEF Arrayed
<1>5. l \in Nat \ {0} /\ l \in 1..l /\ Item(l) \in AllSteps /\ items # << >>
  <2>1. l \in Nat \ {0}
    BY <1>3, <1>4
  <2>2. items # << >>
    BY <2>1, EmptySeq
  <2> HIDE DEF l, items
  <2> QED BY <2>1, <2>2, StepsApart
<1>6. Edge(ns, x, Item(l), items[l])
  BY <1>1, <1>5, Edges
<1>7. items[l] \in Ids(ns)
  BY <1>1, <1>6, Edges
<1>8. q \in DOMAIN D /\ f[q] = items[l]
  <2> DEFINE s == Item(l)
  <2>1. s \in AllSteps /\ Edge(ns, f[p], s, items[l])
    BY <1>5, <1>6
  <2> HIDE DEF s
  <2>2. Append(p, s) \in DOMAIN D /\ f[Append(p, s)] = items[l]
    BY <1>7, <2>1 DEF Layer
  <2> QED BY <2>2 DEF s
<1>9. D[q].how = "table"
  BY <1>4, <1>5, <1>8
<1>10. Suits(ns[items[l]], D[q]) /\ ns[items[l]] \in NodeRec
  BY <1>7, <1>8, LayerIds, HeapTypes
<1>11. ns[items[l]].kind = "regular"
  BY <1>9, <1>10, FoundKind
<1> QED BY <1>3, <1>4, <1>5, <1>7, <1>8, <1>11

\* A key of a header that is not the last one.
LEMMA HeaderKeyVerdict ==
  ASSUME IInv, HeaderKey
  PROVE  Verdict'
<1> DEFINE k == walk.keys[1]
           t == walk.id
           D == toml.known[1].defined
           p == Append(toml.place, Step(k))
           at == MergeIntermediate(At(nodes, t), k)
           more == IF p \in DOMAIN D THEN D ELSE Define(D, p, Def("super"))
           next == [toml EXCEPT !.known[1].defined = more, !.place = Into(D, p)]
<1>1. /\ nodes' = at.nodes /\ walk'.id = at.id
      /\ current' = current /\ reading' = reading /\ pc' = pc /\ pc \in {"table", "tables"}
      /\ Rule(Status(D, p), Headed, {}, next)
  BY DEF HeaderKey, WalkTo, RuleHeaderKey, Here, At
<1>2. (Faulty => Faulty') /\ (Complains(nodes', t) => Faulty')
  BY HeaderKeyShape DEF IInv
<1>3. CASE toml.verdict = "invalid"
  <2>1. toml = Rejected /\ Faulty
    BY <1>3 DEF IInv, Verdict
  <2>2. toml' = Rejected
    BY <1>1, <1>3 DEF Rule
  <2> QED BY <1>2, <2>1, <2>2, RejectedVerdict
<1>4. CASE toml.verdict # "invalid"
  <2>1. /\ toml.verdict \in {"valid", "tolerated"} /\ IsToml(toml) /\ FaultlessIn(nodes)
        /\ IsKnown(toml.known) /\ Heap(nodes) /\ Forest(nodes, Roots(reading))
    BY <1>4, TrueState
  <2>2. PICK fs : Described(fs)
    BY <1>4, TrueState
  <2>3. /\ Layer(nodes, D, << >>, Root, fs[1]) /\ Layers(nodes, toml.known, reading, fs)
        /\ \A i \in 1..Len(toml.known) : Arrayed(toml.known[i].defined)
    BY <1>4, <2>2, RootLayer
  <2>4. /\ Len(reading) = 1 /\ Len(toml.known) = 1 /\ toml.known[1].path = << >>
        /\ k \in Keys /\ t \in Ids(nodes) /\ IsTable(nodes, t)
        /\ Finds(toml.known, fs, 1, toml.section, current)
        /\ Finds(toml.known, fs, 1, toml.place, t)
    BY <1>1, <1>4, <2>2, HeaderState
  <2>5. toml.place \in DOMAIN D /\ fs[1][toml.place] = t /\ nodes[t].errors = {}
    BY <2>1, <2>4 DEF Finds, FaultlessIn
  <2>6. /\ p \in DOMAIN D <=> Has(nodes, t, k)
        /\ Has(nodes, t, k) => /\ Get(nodes, t, k) = fs[1][p]
                               /\ Get(nodes, t, k) \in Ids(nodes)
                               /\ Suits(nodes[Get(nodes, t, k)], D[p])
    <3> HIDE DEF D, k, t
    <3> QED BY <2>1, <2>3, <2>4, <2>5, FoundNode
  <2>7. 1 \in 1..Len(toml.known) /\ 1 \in 1..Len(reading) /\ Len(toml.known) \in Nat
    BY <2>4
  <2>8. Arrayed(D)
    BY <2>3, <2>7
  <2>9. ASSUME NEW gs, NEW defined, Moves(toml, toml', 1, defined, Into(D, p), "tolerated"),
               Layers(nodes', toml'.known, reading, gs), Extends(reading, toml'.known, gs, toml.known, fs),
               FaultlessIn(nodes'), Arrayed(defined),
               Finds(toml'.known, gs, 1, Into(D, p), walk'.id)
        PROVE  Verdict'
    <3>1. /\ IsToml(toml') /\ Redefines(toml'.known, toml.known, 1, defined)
          /\ toml'.section = toml.section /\ toml'.place = Into(D, p)
          /\ toml'.verdict \in {toml.verdict, "tolerated"}
      <4> HIDE DEF D, p
      <4> QED BY <2>1, <2>7, <2>9, TomlPlace
    <3>2. \A i \in 1..Len(toml'.known) : Arrayed(toml'.known[i].defined)
      BY <2>3, <2>7, <2>9, <3>1, ArrayedMore
    <3>3. IsKnown(toml'.known) /\ toml'.known[1].path = << >>
      BY <2>4, <2>7, <3>1 DEF Redefines
    <3>4. Finds(toml'.known, gs, 1, toml'.section, current')
      BY <1>1, <2>4, <2>7, <2>9, <3>1 DEF Extends, Finds
    <3>5. toml'.verdict \in {"valid", "tolerated"} /\ Len(reading') = 1 /\ reading' = reading
          /\ pc' # "entry" /\ Finds(toml'.known, gs, 1, toml'.place, walk'.id)
      BY <1>1, <2>1, <2>4, <2>9, <3>1
    <3> HIDE DEF D, p
    <3> QED BY ONLY <2>9, <3>1, <3>2, <3>3, <3>4, <3>5, DocumentVerdict
  <2>10. CASE p \notin DOMAIN D
    <3> DEFINE e == Def("super")
               defined == Define(D, p, e)
               node == Node("pseudo", TRUE)
    <3>1. ~Has(nodes, t, k)
      BY <2>6, <2>10
    <3>2. at = Created(At(nodes, t), k, node)
      BY <3>1 DEF MergeIntermediate, At
    <3>3. Into(D, p) = p /\ Status(D, p) = "undefined" /\ more = defined
      BY <2>10 DEF Into, Status
    <3>4. toml' = next
      BY <1>1, <1>4, <3>3 DEF Rule, Headed
    <3>5. Moves(toml, toml', 1, defined, Into(D, p), "tolerated")
      BY <3>3, <3>4 DEF Moves
    <3>6. Redefines(toml'.known, toml.known, 1, defined)
      <4> HIDE DEF D, p, defined
      <4> QED BY <2>1, <2>7, <3>5, TomlPlace
    <3>7. e.how = "super" /\ "pseudo" \in Kinds /\ TRUE \in BOOLEAN
      BY KindsAre DEF Def
    <3>8. node.kind = "pseudo" /\ node.header
      BY <3>7, NewRecord
    <3>9. Suits(node, e)
      <4> HIDE DEF node, e
      <4> QED BY <3>7, <3>8 DEF Suits, Hows
    <3>10. PICK gs : /\ Layers(nodes', toml'.known, reading, gs)
                     /\ Extends(reading, toml'.known, gs, toml.known, fs)
                     /\ Finds(toml'.known, gs, 1, p, walk'.id)
                     /\ FaultlessIn(nodes')
      <4>1. Goes(toml.place, k, p) /\ Lacks(toml.known, 1, p)
        BY <2>10 DEF Goes, Lacks
      <4>2. Defines(toml'.known, toml.known, 1, p, e)
        BY <3>6 DEF Defines
      <4>3. Creates(nodes', walk'.id, nodes, t, k, node)
        <5> HIDE DEF node, t, k
        <5> QED BY <1>1, <3>2 DEF Creates
      <4>4. IsFresh(node)
        BY <3>7, FreshIs
      <4> HIDE DEF D, p, e, at, k, t, node
      <4> QED BY ONLY <2>1, <2>3, <2>4, <2>7, <3>9, <4>1, <4>2, <4>3, <4>4, KeyLayers
    <3>11. Arrayed(defined)
      <4>1. \A q \in DOMAIN D : q \in Seq(AllSteps)
        BY <2>3, LayerIds
      <4>2. e.how # "array"
        BY <3>7
      <4> HIDE DEF D, e, k
      <4> QED BY <2>4, <2>5, <2>8, <2>10, <4>1, <4>2, ArrayedDefine
    <3>12. Finds(toml'.known, gs, 1, Into(D, p), walk'.id)
      BY ONLY <3>3, <3>10
    <3> HIDE DEF D, p, defined
    <3> QED BY ONLY <2>9, <3>5, <3>10, <3>11, <3>12
  <2>11. CASE p \in DOMAIN D
    <3> DEFINE x == Get(nodes, t, k)
               s == D[p].how
    <3>1. Has(nodes, t, k) /\ x = fs[1][p] /\ x \in Ids(nodes) /\ Suits(nodes[x], D[p])
      BY <2>6, <2>11
    <3>2. nodes[x] \in NodeRec
      BY <2>1, <3>1, HeapTypes
    <3>3. Status(D, p) = s /\ more = D
      BY <2>11 DEF Status
    <3>4. CASE s \in {"table", "super", "reopened", "dotted"}
      <4>1. nodes[x].kind \in {"regular", "pseudo"}
        <5> HIDE DEF D, x
        <5> QED BY <3>1, <3>2, <3>4, FoundKind
      <4>2. IsTable(nodes, x) /\ nodes[x].kind # "inline"
        BY <4>1, KindsAre DEF IsTable
      <4>3. at = MergeTable(At(nodes, t), x)
        <5> DEFINE here == At(nodes, t)
        <5>1. here.nodes = nodes /\ here.id = t
          BY DEF At
        <5>2. ~IsArray(nodes, x)
          BY <4>1 DEF IsArray, Arrays
        <5>3. /\ Has(here.nodes, here.id, k) /\ Get(here.nodes, here.id, k) = x
              /\ IsTable(here.nodes, x) /\ ~IsArray(here.nodes, x)
          BY <3>1, <4>2, <5>1, <5>2
        <5> HIDE DEF here, x, k
        <5>4. MergeIntermediate(here, k) = MergeTable(here, x)
          BY ONLY <5>3 DEF MergeIntermediate
        <5> QED BY <5>4 DEF here
      <4>4. at = At(nodes, x)
        BY <4>2, <4>3, MergeTableAt
      <4>5. at.nodes = nodes /\ at.id = x
        BY <4>4 DEF At
      <4>6. Into(D, p) = p
        BY <2>11, <3>3, <3>4 DEF Into
      <4>7. toml' = next
        BY <1>1, <1>4, <3>3, <3>4 DEF Rule, Headed
      <4>8. Moves(toml, toml', 1, D, Into(D, p), "tolerated")
        BY <3>3, <4>7 DEF Moves
      <4>9. Redefines(toml'.known, toml.known, 1, D)
        <5> HIDE DEF D, p
        <5> QED BY <2>1, <2>7, <4>8, TomlPlace
      <4>10. \A i \in 1..Len(reading) : /\ toml'.known[i].path = toml.known[i].path
                                        /\ toml'.known[i].defined = toml.known[i].defined
        BY <2>4, <4>9 DEF Redefines
      <4>11. Layers(nodes', toml'.known, reading, fs)
        <5>1. Layers(nodes, toml'.known, reading, fs)
          <6> HIDE DEF D
          <6> QED BY ONLY <2>3, <2>7, <4>9, SameDefinitions DEF D
        <5> QED BY <1>1, <4>5, <5>1
      <4>12. Extends(reading, toml'.known, fs, toml.known, fs)
        BY <4>10 DEF Extends
      <4>13. Finds(toml'.known, fs, 1, Into(D, p), walk'.id)
        BY <1>1, <2>7, <2>11, <3>1, <4>5, <4>6, <4>10 DEF Finds
      <4>14. FaultlessIn(nodes')
        BY <1>1, <2>1, <4>5
      <4> HIDE DEF D, p
      <4> QED BY ONLY <2>8, <2>9, <4>8, <4>11, <4>12, <4>13, <4>14
    <3>5. CASE s = "array"
      <4> DEFINE items == nodes[x].items
                 y == items[Len(items)]
                 q == Append(p, Item(D[p].tables))
      <4>1. /\ nodes[x].kind = "tables" /\ items # << >> /\ q \in DOMAIN D /\ fs[1][q] = y
            /\ y \in Ids(nodes) /\ nodes[y].kind = "regular"
        <5> HIDE DEF D, x, p
        <5> QED BY <2>1, <2>3, <2>8, <2>11, <3>1, <3>5, LastItem
      <4>2. IsTable(nodes, y) /\ IsArray(nodes, x) /\ ~IsTable(nodes, x)
        BY <4>1 DEF IsTable, IsArray, Tables, Arrays
      <4>3. at = MergeArray(At(nodes, t), x)
        BY <3>1, <4>2 DEF MergeIntermediate, At
      <4>4. at.nodes = nodes /\ at.id = y
        <5>1. At(nodes, t).nodes = nodes
          BY DEF At
        <5> HIDE DEF x, t
        <5>2. MergeArray(At(nodes, t), x) = [nodes |-> nodes, id |-> y]
          BY <4>1, <4>2, <5>1 DEF MergeArray
        <5> HIDE DEF at
        <5> QED BY <4>3, <5>2
      <4>6. Into(D, p) = q
        BY <2>11, <3>3, <3>5 DEF Into
      <4>7. toml' = next
        BY <1>1, <1>4, <3>3, <3>5 DEF Rule, Headed
      <4>8. Moves(toml, toml', 1, D, Into(D, p), "tolerated")
        BY <3>3, <4>7 DEF Moves
      <4>9. Redefines(toml'.known, toml.known, 1, D)
        <5> HIDE DEF D, p
        <5> QED BY <2>1, <2>7, <4>8, TomlPlace
      <4>10. \A i \in 1..Len(reading) : /\ toml'.known[i].path = toml.known[i].path
                                        /\ toml'.known[i].defined = toml.known[i].defined
        BY <2>4, <4>9 DEF Redefines
      <4>11. Layers(nodes', toml'.known, reading, fs)
        <5>1. Layers(nodes, toml'.known, reading, fs)
          <6> HIDE DEF D
          <6> QED BY ONLY <2>3, <2>7, <4>9, SameDefinitions DEF D
        <5> QED BY <1>1, <4>4, <5>1
      <4>12. Extends(reading, toml'.known, fs, toml.known, fs)
        BY <4>10 DEF Extends
      <4>13. Finds(toml'.known, fs, 1, Into(D, p), walk'.id)
        <5> HIDE DEF q, y, at
        <5> QED BY <1>1, <2>7, <4>1, <4>4, <4>6, <4>10 DEF Finds
      <4>14. FaultlessIn(nodes')
        BY <1>1, <2>1, <4>4
      <4> HIDE DEF D, p
      <4> QED BY ONLY <2>8, <2>9, <4>8, <4>11, <4>12, <4>13, <4>14
    <3>6. CASE s \notin {"table", "super", "reopened", "dotted", "array"}
      <4>1. /\ s \in Hows /\ nodes[x].kind \notin {"regular", "pseudo", "tables"}
        <5> HIDE DEF D, x
        <5>1. /\ s \in Hows
              /\ s = "table" <=> nodes[x].kind = "regular"
              /\ s \in {"super", "reopened"} <=> nodes[x].kind = "pseudo" /\ nodes[x].header
              /\ s = "dotted" <=> nodes[x].kind = "pseudo" /\ ~nodes[x].header
              /\ s = "array" <=> nodes[x].kind = "tables"
          BY <3>1, <3>2, FoundKind
        <5> HIDE DEF s
        <5> QED BY <3>6, <5>1
      <4>2. s \notin Headed
        BY <3>6, <4>1 DEF Headed, Hows
      <4>3. toml' = Rejected
        BY <1>1, <1>4, <3>3, <4>2 DEF Rule
      <4>4. Complains(nodes', t)
        <5> HIDE DEF x, k, t
        <5> QED BY <1>1, <2>1, <2>4, <3>1, <4>1, MergeIntermediateLeads DEF x
      <4> QED BY <1>2, <4>3, <4>4, RejectedVerdict
    <3> QED BY <3>4, <3>5, <3>6
  <2> QED BY <2>10, <2>11
<1> QED BY <1>3, <1>4

\* The same values are open.
SameIds(t, stack) == Len(t) = Len(stack) /\ \A i \in 1..Len(stack) : t[i].id = stack[i].id

\* Layers do not see where the values stand in the text.
LEMMA SameStack ==
  ASSUME NEW ns, NEW known, NEW stack, NEW fs, Layers(ns, known, stack, fs),
         NEW t, SameIds(t, stack)
  PROVE  Layers(ns, known, t, fs)
<1>1. \A i \in 1..Len(stack) : /\ known[i].path = known[i].path
                               /\ known[i].defined = known[i].defined
                               /\ t[i].id = stack[i].id
  BY DEF SameIds
<1> QED BY <1>1, SameLayers DEF SameIds

\* A path is defined in another way that suits its node.
LEMMA OtherDefinition ==
  ASSUME NEW ns, NEW known, NEW stack, NEW fs, Layers(ns, known, stack, fs),
         NEW j \in 1..Len(stack), NEW p, NEW x, Finds(known, fs, j, p, x), NEW d, Suits(ns[x], d),
         NEW more, Defines(more, known, j, p, d)
  PROVE  Layers(ns, more, stack, fs) /\ Extends(stack, more, fs, known, fs)
<1>1. /\ p \in DOMAIN known[j].defined /\ Suits(ns[fs[j][p]], d)
      /\ Len(more) = Len(known) /\ Len(known) = Len(stack)
  BY DEF Finds, Defines, Redefines, Layers
<1>2. \A i \in 1..Len(stack) :
         /\ more[i].path = known[i].path
         /\ more[i].defined = IF i = j THEN Define(known[j].defined, p, d) ELSE known[i].defined
  BY <1>1 DEF Defines, Redefines
<1>3. ASSUME NEW i \in 1..Len(stack)
      PROVE  /\ DOMAIN more[i].defined = DOMAIN known[i].defined
             /\ Layer(ns, more[i].defined, more[i].path, stack[i].id, fs[i])
  <2>1. Layer(ns, known[i].defined, known[i].path, stack[i].id, fs[i])
    BY LayersAre
  <2>2. CASE i # j
    BY <1>2, <2>1, <2>2
  <2>3. CASE i = j
    <3>1. Layer(ns, Define(known[j].defined, p, d), known[j].path, stack[j].id, fs[j])
      BY <1>1, <2>1, <2>3, LayerRedefined
    <3>2. DOMAIN Define(known[j].defined, p, d) = DOMAIN known[j].defined
      BY <1>1 DEF Define
    <3> QED BY <1>2, <3>1, <3>2, <2>3
  <2> QED BY <2>2, <2>3
<1>4. \A i, k \in 1..Len(stack) : i # k =>
        \A q \in DOMAIN more[i].defined, a \in DOMAIN more[k].defined : fs[i][q] # fs[k][a]
  BY <1>3 DEF Layers
<1>5. Layers(ns, more, stack, fs)
  BY <1>1, <1>3, <1>4 DEF Layers
<1> QED BY <1>3, <1>5 DEF Extends

\* The end of a header, while the text is valid.
LEMMA OpenVerdict ==
  ASSUME IInv, toml.verdict # "invalid", pc \in {"table", "tables"},
         reading' = Next_(reading), pc' = "read", NEW fs, Described(fs),
         NEW defined, NEW section, Ends(toml, toml', 1, defined, section, "tolerated"),
         Arrayed(defined), NEW gs, Layers(nodes', toml'.known, reading, gs), FaultlessIn(nodes'),
         Finds(toml'.known, gs, 1, section, current')
  PROVE  Verdict'
<1>1. /\ toml.verdict \in {"valid", "tolerated"} /\ IsToml(toml) /\ IsKnown(toml.known)
      /\ Layers(nodes, toml.known, reading, fs)
      /\ \A i \in 1..Len(toml.known) : Arrayed(toml.known[i].defined)
  BY TrueState DEF Described
<1>2. Len(reading) = 1 /\ Len(toml.known) = 1 /\ toml.known[1].path = << >>
  BY HeaderState
<1>3. 1 \in 1..Len(toml.known) /\ 1 \in 1..Len(reading) /\ Len(toml.known) \in Nat
  BY <1>2
<1>4. /\ IsToml(toml') /\ Redefines(toml'.known, toml.known, 1, defined)
      /\ toml'.section = section /\ toml'.verdict \in {toml.verdict, "tolerated"}
  BY <1>1, <1>3, TomlSection
<1>5. \A i \in 1..Len(toml'.known) : Arrayed(toml'.known[i].defined)
  BY <1>1, <1>3, <1>4, ArrayedMore
<1>6. IsKnown(toml'.known) /\ toml'.known[1].path = << >>
  BY <1>2, <1>3, <1>4 DEF Redefines
<1>7. SameIds(reading', reading) /\ Len(reading') = 1
  <2>1. Stacked(nodes, reading)
    BY DEF IInv, Shape
  <2> DEFINE u == Next_(reading)
  <2>2. /\ Stacked(nodes, u) /\ Len(u) = Len(reading) /\ Roots(u) = Roots(reading)
        /\ \A i \in 1..Len(reading) :
             /\ u[i].id = reading[i].id /\ u[i].value = reading[i].value /\ u[i].keys = reading[i].keys
             /\ u[i].next = IF i = Len(reading) THEN reading[i].next + 1 ELSE reading[i].next
    BY <2>1, NextStack
  <2>3. reading' = u
    OBVIOUS
  <2> HIDE DEF u
  <2> QED BY <1>2, <2>2, <2>3 DEF SameIds
<1>8. Layers(nodes', toml'.known, reading', gs)
  BY <1>7, SameStack
<1>9. toml'.verdict \in {"valid", "tolerated"} /\ pc' # "entry" /\ pc' \notin {"table", "tables"}
  BY <1>1, <1>4
<1>10. Finds(toml'.known, gs, 1, toml'.section, current')
  BY <1>4
<1> QED BY ONLY <1>4, <1>5, <1>6, <1>7, <1>8, <1>9, <1>10, FaultlessIn(nodes'), DocumentVerdict

\* The last key of the header of a table.
LEMMA TableHeaderVerdict ==
  ASSUME IInv, TableHeader
  PROVE  Verdict'
<1> DEFINE k == walk.keys[1]
           t == walk.id
           D == toml.known[1].defined
           p == Append(toml.place, Step(k))
           at == OpenTable(At(nodes, t), k)
           how == IF p \in DOMAIN D THEN "reopened" ELSE "table"
           e == Def(how)
           defined == Define(D, p, e)
           next == [toml EXCEPT !.known[1].defined = defined, !.section = p]
<1>1. /\ nodes' = at.nodes /\ current' = at.id
      /\ reading' = Next_(reading) /\ pc' = "read" /\ pc \in {"table", "tables"}
      /\ Rule(Status(D, p), {"undefined", "super"}, {"reopened"}, next)
  BY DEF TableHeader, Open, RuleTable, Here, At
<1>2. (Faulty => Faulty') /\ (Complains(nodes', t) => Faulty')
  BY TableHeaderShape DEF IInv
<1>3. CASE toml.verdict = "invalid"
  <2>1. toml = Rejected /\ Faulty
    BY <1>3 DEF IInv, Verdict
  <2>2. toml' = Rejected
    BY <1>1, <1>3 DEF Rule
  <2> QED BY <1>2, <2>1, <2>2, RejectedVerdict
<1>4. CASE toml.verdict # "invalid"
  <2>1. /\ FaultlessIn(nodes) /\ IsToml(toml) /\ Len(toml.known) \in Nat
        /\ IsKnown(toml.known) /\ Heap(nodes) /\ Forest(nodes, Roots(reading))
    BY <1>4, TrueState
  <2>2. PICK fs : Described(fs)
    BY <1>4, TrueState
  <2>3. /\ Layer(nodes, D, << >>, Root, fs[1]) /\ Layers(nodes, toml.known, reading, fs)
        /\ \A i \in 1..Len(toml.known) : Arrayed(toml.known[i].defined)
    BY <1>4, <2>2, RootLayer
  <2>4. /\ Len(reading) = 1 /\ Len(toml.known) = 1
        /\ k \in Keys /\ t \in Ids(nodes) /\ IsTable(nodes, t)
        /\ Finds(toml.known, fs, 1, toml.place, t)
    BY <1>1, <1>4, <2>2, HeaderState
  <2>5. toml.place \in DOMAIN D /\ fs[1][toml.place] = t /\ nodes[t].errors = {}
    BY <2>1, <2>4 DEF Finds, FaultlessIn
  <2>6. /\ p \in DOMAIN D <=> Has(nodes, t, k)
        /\ Has(nodes, t, k) => /\ Get(nodes, t, k) = fs[1][p]
                               /\ Get(nodes, t, k) \in Ids(nodes)
                               /\ Suits(nodes[Get(nodes, t, k)], D[p])
    <3> HIDE DEF D, k, t
    <3> QED BY <2>1, <2>3, <2>4, <2>5, FoundNode
  <2>7. 1 \in 1..Len(toml.known) /\ 1 \in 1..Len(reading)
    BY <2>4
  <2>8. Arrayed(D) /\ e.how = how
    BY <2>3, <2>7 DEF Def
  <2>9. ASSUME toml' \in {next, [next EXCEPT !.verdict = "tolerated"]}
        PROVE  /\ Ends(toml, toml', 1, defined, p, "tolerated")
               /\ Defines(toml'.known, toml.known, 1, p, e)
    <3>1. Ends(toml, toml', 1, defined, p, "tolerated")
      BY <2>9 DEF Ends
    <3>2. Redefines(toml'.known, toml.known, 1, defined)
      <4> HIDE DEF defined, p
      <4> QED BY <2>1, <2>7, <3>1, TomlSection
    <3> QED BY <3>1, <3>2 DEF Defines
  <2>10. CASE p \notin DOMAIN D
    <3> DEFINE node == Node("regular", TRUE)
    <3>1. ~Has(nodes, t, k)
      BY <2>6, <2>10
    <3>2. at = Created(At(nodes, t), k, node)
      BY <3>1 DEF OpenTable, At
    <3>3. Status(D, p) = "undefined" /\ how = "table"
      BY <2>10 DEF Status
    <3>4. toml' = next
      BY <1>1, <1>4, <3>3 DEF Rule
    <3>5. Ends(toml, toml', 1, defined, p, "tolerated") /\ Defines(toml'.known, toml.known, 1, p, e)
      BY <2>9, <3>4
    <3>6. "regular" \in Kinds /\ TRUE \in BOOLEAN
      BY KindsAre
    <3>7. node.kind = "regular"
      BY <3>6, NewRecord
    <3>8. Suits(node, e) /\ e.how # "array"
      <4>1. e.how = "table"
        BY <2>8, <3>3
      <4> HIDE DEF node, e
      <4> QED BY <4>1, <3>7 DEF Suits, Hows
    <3>9. PICK gs : /\ Layers(nodes', toml'.known, reading, gs)
                    /\ Extends(reading, toml'.known, gs, toml.known, fs)
                    /\ Finds(toml'.known, gs, 1, p, current')
                    /\ FaultlessIn(nodes')
      <4>1. Goes(toml.place, k, p) /\ Lacks(toml.known, 1, p)
        BY <2>10 DEF Goes, Lacks
      <4>2. Creates(nodes', current', nodes, t, k, node)
        <5> HIDE DEF node, t, k
        <5> QED BY <1>1, <3>2 DEF Creates
      <4>3. IsFresh(node)
        BY <3>6, FreshIs
      <4> HIDE DEF D, p, e, at, k, t, node
      <4> QED BY ONLY <2>1, <2>3, <2>4, <2>7, <3>5, <3>8, <4>1, <4>2, <4>3, KeyLayers
    <3>10. Arrayed(defined)
      <4>1. \A q \in DOMAIN D : q \in Seq(AllSteps)
        BY <2>3, LayerIds
      <4> HIDE DEF D, e, k
      <4> QED BY <2>4, <2>5, <2>8, <2>10, <3>8, <4>1, ArrayedDefine
    <3> HIDE DEF D, p, defined
    <3> QED BY ONLY IInv, <1>1, <1>4, <2>2, <3>5, <3>9, <3>10, OpenVerdict
  <2>11. CASE p \in DOMAIN D
    <3> DEFINE x == Get(nodes, t, k)
               s == D[p].how
    <3>1. Has(nodes, t, k) /\ x = fs[1][p] /\ x \in Ids(nodes) /\ Suits(nodes[x], D[p])
      BY <2>6, <2>11
    <3>2. nodes[x] \in NodeRec
      BY <2>1, <3>1, HeapTypes
    <3>3. Status(D, p) = s /\ how = "reopened"
      BY <2>11 DEF Status
    <3>4. CASE s \in {"super", "reopened"}
      <4>1. nodes[x].kind = "pseudo" /\ nodes[x].header
        <5> HIDE DEF D, x
        <5> QED BY <3>1, <3>2, <3>4, FoundKind
      <4>2. nodes' = nodes /\ current' = x
        <5> DEFINE here == At(nodes, t)
        <5>1. here.nodes = nodes /\ here.id = t
          BY DEF At
        <5>2. IsTable(nodes, x)
          BY <4>1, KindsAre DEF IsTable
        <5>3. /\ Has(here.nodes, here.id, k) /\ Get(here.nodes, here.id, k) = x
              /\ IsTable(here.nodes, x)
              /\ here.nodes[x].kind = "pseudo" /\ here.nodes[x].header
          BY <3>1, <4>1, <5>1, <5>2
        <5> HIDE DEF here, x, k
        <5>4. OpenTable(here, k) = [nodes |-> here.nodes, id |-> x]
          BY ONLY <5>3 DEF OpenTable
        <5>5. at = [nodes |-> nodes, id |-> x]
          BY <5>1, <5>4 DEF here
        <5> QED BY <1>1, <5>5
      <4>3. toml' \in {next, [next EXCEPT !.verdict = "tolerated"]}
        <5>1. s \in {"undefined", "super"} \/ s \in {"reopened"} \ {"undefined", "super"}
          BY <3>4
        <5> HIDE DEF next, s, D, p
        <5> QED BY <1>1, <1>4, <3>3, <5>1 DEF Rule
      <4>4. Ends(toml, toml', 1, defined, p, "tolerated") /\ Defines(toml'.known, toml.known, 1, p, e)
        BY <2>9, <4>3
      <4>5. Suits(nodes[x], e) /\ e.how = "reopened"
        <5>1. e.how = "reopened"
          BY <2>8, <3>3
        <5> HIDE DEF x, e
        <5> QED BY <4>1, <5>1 DEF Suits, Hows
      <4>6. Finds(toml.known, fs, 1, p, x)
        BY <2>11, <3>1 DEF Finds
      <4>7. Layers(nodes, toml'.known, reading, fs) /\ Extends(reading, toml'.known, fs, toml.known, fs)
        <5> HIDE DEF x, e, p, D
        <5> QED BY ONLY <2>3, <2>7, <4>4, <4>5, <4>6, OtherDefinition
      <4>8. Finds(toml'.known, fs, 1, p, current')
        BY <2>7, <4>2, <4>6, <4>7 DEF Finds, Extends
      <4>9. Arrayed(defined)
        <5>1. e.how # "array" /\ D[p].how # "table"
          BY <3>4, <4>5
        <5> HIDE DEF D, p, e
        <5> QED BY <2>8, <2>11, <5>1, ArrayedRedefine
      <4>10. Layers(nodes', toml'.known, reading, fs) /\ FaultlessIn(nodes')
        BY <2>1, <4>2, <4>7
      <4> HIDE DEF D, p, defined
      <4> QED BY ONLY IInv, <1>1, <1>4, <2>2, <4>4, <4>8, <4>9, <4>10, OpenVerdict
    <3>5. CASE s \notin {"super", "reopened"}
      <4>1. s \in Hows /\ ~(nodes[x].kind = "pseudo" /\ nodes[x].header)
        <5> HIDE DEF D, x
        <5>1. s \in Hows /\ (s \in {"super", "reopened"} <=> nodes[x].kind = "pseudo" /\ nodes[x].header)
          BY <3>1, <3>2, FoundKind
        <5> HIDE DEF s
        <5> QED BY <3>5, <5>1
      <4>2. s \notin {"undefined", "super"} /\ s \notin {"reopened"} \ {"undefined", "super"}
        BY <3>5, <4>1 DEF Hows
      <4>3. toml' = Rejected
        BY <1>1, <1>4, <3>3, <4>2 DEF Rule
      <4>4. Complains(nodes', t)
        <5> HIDE DEF x, k, t
        <5> QED BY <1>1, <2>1, <2>4, <3>1, <4>1, OpenTableLeads DEF x
      <4> QED BY <1>2, <4>3, <4>4, RejectedVerdict
    <3> QED BY <3>4, <3>5
  <2> QED BY <2>10, <2>11
<1> QED BY <1>3, <1>4

\* A table more in an array of tables: its number, and its definitions.
Enters(p, n, T) == T = Append(p, Item(n))
Counts(ns, a, n) == ns[a].kind = "tables" /\ n = Len(ns[a].items) + 1
PushesNew(m, c, ns, a, node) == m = PushNew(ns, a, node) /\ c = Len(ns) + 1
ArrayOf(n) == [how |-> "array", tables |-> n]
Tabled(more, known, j, p, n, T) ==
  Redefines(more, known, j, Define(Define(known[j].defined, p, ArrayOf(n)), T, Def("table")))

\* A new table in an array of tables: the layers have one path more.
LEMMA ItemLayers ==
  ASSUME NEW ns, Heap(ns), FaultlessIn(ns), NEW roots, Forest(ns, roots),
         NEW known, IsKnown(known), NEW stack, NEW fs, Layers(ns, known, stack, fs),
         NEW j \in 1..Len(stack), NEW p, NEW a, Finds(known, fs, j, p, a),
         NEW n, Counts(ns, a, n), NEW T, Enters(p, n, T),
         NEW more, Tabled(more, known, j, p, n, T),
         NEW node, node = Node("regular", TRUE), NEW m, NEW c, PushesNew(m, c, ns, a, node)
  PROVE  /\ Heap(m) /\ FaultlessIn(m) /\ n \in Nat \ {0} /\ Lacks(known, j, T)
         /\ \E gs : /\ Layers(m, more, stack, gs) /\ Extends(stack, more, gs, known, fs)
                    /\ Finds(more, gs, j, T, c)
<1> DEFINE D == known[j].defined
           s == Item(n)
           new == Append(ns, node)
           d == ArrayOf(n)
           e == Def("table")
<1>1. Layer(ns, D, known[j].path, stack[j].id, fs[j])
  BY LayersAre
<1>2. p \in DOMAIN D /\ fs[j][p] = a /\ T = Append(p, s)
  BY DEF Finds, Enters
<1>3. a \in Ids(ns) /\ IsArray(ns, a) /\ ns[a].kind = "tables" /\ n = Len(ns[a].items) + 1
  <2>1. a \in Ids(ns)
    BY <1>2, LayersAre
  <2> QED BY <2>1 DEF Counts, IsArray, Arrays
<1>4. Len(ns[a].items) \in Nat /\ n \in Nat \ {0} /\ s \in AllSteps
  <2>1. Len(ns[a].items) \in Nat
    BY <1>3, PushLinks
  <2>2. n \in Nat \ {0}
    BY <1>3, <2>1
  <2> QED BY <2>1, <2>2, StepsApart
<1>5. T \notin DOMAIN D
  <2>1. T \in DOMAIN D => Edge(ns, a, s, fs[j][T])
    BY <1>1, <1>2, <1>4, LayerEdges
  <2>2. ~Edge(ns, a, Item(n), fs[j][T])
    <3>1. n \notin 1..Len(ns[a].items)
      BY <1>3, <1>4
    <3> QED BY <1>3, <1>4, <3>1, Edges
  <2> QED BY <2>1, <2>2
<1>6. "regular" \in Kinds /\ TRUE \in BOOLEAN
  BY KindsAre
<1>7. /\ Heap(m) /\ c = Len(ns) + 1 /\ Links(new, m, a, s, c)
      /\ Len(m[a].items) = n
  <2>1. m = PushNew(ns, a, Node("regular", TRUE)) /\ c = Len(ns) + 1
    BY DEF PushesNew
  <2> DEFINE m2 == PushNew(ns, a, Node("regular", TRUE))
             c2 == Len(ns) + 1
  <2>2. /\ Grows(ns, m2)
        /\ Links(Append(ns, Node("regular", TRUE)), m2, a, Item(Len(ns[a].items) + 1), c2)
        /\ Len(m2[a].items) = Len(ns[a].items) + 1
    BY <1>3, <1>6, PushedNode
  <2>3. m = m2 /\ c = c2
    BY <2>1
  <2> HIDE DEF m2, c2
  <2>4. Heap(m) /\ Len(m[a].items) = n
    BY <1>3, <2>2, <2>3 DEF Grows
  <2>5. Links(new, m, a, s, c)
    BY <1>3, <2>2, <2>3
  <2> QED BY <2>1, <2>4, <2>5
<1>8. /\ \A x \in Ids(ns) : new[x] = ns[x]
      /\ FaultlessIn(new)
  BY <1>6, NewNode, FaultlessNew
<1>9. FaultlessIn(m)
  BY <1>7, <1>8, FaultlessLink
<1>10. Suits(m[a], d)
  <2>1. m[a].kind = "tables"
    BY <1>3, <1>7, <1>8 DEF Links
  <2>2. d.how = "array" /\ d.tables = n
    BY DEF ArrayOf
  <2> HIDE DEF d
  <2> QED BY <1>7, <2>1, <2>2 DEF Suits, Hows
<1>11. Suits(node, e) /\ IsFresh(node)
  <2>1. node.kind = "regular" /\ e.how = "table"
    BY <1>6, NewRecord DEF Def
  <2>2. IsFresh(node)
    BY <1>6, FreshIs
  <2> HIDE DEF e
  <2> QED BY <2>1, <2>2 DEF Suits, Hows
<1> HIDE DEF new, s, d, e
<1>12. Redefines(more, known, j, Define(Define(D, p, d), Append(p, s), e))
  BY <1>2 DEF Tabled, d, e
<1>13. Links(new, m, fs[j][p], s, c) /\ Appends(ns, node, new) /\ Suits(m[fs[j][p]], d)
       /\ Append(p, s) \notin DOMAIN D
  BY <1>2, <1>5, <1>7, <1>10 DEF new, Appends
<1>14. \E gs :
         /\ Layers(m, more, stack, gs) /\ Extends(stack, more, gs, known, fs)
         /\ Finds(more, gs, j, Append(p, s), c)
  <2>1. /\ Heap(ns) /\ Heap(m) /\ Layers(ns, known, stack, fs) /\ s \in AllSteps
        /\ j \in 1..Len(stack) /\ p \in DOMAIN D /\ c = Len(ns) + 1
    BY <1>2, <1>4, <1>7
  <2> QED BY ONLY <1>11, <1>12, <1>13, <2>1, GrowLayers
<1>15. \E gs :
         /\ Layers(m, more, stack, gs) /\ Extends(stack, more, gs, known, fs)
         /\ Finds(more, gs, j, T, c)
  BY ONLY <1>2, <1>14
<1>16. Lacks(known, j, T)
  BY <1>5 DEF Lacks
<1> QED BY ONLY <1>4, <1>7, <1>9, <1>15, <1>16

\* The later of two definitions of a path stands.
LEMMA DefineTwice ==
  ASSUME NEW D, NEW p, NEW d, NEW e
  PROVE  Define(Define(D, p, d), p, e) = Define(D, p, e)
<1> DEFINE A == Define(D, p, d)
<1>1. DOMAIN A = DOMAIN D \cup {p} /\ \A q \in DOMAIN D : q # p => A[q] = D[q]
  BY DEF Define
<1> HIDE DEF A
<1>2. DOMAIN A \cup {p} = DOMAIN D \cup {p}
      /\ \A q \in DOMAIN D \cup {p} : (IF q = p THEN e ELSE A[q]) = (IF q = p THEN e ELSE D[q])
  BY <1>1
<1>3. Define(A, p, e) = Define(D, p, e)
  BY <1>2 DEF Define
<1> QED BY <1>3 DEF A

\* With a path, the one before it is defined.
LEMMA DefinedBefore ==
  ASSUME NEW ns, NEW D, NEW r, NEW f, Layer(ns, D, << >>, r, f),
         NEW p \in Seq(AllSteps), NEW s \in AllSteps, Append(p, s) \in DOMAIN D
  PROVE  p \in DOMAIN D
<1> DEFINE q == Append(p, s)
<1>1. Len(<< >>) = 0 /\ Len(p) \in Nat /\ Len(q) = Len(p) + 1 /\ SubSeq(q, 1, Len(p)) = p
  BY EmptySeq, AppendPath
<1>2. \A n \in 0..Len(q) : SubSeq(q, 1, n) \in DOMAIN D
  BY <1>1 DEF Layer, Closed
<1> HIDE DEF q
<1>3. Len(p) \in 0..Len(q)
  BY <1>1
<1> QED BY <1>1, <1>2, <1>3

\* The definitions that a header of an array of tables adds.
LEMMA ArrayedTable ==
  ASSUME NEW ns, NEW D, Arrayed(D), NEW r, NEW f, Layer(ns, D, << >>, r, f),
         NEW p \in Seq(AllSteps), NEW k \in Keys, NEW T, Goes(p, k, T),
         T \in DOMAIN D => D[T].how = "array",
         NEW n \in Nat \ {0}, NEW U, Enters(T, n, U), U \notin DOMAIN D
  PROVE  Arrayed(Define(Define(D, T, ArrayOf(n)), U, Def("table")))
<1>1. T = Append(p, Step(k)) /\ U = Append(T, Item(n))
  BY DEF Goes, Enters
<1>2. T \in Seq(AllSteps) /\ Step(k) \in AllSteps
  BY <1>1, StepsApart, AppendPath
<1>3. \A i \in Nat : Append(T, Item(i)) \in DOMAIN D => D[Append(T, Item(i))].how = "table"
  <2>1. ASSUME NEW i \in Nat, Append(T, Item(i)) \in DOMAIN D
        PROVE  D[Append(T, Item(i))].how = "table"
    <3>1. Item(i) \in AllSteps
      BY StepsApart
    <3>2. T \in DOMAIN D
      BY <1>2, <2>1, <3>1, DefinedBefore
    <3> QED BY <2>1, <3>2 DEF Arrayed
  <2> QED BY <2>1
<1>4. \A q \in DOMAIN D : q \in Seq(AllSteps)
  BY LayerIds
<1> DEFINE d == ArrayOf(n)
           e == Def("table")
<1>5. d.how = "array" /\ d.tables = n /\ e.how = "table"
  BY DEF ArrayOf, Def
<1> HIDE DEF d, e
<1>6. Arrayed(Define(Define(D, T, d), Append(T, Item(n)), e))
  BY <1>1, <1>3, <1>4, <1>5, ArrayedItem
<1> QED BY <1>1, <1>6 DEF d, e

\* The last key of the header of an array of tables.
LEMMA TableArrayHeaderVerdict ==
  ASSUME IInv, TableArrayHeader
  PROVE  Verdict'
<1> DEFINE k == walk.keys[1]
           t == walk.id
           D == toml.known[1].defined
           p == Append(toml.place, Step(k))
           at == OpenItem(At(nodes, t), k)
           n == IF p \in DOMAIN D THEN D[p].tables + 1 ELSE 1
           U == Append(p, Item(n))
           defined == Define(Define(D, p, ArrayOf(n)), U, Def("table"))
           next == [toml EXCEPT !.known[1].defined = defined, !.section = U]
           node == Node("regular", TRUE)
<1>1. /\ nodes' = at.nodes /\ current' = at.id
      /\ reading' = Next_(reading) /\ pc' = "read" /\ pc \in {"table", "tables"}
      /\ Rule(Status(D, p), {"undefined", "array"}, {}, next)
  BY DEF TableArrayHeader, Open, RuleItem, Here, At, ArrayOf
<1>2. (Faulty => Faulty') /\ (Complains(nodes', t) => Faulty')
  BY TableArrayHeaderShape DEF IInv
<1>3. CASE toml.verdict = "invalid"
  <2>1. toml = Rejected /\ Faulty
    BY <1>3 DEF IInv, Verdict
  <2>2. toml' = Rejected
    BY <1>1, <1>3 DEF Rule
  <2> QED BY <1>2, <2>1, <2>2, RejectedVerdict
<1>4. CASE toml.verdict # "invalid"
  <2>1. /\ FaultlessIn(nodes) /\ IsToml(toml) /\ Len(toml.known) \in Nat
        /\ IsKnown(toml.known) /\ Heap(nodes) /\ Forest(nodes, Roots(reading))
    BY <1>4, TrueState
  <2>2. PICK fs : Described(fs)
    BY <1>4, TrueState
  <2>3. /\ Layer(nodes, D, << >>, Root, fs[1]) /\ Layers(nodes, toml.known, reading, fs)
        /\ \A i \in 1..Len(toml.known) : Arrayed(toml.known[i].defined)
    BY <1>4, <2>2, RootLayer
  <2>4. /\ Len(reading) = 1 /\ Len(toml.known) = 1
        /\ k \in Keys /\ t \in Ids(nodes) /\ IsTable(nodes, t)
        /\ Finds(toml.known, fs, 1, toml.place, t)
    BY <1>1, <1>4, <2>2, HeaderState
  <2>5. toml.place \in DOMAIN D /\ fs[1][toml.place] = t /\ nodes[t].errors = {}
    BY <2>1, <2>4 DEF Finds, FaultlessIn
  <2>6. /\ p \in DOMAIN D <=> Has(nodes, t, k)
        /\ Has(nodes, t, k) => /\ Get(nodes, t, k) = fs[1][p]
                               /\ Get(nodes, t, k) \in Ids(nodes)
                               /\ Suits(nodes[Get(nodes, t, k)], D[p])
        /\ toml.place \in Seq(AllSteps)
    <3> HIDE DEF D, k, t
    <3> QED BY <2>1, <2>3, <2>4, <2>5, FoundNode
  <2>7. 1 \in 1..Len(toml.known) /\ 1 \in 1..Len(reading)
    BY <2>4
  <2>8. Arrayed(D)
    BY <2>3, <2>7
  <2>9. Goes(toml.place, k, p) /\ Enters(p, n, U)
    BY DEF Goes, Enters
  <2>10. ASSUME toml' = next
         PROVE  /\ Ends(toml, toml', 1, defined, U, "tolerated")
                /\ Tabled(toml'.known, toml.known, 1, p, n, U)
    <3>1. Ends(toml, toml', 1, defined, U, "tolerated")
      BY <2>10 DEF Ends
    <3>2. Redefines(toml'.known, toml.known, 1, defined)
      <4> HIDE DEF defined, U
      <4> QED BY <2>1, <2>7, <3>1, TomlSection
    <3> QED BY <3>1, <3>2 DEF Tabled
  <2>11. CASE p \notin DOMAIN D
    <3> DEFINE array == Node("tables", FALSE)
               fresh == Created(At(nodes, t), k, array)
               ns == fresh.nodes
               a == fresh.id
               mid == [toml.known EXCEPT ![1].defined = Define(D, p, ArrayOf(0))]
    <3>1. ~Has(nodes, t, k) /\ n = 1
      BY <2>6, <2>11
    <3>2. Status(D, p) = "undefined"
      BY <2>11 DEF Status
    <3>3. toml' = next
      BY <1>1, <1>4, <3>2 DEF Rule
    <3>4. "tables" \in Kinds /\ FALSE \in BOOLEAN
      BY KindsAre
    <3>5. array.kind = "tables" /\ array.items = << >> /\ IsFresh(array)
      BY <3>4, NewRecord, FreshIs
    <3>6. Suits(array, ArrayOf(0))
      <4>1. ArrayOf(0).how = "array" /\ ArrayOf(0).tables = 0
        BY DEF ArrayOf
      <4>2. Len(array.items) = 0
        BY <3>5, EmptySeq
      <4> HIDE DEF array
      <4> QED BY <3>5, <4>1, <4>2 DEF Suits, Hows
    <3>7. Defines(mid, toml.known, 1, p, ArrayOf(0))
      <4> DEFINE X == Define(D, p, ArrayOf(0))
      <4>1. Redefines(mid, toml.known, 1, X)
        <5>1. mid = [toml.known EXCEPT ![1].defined = X]
          OBVIOUS
        <5> HIDE DEF X, mid
        <5>2. Redefines([toml.known EXCEPT ![1].defined = X], toml.known, 1, X)
          BY <2>1, <2>7, KnownExcept
        <5> QED BY <5>1, <5>2
      <4> QED BY <4>1 DEF Defines
    <3>8. Lacks(toml.known, 1, p)
      BY <2>11 DEF Lacks
    <3>9. Creates(ns, a, nodes, t, k, array)
      BY DEF Creates
    <3>10. PICK hs : /\ Heap(ns) /\ FaultlessIn(ns) /\ Forest(ns, Roots(reading)) /\ Holds(ns, a, array)
                     /\ Layers(ns, mid, reading, hs) /\ Finds(mid, hs, 1, p, a)
      <4> HIDE DEF ns, a, mid, p, k, t, array, D
      <4> QED BY ONLY <2>1, <2>3, <2>4, <2>7, <2>9, <3>5, <3>6, <3>7, <3>8, <3>9, KeyLayers
    <3>11. IsKnown(mid)
      BY <3>7 DEF Defines, Redefines
    <3>12. Counts(ns, a, 1)
      <4>1. Len(array.items) = 0
        BY <3>5, EmptySeq
      <4> HIDE DEF ns, a, array
      <4> QED BY <3>5, <3>10, <4>1 DEF Counts, Holds
    <3>13. PushesNew(nodes', current', ns, a, node)
      <4> DEFINE here == At(nodes, t)
      <4>1. here.nodes = nodes /\ here.id = t
        BY DEF At
      <4>2. ns[a].kind = "tables" /\ IsArray(ns, a)
        <5> HIDE DEF ns, a
        <5> QED BY <3>12 DEF Counts, IsArray, Arrays
      <4>3. ~Has(here.nodes, here.id, k)
        BY <3>1, <4>1
      <4> HIDE DEF k
      <4>4. ns = Created(here, k, Node("tables", FALSE)).nodes
            /\ a = Created(here, k, Node("tables", FALSE)).id
        OBVIOUS
      <4> HIDE DEF here, ns, a
      <4>5. OpenItem(here, k) = [nodes |-> PushNew(ns, a, Node("regular", TRUE)), id |-> Len(ns) + 1]
        BY ONLY <4>2, <4>3, <4>4 DEF OpenItem
      <4>6. at = [nodes |-> PushNew(ns, a, Node("regular", TRUE)), id |-> Len(ns) + 1]
        BY <4>5 DEF here
      <4> QED BY <1>1, <4>6 DEF PushesNew
    <3>14. Ends(toml, toml', 1, defined, U, "tolerated") /\ Tabled(toml'.known, toml.known, 1, p, n, U)
      BY <2>10, <3>3
    <3>15. Tabled(toml'.known, mid, 1, p, 1, U)
      <4> DEFINE X == Define(Define(D, p, ArrayOf(1)), U, Def("table"))
      <4>1. Redefines(toml'.known, toml.known, 1, X)
        BY <3>1, <3>14 DEF Tabled
      <4>2. Redefines(mid, toml.known, 1, Define(D, p, ArrayOf(0)))
        BY <3>7 DEF Defines
      <4> HIDE DEF U, p, D, mid
      <4>3. mid[1].defined = Define(D, p, ArrayOf(0))
        BY <2>7, <4>2 DEF Redefines
      <4>4. Define(mid[1].defined, p, ArrayOf(1)) = Define(D, p, ArrayOf(1))
        BY <4>3, DefineTwice
      <4>5. Tabled(toml'.known, mid, 1, p, 1, U) <=> Redefines(toml'.known, mid, 1, X)
        BY <4>4 DEF Tabled
      <4> HIDE DEF X
      <4>6. Redefines(toml'.known, mid, 1, X)
        BY <2>4, <4>1, <4>2 DEF Redefines
      <4> QED BY <4>5, <4>6
    <3>16. PICK gs : /\ Layers(nodes', toml'.known, reading, gs) /\ FaultlessIn(nodes')
                     /\ Finds(toml'.known, gs, 1, U, current')
      <4>1. Enters(p, 1, U)
        BY <2>9, <3>1
      <4>2. node = Node("regular", TRUE)
        OBVIOUS
      <4> HIDE DEF ns, a, mid, p, node, U
      <4> QED BY ONLY <2>7, <3>10, <3>11, <3>12, <3>13, <3>15, <4>1, <4>2, ItemLayers
    <3>17. Arrayed(defined)
      <4>1. n \in Nat \ {0}
        BY <3>1
      <4>2. U \notin DOMAIN D
        <5>1. p \in Seq(AllSteps)
          <6>1. Step(k) \in AllSteps
            BY <2>4, StepsApart
          <6> QED BY <2>6, <6>1, AppendPath
        <5>2. Item(n) \in AllSteps
          BY <4>1, StepsApart
        <5> HIDE DEF p, n, D
        <5> QED BY <2>3, <2>11, <5>1, <5>2, DefinedBefore
      <4>3. p \in DOMAIN D => D[p].how = "array"
        BY <2>11
      <4> HIDE DEF D, p, n, U, k
      <4> QED BY <2>3, <2>4, <2>6, <2>8, <2>9, <4>1, <4>2, <4>3, ArrayedTable
    <3> HIDE DEF U, defined
    <3> QED BY ONLY IInv, <1>1, <1>4, <2>2, <3>14, <3>16, <3>17, OpenVerdict
  <2>12. CASE p \in DOMAIN D
    <3> DEFINE x == Get(nodes, t, k)
               s == D[p].how
    <3>1. Has(nodes, t, k) /\ x = fs[1][p] /\ x \in Ids(nodes) /\ Suits(nodes[x], D[p])
      BY <2>6, <2>12
    <3>2. nodes[x] \in NodeRec
      BY <2>1, <3>1, HeapTypes
    <3>3. Status(D, p) = s /\ n = D[p].tables + 1
      BY <2>12 DEF Status
    <3>4. CASE s = "array"
      <4>1. nodes[x].kind = "tables" /\ D[p].tables = Len(nodes[x].items)
        <5> HIDE DEF D, x
        <5> QED BY <3>1, <3>2, <3>4, FoundKind
      <4>2. Counts(nodes, x, n)
        BY <3>3, <4>1 DEF Counts
      <4>3. PushesNew(nodes', current', nodes, x, node)
        <5> DEFINE here == At(nodes, t)
        <5>1. here.nodes = nodes /\ here.id = t
          BY DEF At
        <5>2. IsArray(nodes, x)
          BY <4>1, KindsAre DEF IsArray
        <5>3. /\ Has(here.nodes, here.id, k) /\ Get(here.nodes, here.id, k) = x
              /\ IsArray(here.nodes, x) /\ here.nodes[x].kind = "tables"
          BY <3>1, <4>1, <5>1, <5>2
        <5> HIDE DEF here, x, k
        <5>4. OpenItem(here, k) = [nodes |-> PushNew(here.nodes, x, Node("regular", TRUE)),
                                   id |-> Len(here.nodes) + 1]
          BY ONLY <5>3 DEF OpenItem
        <5>5. at = [nodes |-> PushNew(nodes, x, Node("regular", TRUE)), id |-> Len(nodes) + 1]
          BY <5>1, <5>4 DEF here
        <5> QED BY <1>1, <5>5 DEF PushesNew
      <4>4. toml' = next
        <5> HIDE DEF next, s, D, p
        <5> QED BY <1>1, <1>4, <3>3, <3>4 DEF Rule
      <4>5. Ends(toml, toml', 1, defined, U, "tolerated") /\ Tabled(toml'.known, toml.known, 1, p, n, U)
        BY <2>10, <4>4
      <4>6. Finds(toml.known, fs, 1, p, x)
        BY <2>12, <3>1 DEF Finds
      <4>7. PICK gs : /\ Layers(nodes', toml'.known, reading, gs) /\ FaultlessIn(nodes')
                      /\ Finds(toml'.known, gs, 1, U, current')
                      /\ n \in Nat \ {0} /\ Lacks(toml.known, 1, U)
        <5>1. node = Node("regular", TRUE)
          OBVIOUS
        <5> HIDE DEF x, p, node, U, n
        <5> QED BY ONLY <2>1, <2>3, <2>7, <2>9, <4>2, <4>3, <4>5, <4>6, <5>1, ItemLayers
      <4>8. Arrayed(defined)
        <5>1. U \notin DOMAIN D /\ (p \in DOMAIN D => D[p].how = "array")
          BY <3>4, <4>7 DEF Lacks
        <5> HIDE DEF D, p, n, U, k
        <5> QED BY <2>3, <2>4, <2>6, <2>8, <2>9, <4>7, <5>1, ArrayedTable
      <4> HIDE DEF U, defined
      <4> QED BY ONLY IInv, <1>1, <1>4, <2>2, <4>5, <4>7, <4>8, OpenVerdict
    <3>5. CASE s # "array"
      <4>1. s \in Hows /\ nodes[x].kind # "tables"
        <5> HIDE DEF D, x
        <5>1. s \in Hows /\ (s = "array" <=> nodes[x].kind = "tables")
          BY <3>1, <3>2, FoundKind
        <5> HIDE DEF s
        <5> QED BY <3>5, <5>1
      <4>2. s \notin {"undefined", "array"} /\ s \notin {} \ {"undefined", "array"}
        BY <3>5, <4>1 DEF Hows
      <4>3. toml' = Rejected
        BY <1>1, <1>4, <3>3, <4>2 DEF Rule
      <4>4. Complains(nodes', t)
        <5> HIDE DEF x, k, t
        <5> QED BY <1>1, <2>1, <2>4, <3>1, <4>1, OpenItemLeads DEF x
      <4> QED BY <1>2, <4>3, <4>4, RejectedVerdict
    <3> QED BY <3>4, <3>5
  <2> QED BY <2>11, <2>12
<1> QED BY <1>3, <1>4

-----------------------------------------------------------------------------
(* Entries *)

\* Before a key of an entry, while the text is valid: n is the table's place in reading.
LEMMA EntryState ==
  ASSUME IInv, toml.verdict # "invalid", pc = "entry", NEW fs, Described(fs),
         NEW n, n = Len(reading) - 1
  PROVE  /\ n \in Nat \ {0} /\ Len(reading) = n + 1 /\ Len(toml.known) = n + 1
         /\ n \in 1..Len(reading) /\ n \in 1..Len(toml.known) /\ 1 \in 1..Len(reading)
         /\ reading[n].value.kind # "list"
         /\ walk.keys \in Dotted /\ walk.keys[1] \in Keys
         /\ walk.id \in Ids(nodes) /\ IsTable(nodes, walk.id)
         /\ Finds(toml.known, fs, 1, toml.section, current)
         /\ Finds(toml.known, fs, n, toml.place, walk.id) /\ toml.place \in Seq(AllSteps)
         /\ toml.known[n + 1].path = toml.place \o Steps(walk.keys)
         /\ Top = reading[n + 1]
<1>1. /\ Len(reading) > 1 /\ Top.keys # << >> /\ walk.keys \in Dotted
      /\ walk.id \in Ids(nodes) /\ IsTable(nodes, walk.id) /\ Stacked(nodes, reading)
  BY DEF IInv, Shape, Walking, TableOf
<1>2. Len(reading) \in Nat /\ Len(toml.known) = Len(reading)
  BY TrueState
<1>3. n \in Nat \ {0} /\ Len(reading) = n + 1 /\ n \in 1..Len(reading) /\ n + 1 \in 2..Len(reading)
      /\ 1 \in 1..Len(reading)
  BY <1>1, <1>2
<1>4. walk.keys[1] \in Keys
  BY <1>1, DottedKeys
<1>5. Located(fs) /\ Layers(nodes, toml.known, reading, fs)
  BY DEF Described
<1>6. /\ toml.place \in DOMAIN toml.known[n].defined /\ fs[n][toml.place] = walk.id
      /\ toml.known[n + 1].path = toml.place \o Steps(walk.keys)
      /\ toml.section \in DOMAIN toml.known[1].defined /\ fs[1][toml.section] = current
  BY <1>5 DEF Located
<1>7. toml.place \in Seq(AllSteps)
  BY <1>3, <1>5, <1>6, LayersAre
<1>8. Top = reading[n + 1]
  BY <1>3 DEF Top
<1>9. reading[n].value.kind # "list"
  <2>1. reading[n + 1].keys # << >> => n + 1 = 2 \/ reading[n + 1 - 1].value.kind = "inline"
    BY <1>1, <1>3 DEF Stacked
  <2>2. n + 1 = 2 => n = 1
    <3>1. n \in Nat
      BY <1>3
    <3> QED BY ONLY <3>1
  <2>3. reading[1].value.kind = "document"
    BY <1>1 DEF Stacked
  <2>4. n + 1 - 1 = n
    BY <1>3
  <2> QED BY <1>1, <1>8, <2>1, <2>2, <2>3, <2>4
<1> QED BY <1>1, <1>2, <1>3, <1>4, <1>6, <1>7, <1>8, <1>9 DEF Finds

\* Where the open values stand stays the same when no list gets an item.
LEMMA PlacedSame ==
  ASSUME IInv, toml.verdict # "invalid", reading' = reading,
         NEW n, n \in 1..Len(reading), NEW defined, Redefines(toml'.known, toml.known, n, defined),
         toml'.section = toml.section, KeepsItems(nodes, nodes')
  PROVE  Placed'
<1>1. /\ Placed /\ Len(reading) \in Nat /\ Len(toml.known) = Len(reading) /\ 1 \in 1..Len(reading)
      /\ Forest(nodes, Roots(reading))
  BY TrueState
<1>2. \A i \in 1..Len(reading) : toml'.known[i].path = toml.known[i].path
  BY <1>1 DEF Redefines
<1>3. \A i \in 1..Len(reading) : nodes'[reading[i].id].items = nodes[reading[i].id].items
  <2>1. \A i \in 1..Len(reading) : reading[i].id \in Ids(nodes)
    BY <1>1, RootIds
  <2> QED BY <2>1 DEF KeepsItems
<1>4. toml'.known[1].path = << >>
  BY <1>1, <1>2 DEF Placed
<1>5. ASSUME NEW i \in 2..Len(reading)
      PROVE  /\ toml'.known[i].path =
                    IF reading[i].keys = << >>
                    THEN Append(toml'.known[i - 1].path, Item(reading[i - 1].next))
                    ELSE (IF i - 1 = 1 THEN toml'.section ELSE toml'.known[i - 1].path)
                           \o Steps(reading[i].keys)
             /\ reading[i].value.kind = "list" =>
                    Len(nodes'[reading[i].id].items) = reading[i].next - 1
  <2>1. i \in 1..Len(reading) /\ i - 1 \in 1..Len(reading)
    BY <1>1
  <2>2. /\ toml'.known[i].path = toml.known[i].path
        /\ toml'.known[i - 1].path = toml.known[i - 1].path
        /\ nodes'[reading[i].id].items = nodes[reading[i].id].items
    BY <1>2, <1>3, <2>1
  <2> QED BY <1>1, <2>2 DEF Placed, Below
<1> QED BY <1>4, <1>5 DEF Placed, Below

\* A key of an entry, while the text is valid.
LEMMA KeyVerdict ==
  ASSUME IInv, toml.verdict # "invalid", pc = "entry", pc' = pc,
         reading' = reading, current' = current,
         Len(walk.keys) > 1, walk'.keys = Tail(walk.keys), NEW fs, Described(fs),
         NEW n, n = Len(reading) - 1,
         NEW defined, NEW p, Goes(toml.place, walk.keys[1], p),
         Moves(toml, toml', n, defined, p, "tolerated"), Arrayed(defined),
         NEW gs, Layers(nodes', toml'.known, reading, gs),
         Extends(reading, toml'.known, gs, toml.known, fs),
         FaultlessIn(nodes'), KeepsItems(nodes, nodes'), Finds(toml'.known, gs, n, p, walk'.id)
  PROVE  Verdict'
<1>1. /\ toml.verdict \in {"valid", "tolerated"} /\ IsToml(toml) /\ IsKnown(toml.known)
      /\ Layers(nodes, toml.known, reading, fs)
      /\ \A i \in 1..Len(toml.known) : Arrayed(toml.known[i].defined)
  BY TrueState DEF Described
<1>2. /\ n \in Nat \ {0} /\ Len(reading) = n + 1 /\ Len(toml.known) = n + 1
      /\ n \in 1..Len(reading) /\ n \in 1..Len(toml.known) /\ 1 \in 1..Len(reading)
      /\ walk.keys \in Dotted
      /\ Finds(toml.known, fs, 1, toml.section, current) /\ toml.place \in Seq(AllSteps)
      /\ toml.known[n + 1].path = toml.place \o Steps(walk.keys)
  BY EntryState
<1>3. /\ IsToml(toml') /\ Redefines(toml'.known, toml.known, n, defined)
      /\ toml'.section = toml.section /\ toml'.place = p
      /\ toml'.verdict \in {toml.verdict, "tolerated"}
  BY <1>1, <1>2, TomlPlace
<1>4. \A i \in 1..Len(toml'.known) : Arrayed(toml'.known[i].defined)
  BY <1>1, <1>2, <1>3, ArrayedMore
<1>5. Placed'
  BY <1>2, <1>3, PlacedSame
<1>6. Located(gs)'
  <2>1. toml'.section \in DOMAIN toml'.known[1].defined /\ gs[1][toml'.section] = current'
    BY <1>2, <1>3 DEF Extends, Finds
  <2>2. toml'.place \in DOMAIN toml'.known[n].defined /\ gs[n][toml'.place] = walk'.id
    BY <1>3 DEF Finds
  <2>3. toml'.known[n + 1].path = toml'.place \o Steps(walk'.keys)
    <3>1. n + 1 \in 1..Len(toml.known)
      BY <1>2
    <3>2. toml'.known[n + 1].path = toml.known[n + 1].path
      BY <1>3, <3>1 DEF Redefines
    <3>3. toml.place \o Steps(walk.keys) = Append(toml.place, Step(walk.keys[1])) \o Steps(Tail(walk.keys))
      BY <1>2, PathConcat
    <3> QED BY <1>2, <1>3, <3>2, <3>3 DEF Goes
  <2>4. Len(reading') - 1 = n
    OBVIOUS
  <2> QED BY <2>1, <2>2, <2>3, <2>4 DEF Located
<1>7. IsKnown(toml'.known)
  BY <1>3 DEF Redefines
<1>8. Described(gs)'
  BY <1>4, <1>6, <1>7 DEF Described
<1>9. toml'.verdict \in {"valid", "tolerated"} /\ IsToml(toml)'
  BY <1>1, <1>3
<1> QED BY <1>5, <1>8, <1>9, TrueVerdict

\* A key of an entry that is not the last one.
LEMMA EntryKeyVerdict ==
  ASSUME IInv, EntryKey
  PROVE  Verdict'
<1> DEFINE k == walk.keys[1]
           t == walk.id
           n == Len(reading) - 1
           D == toml.known[n].defined
           p == Append(toml.place, Step(k))
           at == MergeKey(At(nodes, t), k)
           more == IF p \in DOMAIN D THEN D ELSE Define(D, p, Def("dotted"))
           next == [toml EXCEPT !.known[n].defined = more, !.place = p]
<1>1. /\ nodes' = at.nodes /\ walk'.id = at.id /\ walk'.keys = Tail(walk.keys)
      /\ current' = current /\ reading' = reading /\ pc' = pc /\ pc = "entry"
      /\ Len(walk.keys) > 1
      /\ Rule(Status(D, p), {"undefined", "dotted"}, {"super", "reopened"}, next)
  BY DEF EntryKey, WalkTo, RuleEntryKey, Here, At
<1>2. (Faulty => Faulty') /\ (Complains(nodes', t) => Faulty')
  BY EntryKeyShape DEF IInv
<1>3. CASE toml.verdict = "invalid"
  <2>1. toml = Rejected /\ Faulty
    BY <1>3 DEF IInv, Verdict
  <2>2. toml' = Rejected
    BY <1>1, <1>3 DEF Rule
  <2> QED BY <1>2, <2>1, <2>2, RejectedVerdict
<1>4. CASE toml.verdict # "invalid"
  <2>1. /\ FaultlessIn(nodes) /\ IsToml(toml) /\ Len(toml.known) \in Nat
        /\ IsKnown(toml.known) /\ Heap(nodes) /\ Forest(nodes, Roots(reading))
    BY <1>4, TrueState
  <2>2. PICK fs : Described(fs)
    BY <1>4, TrueState
  <2>3. /\ n \in 1..Len(reading) /\ n \in 1..Len(toml.known)
        /\ k \in Keys /\ t \in Ids(nodes) /\ IsTable(nodes, t)
        /\ Finds(toml.known, fs, n, toml.place, t) /\ toml.place \in Seq(AllSteps)
    BY <1>1, <1>4, <2>2, EntryState
  <2>4. /\ Layers(nodes, toml.known, reading, fs)
        /\ \A i \in 1..Len(toml.known) : Arrayed(toml.known[i].defined)
        /\ Layer(nodes, D, toml.known[n].path, reading[n].id, fs[n])
    <3>1. /\ Layers(nodes, toml.known, reading, fs)
          /\ \A i \in 1..Len(toml.known) : Arrayed(toml.known[i].defined)
      BY <2>2 DEF Described
    <3> QED BY <2>3, <3>1, LayersAre
  <2>5. toml.place \in DOMAIN D /\ fs[n][toml.place] = t /\ nodes[t].errors = {}
    BY <2>1, <2>3 DEF Finds, FaultlessIn
  <2>6. /\ p \in DOMAIN D <=> Has(nodes, t, k)
        /\ Has(nodes, t, k) => /\ Get(nodes, t, k) = fs[n][p]
                               /\ Get(nodes, t, k) \in Ids(nodes)
                               /\ Suits(nodes[Get(nodes, t, k)], D[p])
    <3> HIDE DEF D, k, t, n
    <3> QED BY <2>1, <2>3, <2>4, <2>5, FoundNode
  <2>7. Arrayed(D) /\ Goes(toml.place, k, p)
    BY <2>3, <2>4 DEF Goes
  <2>8. ASSUME toml' \in {next, [next EXCEPT !.verdict = "tolerated"]}
        PROVE  /\ Moves(toml, toml', n, more, p, "tolerated")
               /\ Redefines(toml'.known, toml.known, n, more)
    <3>1. Moves(toml, toml', n, more, p, "tolerated")
      BY <2>8 DEF Moves
    <3> HIDE DEF more, p, n
    <3> QED BY <2>1, <2>3, <3>1, TomlPlace
  <2>9. CASE p \notin DOMAIN D
    <3> DEFINE e == Def("dotted")
               node == Node("pseudo", FALSE)
    <3>1. ~Has(nodes, t, k) /\ more = Define(D, p, e)
      BY <2>6, <2>9
    <3>2. Status(D, p) = "undefined"
      BY <2>9 DEF Status
    <3>3. toml' = next
      <4> HIDE DEF next, D, p
      <4> QED BY <1>1, <1>4, <3>2 DEF Rule
    <3>4. Moves(toml, toml', n, more, p, "tolerated") /\ Defines(toml'.known, toml.known, n, p, e)
      <4>1. /\ Moves(toml, toml', n, more, p, "tolerated")
            /\ Redefines(toml'.known, toml.known, n, more)
        BY <2>8, <3>3
      <4> QED BY <3>1, <4>1 DEF Defines
    <3>5. e.how = "dotted" /\ "pseudo" \in Kinds /\ FALSE \in BOOLEAN
      BY KindsAre DEF Def
    <3>6. node.kind = "pseudo" /\ ~node.header /\ IsFresh(node)
      BY <3>5, NewRecord, FreshIs
    <3>7. Suits(node, e)
      <4> HIDE DEF node, e
      <4> QED BY <3>5, <3>6 DEF Suits, Hows
    <3>8. Creates(nodes', walk'.id, nodes, t, k, node)
      <4> DEFINE here == At(nodes, t)
      <4>1. here.nodes = nodes /\ here.id = t
        BY DEF At
      <4>2. ~Has(here.nodes, here.id, k)
        BY <3>1, <4>1
      <4> HIDE DEF here, k, node
      <4>3. MergeKey(here, k) = Created(here, k, Node("pseudo", FALSE))
        BY ONLY <4>2 DEF MergeKey
      <4>4. at = Created(At(nodes, t), k, node)
        BY <4>3 DEF here, node
      <4> QED BY <1>1, <4>4 DEF Creates
    <3>9. PICK gs : /\ Layers(nodes', toml'.known, reading, gs)
                    /\ Extends(reading, toml'.known, gs, toml.known, fs)
                    /\ Finds(toml'.known, gs, n, p, walk'.id)
                    /\ FaultlessIn(nodes') /\ KeepsItems(nodes, nodes')
      <4>1. Lacks(toml.known, n, p)
        BY <2>9 DEF Lacks
      <4>2. /\ Layers(nodes, toml.known, reading, fs) /\ Goes(toml.place, k, p) /\ IsFresh(node)
            /\ Defines(toml'.known, toml.known, n, p, e) /\ n \in 1..Len(reading)
            /\ Finds(toml.known, fs, n, toml.place, t) /\ IsTable(nodes, t) /\ k \in Keys
        BY <2>3, <2>4, <2>7, <3>4, <3>6
      <4> HIDE DEF D, p, e, at, k, t, node, n
      <4> QED BY ONLY <2>1, <3>7, <3>8, <4>1, <4>2, KeyLayers
    <3>10. Arrayed(more)
      <4>1. \A q \in DOMAIN D : q \in Seq(AllSteps)
        BY <2>4, LayerIds
      <4>2. e.how # "array" /\ more = Define(D, p, e)
        BY <3>1, <3>5
      <4> HIDE DEF D, e, k, more
      <4> QED BY <2>3, <2>5, <2>7, <2>9, <4>1, <4>2, ArrayedDefine
    <3>11. n = Len(reading) - 1 /\ Goes(toml.place, walk.keys[1], p)
      BY <2>7
    <3> HIDE DEF D, p, more, n
    <3> QED BY ONLY IInv, <1>1, <1>4, <2>2, <3>4, <3>9, <3>10, <3>11, KeyVerdict
  <2>10. CASE p \in DOMAIN D
    <3> DEFINE x == Get(nodes, t, k)
               s == D[p].how
    <3>1. Has(nodes, t, k) /\ x = fs[n][p] /\ x \in Ids(nodes) /\ Suits(nodes[x], D[p])
      BY <2>6, <2>10
    <3>2. nodes[x] \in NodeRec
      BY <2>1, <3>1, HeapTypes
    <3>3. Status(D, p) = s /\ more = D
      BY <2>10 DEF Status
    <3>4. CASE s \in {"super", "reopened", "dotted"}
      <4>1. nodes[x].kind = "pseudo"
        <5> HIDE DEF D, x
        <5> QED BY <3>1, <3>2, <3>4, FoundKind
      <4>2. nodes' = nodes /\ walk'.id = x
        <5> DEFINE here == At(nodes, t)
        <5>1. here.nodes = nodes /\ here.id = t
          BY DEF At
        <5>2. /\ Has(here.nodes, here.id, k) /\ Get(here.nodes, here.id, k) = x
              /\ here.nodes[x].kind = "pseudo"
          BY <3>1, <4>1, <5>1
        <5> HIDE DEF here, x, k
        <5>3. MergeKey(here, k) = [here EXCEPT !.id = x]
          BY ONLY <5>2 DEF MergeKey
        <5>4. [here EXCEPT !.id = x].nodes = nodes /\ [here EXCEPT !.id = x].id = x
          BY DEF here, At
        <5>5. at.nodes = nodes /\ at.id = x
          BY <5>3, <5>4 DEF here
        <5> QED BY <1>1, <5>5
      <4>3. toml' \in {next, [next EXCEPT !.verdict = "tolerated"]}
        <5>1. s \in {"undefined", "dotted"} \/ s \in {"super", "reopened"} \ {"undefined", "dotted"}
          BY <3>4
        <5> HIDE DEF next, s, D, p
        <5> QED BY <1>1, <1>4, <3>3, <5>1 DEF Rule
      <4>4. Moves(toml, toml', n, more, p, "tolerated") /\ Redefines(toml'.known, toml.known, n, D)
        BY <2>8, <3>3, <4>3
      <4>5. Layers(nodes, toml'.known, reading, fs) /\ Extends(reading, toml'.known, fs, toml.known, fs)
        <5>1. D = toml.known[n].defined
          OBVIOUS
        <5> HIDE DEF D, n
        <5> QED BY ONLY <2>3, <2>4, <4>4, <5>1, SameDefinitions
      <4>6. Finds(toml.known, fs, n, p, x)
        BY <2>10, <3>1 DEF Finds
      <4>7. Finds(toml'.known, fs, n, p, walk'.id)
        BY <2>3, <4>2, <4>5, <4>6 DEF Finds, Extends
      <4>8. Layers(nodes', toml'.known, reading, fs) /\ FaultlessIn(nodes') /\ Arrayed(more)
        BY <2>1, <2>7, <3>3, <4>2, <4>5
      <4>9. KeepsItems(nodes, nodes')
        BY <4>2 DEF KeepsItems
      <4>10. n = Len(reading) - 1 /\ Goes(toml.place, walk.keys[1], p)
        BY <2>7
      <4> HIDE DEF D, p, more, n
      <4> QED BY ONLY IInv, <1>1, <1>4, <2>2, <4>4, <4>5, <4>7, <4>8, <4>9, <4>10, KeyVerdict
    <3>5. CASE s \notin {"super", "reopened", "dotted"}
      <4>1. s \in Hows /\ nodes[x].kind # "pseudo"
        <5> HIDE DEF D, x
        <5>1. /\ s \in Hows
              /\ s \in {"super", "reopened"} <=> nodes[x].kind = "pseudo" /\ nodes[x].header
              /\ s = "dotted" <=> nodes[x].kind = "pseudo" /\ ~nodes[x].header
          BY <3>1, <3>2, FoundKind
        <5> HIDE DEF s
        <5> QED BY <3>5, <5>1
      <4>2. /\ s \notin {"undefined", "dotted"}
            /\ s \notin {"super", "reopened"} \ {"undefined", "dotted"}
        BY <3>5, <4>1 DEF Hows
      <4>3. toml' = Rejected
        BY <1>1, <1>4, <3>3, <4>2 DEF Rule
      <4>4. Complains(nodes', t)
        <5> HIDE DEF x, k, t
        <5> QED BY <1>1, <2>1, <2>3, <3>1, <4>1, MergeKeyLeads DEF x
      <4> QED BY <1>2, <4>3, <4>4, RejectedVerdict
    <3> QED BY <3>4, <3>5
  <2> QED BY <2>9, <2>10
<1> QED BY <1>3, <1>4

\* A value has been read, and is put where its path says.
Stands(known, n, T) == known[n + 1].path = T
Ends_(p, s, T) == T = Append(p, s)
Plain(known, n, p) == known[n].defined[p].how # "array"
IsTop(stack, n, c) == c = stack[n + 1].id
Takes(more, known, n) == Merges(more, known, n, Join(known[n].defined, known[n + 1].defined))

\* The layer of a value goes into the one that its path is in.
LEMMA TakenLayers ==
  ASSUME NEW ns, Heap(ns), FaultlessIn(ns), NEW known, NEW stack, NEW fs, Layers(ns, known, stack, fs),
         \A i \in 1..Len(known) : Arrayed(known[i].defined),
         NEW n \in Nat \ {0}, Len(stack) = n + 1,
         NEW p, NEW x, Finds(known, fs, n, p, x), NEW s \in AllSteps,
         NEW T, Ends_(p, s, T), Stands(known, n, T), Lacks(known, n, T), Plain(known, n, p),
         NEW c, IsTop(stack, n, c), NEW m, Heap(m), Links(ns, m, x, s, c),
         NEW t, Pops(t, stack, n), NEW more, Takes(more, known, n)
  PROVE  /\ FaultlessIn(m) /\ \A i \in 1..Len(more) : Arrayed(more[i].defined)
         /\ \E gs : Layers(m, more, t, gs) /\ Extends(t, more, gs, known, fs)
<1> DEFINE D == known[n].defined
           E == known[n + 1].defined
<1>1. n \in 1..Len(stack) /\ n + 1 \in 1..Len(stack) /\ Len(known) = n + 1
  BY DEF Layers
<1>2. /\ Layer(ns, D, known[n].path, stack[n].id, fs[n])
      /\ Layer(ns, E, known[n + 1].path, stack[n + 1].id, fs[n + 1])
  BY <1>1, LayersAre
<1>3. /\ p \in DOMAIN D /\ fs[n][p] = x /\ T = Append(p, s) /\ T \notin DOMAIN D
      /\ known[n + 1].path = T /\ D[p].how # "array" /\ c = stack[n + 1].id
  BY DEF Finds, Ends_, Stands, Lacks, Plain, IsTop
<1>4. FaultlessIn(m)
  BY FaultlessLink
<1>5. Suits(m[x], D[p])
  <2>1. Suits(ns[x], D[p])
    BY <1>2, <1>3, LayerIds
  <2>2. m[x].kind = ns[x].kind /\ m[x].header = ns[x].header
    BY DEF Links
  <2> QED BY <1>3, <2>1, <2>2 DEF Suits
<1>6. Arrayed(Join(D, E))
  <2>1. Closed(DOMAIN D, known[n].path) /\ Closed(DOMAIN E, T)
    BY <1>2, <1>3 DEF Layer
  <2>2. Arrayed(D) /\ Arrayed(E)
    BY <1>1
  <2> HIDE DEF D, E
  <2> QED BY <1>3, <2>1, <2>2, ArrayedJoin
<1>7. \A i \in 1..Len(more) : Arrayed(more[i].defined)
  <2>1. Len(more) = n /\ \A i \in 1..n : more[i].defined = IF i = n THEN Join(D, E) ELSE known[i].defined
    BY DEF Takes, Merges
  <2>2. \A i \in 1..n : i \in 1..Len(known)
    BY <1>1
  <2> HIDE DEF D, E
  <2> QED BY <1>6, <2>1, <2>2
<1>8. \E gs : Layers(m, more, t, gs) /\ Extends(t, more, gs, known, fs)
  <2>1. Merges(more, known, n, Join(known[n].defined, known[n + 1].defined))
    BY DEF Takes
  <2>2. /\ known[n + 1].path = Append(p, s) /\ Append(p, s) \notin DOMAIN known[n].defined
        /\ p \in DOMAIN known[n].defined
        /\ Links(ns, m, fs[n][p], s, stack[n + 1].id) /\ Suits(m[fs[n][p]], known[n].defined[p])
    BY <1>3, <1>5
  <2> HIDE DEF D, E
  <2> QED BY <2>1, <2>2, MergedLayers
<1> QED BY <1>4, <1>7, <1>8

\* What is left of the values that are being read.
LEMMA HoldersNext ==
  ASSUME NEW ns, NEW stack, Stacked(ns, stack), NEW n \in Nat \ {0}, Len(stack) = n + 1
  PROVE  LET t == Next_(SubSeq(stack, 1, n))
         IN /\ Len(t) = n /\ Pops(t, stack, n)
            /\ \A i \in 1..n : /\ t[i].value = stack[i].value /\ t[i].keys = stack[i].keys
                               /\ t[i].next = IF i = n THEN stack[i].next + 1 ELSE stack[i].next
<1> DEFINE h == SubSeq(stack, 1, n)
           t == Next_(h)
<1>1. Len(stack) > 1 /\ Len(stack) - 1 = n
  OBVIOUS
<1>2. /\ Stacked(ns, h) /\ Len(h) = n /\ \A i \in 1..n : h[i] = stack[i]
  <2> DEFINE g == SubSeq(stack, 1, Len(stack) - 1)
  <2>1. /\ Stacked(ns, g) /\ Len(g) = Len(stack) - 1
        /\ Roots(g) = Roots(stack) \ {stack[Len(stack)].id}
        /\ \A i \in 1..Len(g) : g[i] = stack[i]
    BY <1>1, HoldersStack
  <2>2. g = h
    BY <1>1
  <2> HIDE DEF g, h
  <2> QED BY <1>1, <2>1, <2>2
<1> HIDE DEF h
<1>3. /\ Stacked(ns, t) /\ Len(t) = Len(h) /\ Roots(t) = Roots(h)
      /\ \A i \in 1..Len(h) :
            /\ t[i].id = h[i].id /\ t[i].value = h[i].value /\ t[i].keys = h[i].keys
            /\ t[i].next = IF i = Len(h) THEN h[i].next + 1 ELSE h[i].next
  BY <1>2, NextStack
<1>4. t = Next_(SubSeq(stack, 1, n))
  BY DEF h
<1> HIDE DEF t
<1>5. /\ Len(t) = n
      /\ \A i \in 1..n :
            /\ t[i].id = stack[i].id /\ t[i].value = stack[i].value /\ t[i].keys = stack[i].keys
            /\ t[i].next = IF i = n THEN stack[i].next + 1 ELSE stack[i].next
  BY <1>2, <1>3
<1>6. Pops(t, stack, n)
  BY <1>5 DEF Pops
<1> QED BY <1>4, <1>5, <1>6

\* The end of a value, while the text is valid.
LEMMA TakenVerdict ==
  ASSUME IInv, toml.verdict # "invalid", pc' = "read", current' = current,
         NEW n \in Nat \ {0}, Len(reading) = n + 1, reading' = Next_(Holders), toml' = Taken,
         NEW fs, Described(fs),
         NEW p, NEW x, Finds(toml.known, fs, n, p, x), NEW s \in AllSteps,
         NEW T, Ends_(p, s, T), Stands(toml.known, n, T), Lacks(toml.known, n, T),
         Plain(toml.known, n, p),
         Heap(nodes'), Links(nodes, nodes', x, s, Top.id),
         reading[n].value.kind = "list" => Len(nodes'[reading[n].id].items) = reading[n].next
  PROVE  Verdict'
<1> DEFINE D == Join(toml.known[n].defined, toml.known[n + 1].defined)
<1>1. /\ toml.verdict \in {"valid", "tolerated"} /\ IsToml(toml) /\ IsKnown(toml.known)
      /\ FaultlessIn(nodes) /\ Heap(nodes) /\ Forest(nodes, Roots(reading)) /\ Placed
      /\ Layers(nodes, toml.known, reading, fs) /\ Len(toml.known) = n + 1
      /\ \A i \in 1..Len(toml.known) : Arrayed(toml.known[i].defined)
      /\ Stacked(nodes, reading)
  BY TrueState DEF Described, IInv, Shape
<1>2. n \in 1..Len(reading) /\ 1 \in 1..n /\ n + 1 - 1 = n /\ \A i \in 1..n : i \in 1..n + 1
  OBVIOUS
<1>3. /\ Len(reading') = n /\ Pops(reading', reading, n)
      /\ \A i \in 1..n :
            /\ reading'[i].value = reading[i].value /\ reading'[i].keys = reading[i].keys
            /\ reading'[i].next = IF i = n THEN reading[i].next + 1 ELSE reading[i].next
  <2> DEFINE t == Next_(SubSeq(reading, 1, n))
  <2>1. /\ Len(t) = n /\ Pops(t, reading, n)
        /\ \A i \in 1..n : /\ t[i].value = reading[i].value /\ t[i].keys = reading[i].keys
                           /\ t[i].next = IF i = n THEN reading[i].next + 1 ELSE reading[i].next
    BY <1>1, HoldersNext
  <2>2. reading' = t
    BY <1>2 DEF Holders
  <2> HIDE DEF t
  <2> QED BY <2>1, <2>2
<1>4. /\ IsToml(toml') /\ toml'.verdict = toml.verdict /\ toml'.section = toml.section
      /\ Merges(toml'.known, toml.known, n, D)
  <2>1. Narrows(toml, toml', n, D)
    <3>1. Len(reading) - 1 = n
      BY <1>2
    <3>2. Taken = [toml EXCEPT !.known = SubSeq([toml.known EXCEPT ![n].defined = D], 1, n)]
      BY ONLY <3>1 DEF Taken
    <3> HIDE DEF D
    <3> QED BY ONLY <3>2, toml' = Taken DEF Narrows
  <2> HIDE DEF D
  <2> QED BY <1>1, <2>1, TomlTaken
<1>5. Takes(toml'.known, toml.known, n) /\ IsTop(reading, n, Top.id)
  BY <1>4 DEF Takes, IsTop, Top
<1>6. /\ FaultlessIn(nodes') /\ \A i \in 1..Len(toml'.known) : Arrayed(toml'.known[i].defined)
      /\ \E gs : /\ Layers(nodes', toml'.known, reading', gs)
                 /\ Extends(reading', toml'.known, gs, toml.known, fs)
  <2>1. /\ n \in Nat \ {0} /\ Len(reading) = n + 1 /\ s \in AllSteps
        /\ Finds(toml.known, fs, n, p, x) /\ Ends_(p, s, T) /\ Stands(toml.known, n, T)
        /\ Lacks(toml.known, n, T) /\ Plain(toml.known, n, p)
        /\ Heap(nodes') /\ Links(nodes, nodes', x, s, Top.id)
        /\ Pops(reading', reading, n)
    BY <1>3
  <2> QED BY ONLY <1>1, <1>5, <2>1, TakenLayers
<1>7. PICK gs : /\ Layers(nodes', toml'.known, reading', gs)
                /\ Extends(reading', toml'.known, gs, toml.known, fs)
  BY <1>6
<1>8. /\ IsKnown(toml'.known) /\ \A i \in 1..n : toml'.known[i].path = toml.known[i].path
  BY <1>4 DEF Merges
<1>9. Located(gs)'
  <2>1. toml.section \in DOMAIN toml.known[1].defined /\ fs[1][toml.section] = current
    BY DEF Described, Located
  <2>2. toml'.section \in DOMAIN toml'.known[1].defined /\ gs[1][toml'.section] = current'
    BY <1>2, <1>3, <1>4, <1>7, <2>1 DEF Extends
  <2> QED BY <2>2 DEF Located
<1>10. Described(gs)'
  BY <1>6, <1>7, <1>8, <1>9 DEF Described
<1>11. ASSUME NEW i \in 1..n, i # n
       PROVE  nodes'[reading[i].id] = nodes[reading[i].id]
  <2>1. i \in 1..Len(reading)
    BY <1>2
  <2>2. reading[i].id # x
    <3>1. Layer(nodes, toml.known[i].defined, toml.known[i].path, reading[i].id, fs[i])
          /\ \A q \in DOMAIN toml.known[i].defined, a \in DOMAIN toml.known[n].defined :
                fs[i][q] # fs[n][a]
      BY <1>1, <1>2, <1>11, <2>1, LayersAre
    <3>2. /\ toml.known[i].path \in DOMAIN toml.known[i].defined
          /\ fs[i][toml.known[i].path] = reading[i].id
      BY <3>1, LayerIds
    <3> QED BY <3>1, <3>2 DEF Finds
  <2>3. reading[i].id \in Ids(nodes)
    BY <1>1, <2>1, RootIds
  <2> QED BY <2>2, <2>3 DEF Links, But
<1>12. Placed'
  <2>1. toml'.known[1].path = << >>
    BY <1>1, <1>2, <1>8 DEF Placed
  <2>2. ASSUME NEW i \in 2..Len(reading')
        PROVE  /\ toml'.known[i].path =
                      IF reading'[i].keys = << >>
                      THEN Append(toml'.known[i - 1].path, Item(reading'[i - 1].next))
                      ELSE (IF i - 1 = 1 THEN toml'.section ELSE toml'.known[i - 1].path)
                             \o Steps(reading'[i].keys)
               /\ reading'[i].value.kind = "list" =>
                      Len(nodes'[reading'[i].id].items) = reading'[i].next - 1
    <3>1. i \in 1..n /\ i - 1 \in 1..n /\ i - 1 # n /\ i \in 2..Len(reading)
      BY <1>3
    <3>2. /\ toml'.known[i].path = toml.known[i].path
          /\ toml'.known[i - 1].path = toml.known[i - 1].path
          /\ reading'[i].keys = reading[i].keys /\ reading'[i].value = reading[i].value
          /\ reading'[i - 1].next = reading[i - 1].next
          /\ reading'[i].id = reading[i].id
      BY <1>3, <1>8, <3>1 DEF Pops
    <3>3. toml'.known[i].path =
                IF reading'[i].keys = << >>
                THEN Append(toml'.known[i - 1].path, Item(reading'[i - 1].next))
                ELSE (IF i - 1 = 1 THEN toml'.section ELSE toml'.known[i - 1].path)
                       \o Steps(reading'[i].keys)
      BY <1>1, <1>4, <3>1, <3>2 DEF Placed, Below
    <3>4. CASE i = n
      <4>1. reading'[i].next = reading[i].next + 1 /\ reading[i].next \in Nat
        BY <1>1, <1>3, <3>1, <3>4 DEF Stacked, IsFrame
      <4> QED BY <3>2, <3>3, <3>4, <4>1
    <3>5. CASE i # n
      <4>1. reading'[i].next = reading[i].next /\ nodes'[reading[i].id] = nodes[reading[i].id]
        BY <1>3, <1>11, <3>1, <3>5
      <4>2. reading[i].value.kind = "list" => Len(nodes[reading[i].id].items) = reading[i].next - 1
        BY <1>1, <3>1 DEF Placed
      <4> QED BY <3>2, <3>3, <4>1, <4>2
    <3> QED BY <3>4, <3>5
  <2> QED BY <2>1, <2>2 DEF Placed, Below
<1>13. IsToml(toml)' /\ toml'.verdict \in {"valid", "tolerated"}
  BY <1>1, <1>4
<1> QED BY <1>6, <1>10, <1>12, <1>13, TrueVerdict

\* The last key of an entry.
LEMMA EntryValueVerdict ==
  ASSUME IInv, EntryValue
  PROVE  Verdict'
<1> DEFINE k == walk.keys[1]
           t == walk.id
           n == Len(reading) - 1
           D == toml.known[n].defined
           p == Append(toml.place, Step(k))
<1>1. /\ nodes' = AddEntry(At(nodes, t), k, Top.id) /\ reading' = Next_(Holders)
      /\ current' = current /\ pc' = "read" /\ pc = "entry" /\ Len(walk.keys) = 1
      /\ Rule(Status(D, p), {"undefined"}, {}, Taken)
  BY DEF EntryValue, RuleEntry, Here, At
<1>2. (Faulty => Faulty') /\ (Complains(nodes', t) => Faulty')
  BY EntryValueShape DEF IInv
<1>3. CASE toml.verdict = "invalid"
  <2>1. toml = Rejected /\ Faulty
    BY <1>3 DEF IInv, Verdict
  <2>2. toml' = Rejected
    BY <1>1, <1>3 DEF Rule
  <2> QED BY <1>2, <2>1, <2>2, RejectedVerdict
<1>4. CASE toml.verdict # "invalid"
  <2>1. /\ FaultlessIn(nodes) /\ Heap(nodes) /\ Forest(nodes, Roots(reading))
    BY <1>4, TrueState
  <2>2. PICK fs : Described(fs)
    BY <1>4, TrueState
  <2>3. /\ n \in Nat \ {0} /\ n \in 1..Len(reading) /\ Len(reading) = n + 1
        /\ k \in Keys /\ t \in Ids(nodes) /\ IsTable(nodes, t) /\ walk.keys \in Dotted
        /\ reading[n].value.kind # "list"
        /\ Finds(toml.known, fs, n, toml.place, t) /\ toml.place \in Seq(AllSteps)
        /\ toml.known[n + 1].path = toml.place \o Steps(walk.keys)
        /\ Top = reading[n + 1]
    BY <1>1, <1>4, <2>2, EntryState
  <2>4. Layer(nodes, D, toml.known[n].path, reading[n].id, fs[n])
    <3>1. Layers(nodes, toml.known, reading, fs)
      BY <2>2 DEF Described
    <3> QED BY <2>3, <3>1, LayersAre
  <2>5. toml.place \in DOMAIN D /\ fs[n][toml.place] = t /\ nodes[t].errors = {}
    BY <2>1, <2>3 DEF Finds, FaultlessIn
  <2>6. /\ p \in DOMAIN D <=> Has(nodes, t, k)
        /\ Step(k) \in AllSteps
    <3> HIDE DEF D, k, t, n
    <3> QED BY <2>1, <2>3, <2>4, <2>5, FoundNode
  <2>7. Top.id \in Roots(reading)
    <3>1. n + 1 \in 1..Len(reading)
      BY <2>3
    <3> QED BY <2>1, <2>3, <3>1, RootIds
  <2>8. /\ Grows(nodes, nodes')
        /\ Has(nodes, t, k) => Complains(nodes', t)
        /\ ~Has(nodes, t, k) => Links(nodes, nodes', t, Step(k), Top.id)
    <3> DEFINE c == Top.id
               m == AddEntry(At(nodes, t), k, c)
    <3>1. c \in Roots(reading) /\ nodes' = m
      BY <1>1, <2>7
    <3> HIDE DEF c, k, t
    <3>2. /\ Grows(nodes, m)
          /\ Has(nodes, t, k) => Complains(m, t)
          /\ ~Has(nodes, t, k) => Links(nodes, m, t, Step(k), c)
      BY <2>1, <2>3, <3>1, AddEntryLeads
    <3> HIDE DEF m
    <3> QED BY <3>1, <3>2 DEF c
  <2>9. CASE p \notin DOMAIN D
    <3>1. toml' = Taken
      <4>1. Status(D, p) = "undefined"
        BY <2>9 DEF Status
      <4> HIDE DEF D, p
      <4> QED BY <1>1, <1>4, <4>1 DEF Rule
    <3>2. Links(nodes, nodes', t, Step(k), Top.id) /\ Heap(nodes')
      BY <2>6, <2>8, <2>9 DEF Grows
    <3>3. Ends_(toml.place, Step(k), p) /\ Lacks(toml.known, n, p)
      BY <2>9 DEF Ends_, Lacks
    <3>4. Stands(toml.known, n, p)
      <4>1. toml.place \o Steps(walk.keys) = p
        BY <1>1, <2>3, PathConcat
      <4> QED BY <2>3, <4>1 DEF Stands
    <3>5. Plain(toml.known, n, toml.place)
      <4>1. Suits(nodes[t], D[toml.place])
        BY <2>4, <2>5, LayerIds
      <4>2. D[toml.place].how = "array" => nodes[t].kind = "tables"
        <5> HIDE DEF D, t
        <5> QED BY <4>1 DEF Suits
      <4>3. nodes[t].kind # "tables"
        BY <2>3 DEF IsTable, Tables
      <4> QED BY <4>2, <4>3 DEF Plain
    <3> DEFINE s == Step(k)
    <3>6. s \in AllSteps /\ Ends_(toml.place, s, p) /\ Links(nodes, nodes', t, s, Top.id)
      BY <2>6, <3>2, <3>3
    <3> HIDE DEF s, p, n, t, D
    <3> QED BY ONLY IInv, <1>1, <1>4, <2>2, <2>3, <3>1, <3>2, <3>3, <3>4, <3>5, <3>6, TakenVerdict
  <2>10. CASE p \in DOMAIN D
    <3>1. Complains(nodes', t)
      BY <2>6, <2>8, <2>10
    <3>2. Status(D, p) = D[p].how
      BY <2>10 DEF Status
    <3>3. D[p].how \in Hows
      BY <2>4, <2>10, LayerIds DEF Suits
    <3>4. Status(D, p) \notin {"undefined"} /\ Status(D, p) \notin {} \ {"undefined"}
      BY <3>2, <3>3 DEF Hows
    <3>5. toml' = Rejected
      <4> HIDE DEF D, p
      <4> QED BY <1>1, <1>4, <3>4 DEF Rule
    <3> QED BY <1>2, <3>1, <3>5, RejectedVerdict
  <2> QED BY <2>9, <2>10
<1> QED BY <1>3, <1>4

\* An item is put into its list.
LEMMA PushItemVerdict ==
  ASSUME IInv, PushItem
  PROVE  Verdict'
<1> DEFINE n == Len(reading) - 1
           x == reading[n].id
           c == Top.id
           D == toml.known[n].defined
           p == toml.known[n].path
           i == reading[n].next
           s == Item(i)
           T == Append(p, s)
<1>1. /\ Complete /\ Top.keys = << >> /\ nodes' = Push(nodes, x, c) /\ reading' = Next_(Holders)
      /\ current' = current /\ pc' = pc /\ pc = "read"
      /\ toml' = IF toml.verdict = "invalid" THEN toml ELSE Taken
  BY DEF PushItem, Complete
<1>2. Faulty => Faulty'
  BY PushItemShape DEF IInv
<1>3. CASE toml.verdict = "invalid"
  BY <1>1, <1>2, <1>3, RejectedVerdict DEF IInv, Verdict
<1>4. CASE toml.verdict # "invalid"
  <2>1. /\ FaultlessIn(nodes) /\ Heap(nodes) /\ Forest(nodes, Roots(reading)) /\ Placed
        /\ Stacked(nodes, reading) /\ Len(toml.known) = Len(reading)
    BY <1>4, TrueState DEF IInv, Shape
  <2>2. PICK fs : Described(fs)
    BY <1>4, TrueState
  <2>3. /\ Len(reading) > 1 /\ Len(reading) \in Nat /\ reading[n].value.kind = "list"
    BY <1>1, TopIsValue, CompleteKind DEF IInv
  <2>4. /\ n \in Nat \ {0} /\ Len(reading) = n + 1 /\ n \in 1..Len(reading)
        /\ n + 1 \in 2..Len(reading) /\ n + 1 \in 1..Len(reading) /\ n + 1 - 1 = n
    <3> DEFINE l == Len(reading)
    <3>1. l > 1 /\ l \in Nat
      BY <2>3
    <3> HIDE DEF l
    <3>2. /\ l - 1 \in Nat \ {0} /\ l = (l - 1) + 1 /\ l - 1 \in 1..l
          /\ (l - 1) + 1 \in 2..l /\ (l - 1) + 1 \in 1..l /\ (l - 1) + 1 - 1 = l - 1
      BY ONLY <3>1
    <3> QED BY ONLY <3>2 DEF l
  <2>5. n \in 2..Len(reading)
    <3>1. reading[1].value.kind = "document"
      BY <2>1 DEF Stacked
    <3>2. n # 1
      BY <2>3, <3>1
    <3> QED BY <2>4, <3>2
  <2>6. /\ nodes[x].kind = "list" /\ i \in Nat \ {0} /\ Len(nodes[x].items) = i - 1
    <3> HIDE DEF n
    <3> QED BY <2>1, <2>3, <2>5 DEF Stacked, IsFrame, Placed
  <2>7. Top = reading[n + 1] /\ c \in Roots(reading) /\ c \in Ids(nodes) /\ x \in Ids(nodes)
    <3>1. Top = reading[n + 1]
      BY <2>4 DEF Top
    <3> QED BY <2>1, <2>4, <3>1, RootIds
  <2>8. toml.known[n + 1].path = T
    <3>1. reading[n + 1].keys = << >>
      BY <1>1, <2>7
    <3>2. toml.known[n + 1].path = Append(toml.known[n + 1 - 1].path, Item(reading[n + 1 - 1].next))
      BY <2>1, <2>4, <3>1 DEF Placed
    <3> QED BY <2>4, <3>2
  <2>9. Layer(nodes, D, p, x, fs[n])
    <3>1. Layers(nodes, toml.known, reading, fs)
      BY <2>2 DEF Described
    <3> QED BY <2>4, <3>1, LayersAre
  <2>10. p \in DOMAIN D /\ fs[n][p] = x /\ Suits(nodes[x], D[p])
    BY <2>9, LayerIds
  <2>11. s \in AllSteps /\ i - 1 + 1 = i /\ IsArray(nodes, x)
    <3>1. s \in AllSteps
      BY <2>6, StepsApart
    <3>2. i - 1 + 1 = i
      BY <2>6
    <3>3. IsArray(nodes, x)
      BY <2>6 DEF IsArray, Arrays
    <3> QED BY <3>1, <3>2, <3>3
  <2>12. Heap(nodes') /\ Links(nodes, nodes', x, s, c) /\ Len(nodes'[x].items) = i
    <3> DEFINE m == Push(nodes, x, c)
    <3>1. nodes' = m
      BY <1>1
    <3>2. /\ Heap(m) /\ Links(nodes, m, x, Item(Len(nodes[x].items) + 1), c)
          /\ Len(m[x].items) = Len(nodes[x].items) + 1
      <4> HIDE DEF x, c
      <4> QED BY <2>1, <2>7, <2>11, PushLinks
    <3>3. Len(nodes[x].items) + 1 = i
      BY <2>6, <2>11
    <3> HIDE DEF m, x, c, i
    <3> QED BY <3>1, <3>2, <3>3
  <2>13. Finds(toml.known, fs, n, p, x) /\ Ends_(p, s, T) /\ Stands(toml.known, n, T)
    BY <2>8, <2>10 DEF Finds, Ends_, Stands
  <2>14. Lacks(toml.known, n, T)
    <3>1. T \in DOMAIN D => Edge(nodes, x, s, fs[n][T])
      <4> HIDE DEF D, x, s, n, p
      <4> QED BY <2>1, <2>9, <2>10, <2>11, LayerEdges
    <3>2. ~Edge(nodes, x, Item(i), fs[n][T])
      <4>1. i \notin 1..Len(nodes[x].items)
        <5> DEFINE l == Len(nodes[x].items)
        <5>1. l = i - 1 /\ i \in Nat
          BY <2>6
        <5> HIDE DEF l, i
        <5> QED BY ONLY <5>1 DEF l
      <4>2. i \in Nat
        BY <2>6
      <4> HIDE DEF x, i, n, T
      <4> QED BY <2>1, <2>7, <4>1, <4>2, Edges
    <3> QED BY <3>1, <3>2 DEF Lacks
  <2>15. Plain(toml.known, n, p)
    <3>1. D[p].how = "array" => nodes[x].kind = "tables"
      <4> HIDE DEF D, x, p
      <4> QED BY <2>10 DEF Suits
    <3> QED BY <2>6, <3>1 DEF Plain
  <2>16. Links(nodes, nodes', x, s, Top.id) /\ pc' = "read" /\ toml' = Taken
         /\ Len(nodes'[reading[n].id].items) = reading[n].next
    BY <1>1, <1>4, <2>12
  <2> HIDE DEF s, T, p, x, n, c, i
  <2> QED BY ONLY IInv, <1>1, <1>4, <2>2, <2>4, <2>11, <2>12, <2>13, <2>14, <2>15, <2>16,
             TakenVerdict DEF n
<1> QED BY <1>3, <1>4

-----------------------------------------------------------------------------
(* Invariance *)

\* Every step keeps the tree and what TOML says of it together.
LEMMA VerdictStep ==
  ASSUME IInv, [Next]_vars
  PROVE  Verdict'
<1>1. CASE \E path \in Paths : Header("table", path) \/ Header("tables", path)
  <2>1. PICK path \in Paths : Header("table", path) \/ Header("tables", path)
    BY <1>1
  <2>2. "table" \in {"table", "tables"} /\ "tables" \in {"table", "tables"}
    OBVIOUS
  <2> QED BY <2>1, <2>2, HeaderVerdict
<1>2. CASE \E path \in Paths, value \in Values : Entry(path, value)
  <2>1. PICK path \in Paths, value \in Values : Entry(path, value)
    BY <1>2
  <2>2. path \in Seq(Keys) /\ path # << >>
    BY PathsAssumption DEF Dotted
  <2>3. pc = "read" /\ Len(reading) = 1 /\ Begin(path, value)
    BY <2>1 DEF Entry, Statement, BetweenStatements
  <2> QED BY <2>2, <2>3, BeginVerdict
<1>3. CASE HeaderKey
  BY <1>3, HeaderKeyVerdict
<1>4. CASE TableHeader
  BY <1>4, TableHeaderVerdict
<1>5. CASE TableArrayHeader
  BY <1>5, TableArrayHeaderVerdict
<1>6. CASE InlineEntry
  <2> DEFINE entry == Top.value.entries[Top.next]
  <2>1. entry.keys \in Dotted /\ entry.value \in Values
    BY <1>6, InlineEntryShape DEF IInv
  <2>2. entry.keys \in Seq(Keys) /\ entry.keys # << >>
    BY <2>1 DEF Dotted
  <2>3. pc = "read" /\ Top.value.kind = "inline" /\ Begin(entry.keys, entry.value)
    BY <1>6 DEF InlineEntry
  <2> HIDE DEF entry
  <2> QED BY <2>1, <2>2, <2>3, BeginVerdict
<1>7. CASE ListItem
  <2> DEFINE value == Top.value.items[Top.next]
             keys == << >>
  <2>1. value \in Values
    BY <1>7, ListItemShape DEF IInv
  <2>2. pc = "read" /\ Top.value.kind = "list" /\ Begin(keys, value) /\ keys = << >>
    BY <1>7 DEF ListItem
  <2>3. keys \in Seq(Keys)
    OBVIOUS
  <2> HIDE DEF value, keys
  <2> QED BY <2>1, <2>2, <2>3, BeginVerdict
<1>8. CASE PushItem
  BY <1>8, PushItemVerdict
<1>9. CASE EntryKeys
  BY <1>9, EntryKeysVerdict
<1>10. CASE EntryKey
  BY <1>10, EntryKeyVerdict
<1>11. CASE EntryValue
  BY <1>11, EntryValueVerdict
<1>12. CASE UNCHANGED vars
  <2>1. /\ nodes' = nodes /\ current' = current /\ reading' = reading /\ pc' = pc
        /\ walk' = walk /\ toml' = toml
    BY <1>12 DEF vars, tree
  <2>2. IsToml(toml)' <=> IsToml(toml)
    BY <2>1
  <2>3. Placed' <=> Placed
    BY <2>1 DEF Placed, Below
  <2>4. Faultless' <=> Faultless
    BY <2>1 DEF Faultless
  <2>5. Faulty' <=> Faulty
    BY <2>1 DEF Faulty
  <2>6. ASSUME NEW fs, Described(fs)
        PROVE  Described(fs)'
    BY <2>1, <2>6 DEF Described, Located
  <2>7. (\E fs : Described(fs)) => (\E fs : Described(fs))'
    BY <2>6
  <2> QED BY <2>1, <2>2, <2>3, <2>4, <2>5, <2>7 DEF IInv, Verdict
<1> QED BY <1>1, <1>2, <1>3, <1>4, <1>5, <1>6, <1>7, <1>8, <1>9, <1>10, <1>11, <1>12 DEF Next

\* The invariant is inductive.
LEMMA Inductive ==
  /\ Init => IInv
  /\ IInv /\ [Next]_vars => IInv'
<1>1. Init => IInv
  BY InitShape, InitVerdict DEF IInv
<1>2. ASSUME IInv, [Next]_vars
      PROVE  IInv'
  <2>1. Shape'
    BY <1>2, ShapeStep DEF IInv
  <2>2. Verdict'
    BY <1>2, VerdictStep
  <2> QED BY <2>1, <2>2 DEF IInv
<1> QED BY <1>1, <1>2

\* And it is strong enough.
LEMMA Consequences ==
  ASSUME IInv
  PROVE  ValidIsAccepted /\ InvalidIsRecorded /\ TreeIsTheDocument
<1>1. Shape /\ Verdict
  BY DEF IInv
<1>2. ValidIsAccepted
  <2>1. ASSUME toml.verdict # "invalid"
        PROVE  Recorded = {}
    BY <1>1, <2>1, NothingIsRecorded DEF Verdict
  <2> QED BY <2>1 DEF ValidIsAccepted
<1>3. InvalidIsRecorded
  <2>1. ASSUME toml.verdict = "invalid", Len(reading) = 1
        PROVE  Recorded # {}
    BY <1>1, <2>1, FaultIsRecorded DEF Verdict
  <2> QED BY <2>1 DEF InvalidIsRecorded, BetweenStatements
<1>4. TreeIsTheDocument
  <2>1. CASE toml.verdict = "invalid"
    BY <2>1 DEF TreeIsTheDocument
  <2>2. CASE toml.verdict # "invalid"
    <3>1. PICK fs : Described(fs)
      BY <1>1, <2>2 DEF Verdict
    <3>2. Layer(nodes, toml.known[1].defined, << >>, Root, fs[1])
      BY <2>2, <3>1, RootLayer
    <3> QED BY <1>1, <3>2, DescribedTree
  <2> QED BY <2>1, <2>2
<1> QED BY <1>2, <1>3, <1>4

-----------------------------------------------------------------------------
(* The theorems *)

\* The tree is a forest below the document and the values that are being read, and while
\* the text is valid it is what the definitions of TOML describe: the inductive invariant
\* of root_from_syntax and all the merges it calls.
THEOREM TreeInvariant == Spec => []IInv
BY Inductive, PTL DEF Spec

\* Whatever the keys, the values and the number of statements: a document that TOML allows
\* has no error anywhere in its tree, nor has one with the two faults that taplo tolerates.
THEOREM ValidDocumentsAreAccepted == Spec => []ValidIsAccepted
BY TreeInvariant, Consequences, PTL

\* A document that TOML forbids for another reason has an error on a node that can be
\* reached from the root, where flat_iter finds it.
THEOREM InvalidDocumentsAreRecorded == Spec => []InvalidIsRecorded
BY TreeInvariant, Consequences, PTL

\* The tree of a valid document has the paths that TOML gives it and no others, with a
\* table, an array of tables or a value where TOML has one.
THEOREM TreeIsAlwaysTheDocument == Spec => []TreeIsTheDocument
BY TreeInvariant, Consequences, PTL
===============================================================================
