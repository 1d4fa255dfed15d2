---------------------------- MODULE Parser_proof ----------------------------
(***************************************************************************)
(* The tree that the parser builds holds the whole text, for every text:    *)
(* TreeIsTheText, the property the runs of Parser check.                    *)
(*                                                                         *)
(* A parser is Good when the tree holds every token up to the one it looks  *)
(* at, and Placed when it holds that one too, so that the next may be read. *)
(* Each function of the parser leaves a parser that is Good, with as many   *)
(* open nodes as before; the open nodes are those of the calls under way.   *)
(***************************************************************************)
EXTENDS Parser, SequenceTheorems, WellFoundedInduction, TLAPS

-----------------------------------------------------------------------------
(* What is told the builder *)

IsSeq(b) == b \in Seq({b[k] : k \in DOMAIN b})

LEMMA SeqIsSeq ==
  ASSUME NEW S, NEW b \in Seq(S)
  PROVE  IsSeq(b) /\ Len(b) \in Nat /\ DOMAIN b = 1..Len(b)
<1>1. Len(b) \in Nat /\ DOMAIN b = 1..Len(b) /\ b \in [1..Len(b) -> S]
  BY LenProperties
<1>2. b \in [1..Len(b) -> {b[k] : k \in DOMAIN b}]
  BY <1>1
<1>3. b \in Seq({b[k] : k \in DOMAIN b})
  BY <1>1, <1>2, SMTT(30)
<1> QED BY <1>1, <1>3 DEF IsSeq

\* GreenNodeBuilder appends what it is told.
LEMMA Told ==
  ASSUME NEW b, IsSeq(b), NEW e
  PROVE  /\ IsSeq(Append(b, e)) /\ Len(b) \in Nat /\ DOMAIN b = 1..Len(b)
         /\ DOMAIN Append(b, e) = 1..(Len(b) + 1) /\ Len(Append(b, e)) = Len(b) + 1
         /\ \A k \in 1..Len(b) : Append(b, e)[k] = b[k]
         /\ Append(b, e)[Len(b) + 1] = e
<1> DEFINE S == {b[k] : k \in DOMAIN b} \cup {e}
           c == Append(b, e)
<1>1. b \in Seq(S)
  BY SeqMonotonic DEF IsSeq
<1>2. e \in S
  OBVIOUS
<1> HIDE DEF S
<1>3. c \in Seq(S) /\ Len(c) = Len(b) + 1 /\ Len(b) \in Nat /\ DOMAIN b = 1..Len(b)
  BY <1>1, <1>2, LenProperties, AppendProperties, SMT
<1>4. (\A k \in 1..Len(b) : c[k] = b[k]) /\ c[Len(b) + 1] = e
  BY <1>1, <1>2, AppendProperties
<1> HIDE DEF c
<1>5. IsSeq(c) /\ DOMAIN c = 1..(Len(b) + 1)
  BY <1>3, SeqIsSeq
<1> QED BY <1>3, <1>4, <1>5 DEF c

LEMMA ToldAll ==
  ASSUME NEW b, IsSeq(b), NEW c, IsSeq(c)
  PROVE  /\ IsSeq(b \o c) /\ Len(b) \in Nat /\ Len(c) \in Nat /\ DOMAIN b = 1..Len(b)
         /\ DOMAIN (b \o c) = 1..(Len(b) + Len(c))
         /\ \A k \in 1..Len(b) : (b \o c)[k] = b[k]
         /\ \A k \in Len(b) + 1..Len(b) + Len(c) : (b \o c)[k] = c[k - Len(b)]
<1> DEFINE S == {b[k] : k \in DOMAIN b} \cup {c[k] : k \in DOMAIN c}
           d == b \o c
<1>1. b \in Seq(S) /\ c \in Seq(S)
  BY SeqMonotonic DEF IsSeq
<1> HIDE DEF S
<1>2. Len(b) \in Nat /\ Len(c) \in Nat /\ DOMAIN b = 1..Len(b)
  BY <1>1, LenProperties
<1>3. d \in Seq(S) /\ Len(d) = Len(b) + Len(c)
        /\ \A i \in 1..Len(b) + Len(c) : d[i] = IF i <= Len(b) THEN b[i] ELSE c[i - Len(b)]
  BY <1>1, ConcatProperties
<1> HIDE DEF d
<1>4. IsSeq(d) /\ DOMAIN d = 1..(Len(b) + Len(c))
  BY <1>3, SeqIsSeq
<1>5. \A k \in 1..Len(b) : d[k] = b[k]
  BY <1>2, <1>3
<1>6. \A k \in Len(b) + 1..Len(b) + Len(c) : d[k] = c[k - Len(b)]
  BY <1>2, <1>3
<1> QED BY <1>2, <1>4, <1>5, <1>6 DEF d

-----------------------------------------------------------------------------
(* The text the tree holds *)

\* A node that starts or finishes is no text.
LEMMA NodeIsNoText ==
  ASSUME NEW b, IsSeq(b), NEW n \in Nat, IsText(b, n), NEW e, e.event # "token"
  PROVE  IsText(Append(b, e), n)
<1> DEFINE c == Append(b, e)
<1>1. /\ Len(b) \in Nat /\ DOMAIN b = 1..Len(b) /\ DOMAIN c = 1..(Len(b) + 1)
      /\ \A k \in 1..Len(b) : c[k] = b[k]
      /\ c[Len(b) + 1] = e
  BY Told
<1> HIDE DEF c
<1>2. \A i \in 1..n : Printed(c, i)
  <2> TAKE i \in 1..n
  <2>1. Printed(b, i)
    BY DEF IsText
  <2>2. \A k \in DOMAIN b : k \in DOMAIN c /\ c[k] = b[k]
    BY <1>1
  <2> QED BY <2>1, <2>2 DEF Printed
<1>3. \A k \in DOMAIN c : c[k].event = "token" => k \in DOMAIN b /\ b[k] = c[k]
  BY <1>1
<1>4. \A k \in DOMAIN c : c[k].event = "token" => c[k].tok \in 1..n
  BY <1>3 DEF IsText
<1>5. \A k, l \in DOMAIN c :
        c[k].event = "token" /\ c[l].event = "token" /\ k < l => Before(c[k], c[l])
  BY <1>3 DEF IsText
<1> QED BY <1>2, <1>4, <1>5 DEF IsText, c

\* The next token, as a whole.
LEMMA LeafIsText ==
  ASSUME NEW b, IsSeq(b), NEW n \in Nat, IsText(b, n), NEW kind
  PROVE  IsText(Append(b, Leaf(kind, n + 1)), n + 1)
<1> DEFINE e == Leaf(kind, n + 1)
           c == Append(b, e)
<1>0. e.event = "token" /\ e.tok = n + 1 /\ e.part = 0
  BY DEF Leaf, Event
<1> HIDE DEF e
<1>1. /\ Len(b) \in Nat /\ DOMAIN b = 1..Len(b) /\ DOMAIN c = 1..(Len(b) + 1)
      /\ \A k \in 1..Len(b) : c[k] = b[k]
      /\ c[Len(b) + 1] = e
  BY Told
<1> HIDE DEF c
<1>2. \A i \in 1..(n + 1) : Printed(c, i)
  <2> TAKE i \in 1..(n + 1)
  <2>1. CASE i = n + 1
    BY <2>1, <1>0, <1>1 DEF Printed
  <2>2. CASE i \in 1..n
    <3>1. Printed(b, i)
      BY <2>2 DEF IsText
    <3>2. \A k \in DOMAIN b : k \in DOMAIN c /\ c[k] = b[k]
      BY <1>1
    <3> QED BY <3>1, <3>2 DEF Printed
  <2> QED BY <2>1, <2>2
<1>3. \A k \in DOMAIN c : (k \in DOMAIN b /\ b[k] = c[k]) \/ (k = Len(b) + 1 /\ c[k] = e)
  BY <1>1
<1>4. \A k \in DOMAIN c : c[k].event = "token" => c[k].tok \in 1..(n + 1)
  <2>1. \A k \in DOMAIN b : b[k].event = "token" => b[k].tok \in 1..n
    BY DEF IsText
  <2> QED BY <1>0, <1>3, <2>1
<1>5. \A k, l \in DOMAIN c :
        c[k].event = "token" /\ c[l].event = "token" /\ k < l => Before(c[k], c[l])
  <2> SUFFICES ASSUME NEW k \in DOMAIN c, NEW l \in DOMAIN c,
                      c[k].event = "token", c[l].event = "token", k < l
               PROVE  Before(c[k], c[l])
    OBVIOUS
  <2>1. k \in DOMAIN b /\ c[k] = b[k]
    BY <1>1
  <2>2. b[k].tok \in 1..n
    BY <2>1 DEF IsText
  <2>3. CASE l \in DOMAIN b
    BY <1>1, <2>1, <2>3 DEF IsText
  <2>4. CASE l = Len(b) + 1
    BY <1>0, <1>1, <2>1, <2>2, <2>4 DEF Before
  <2> QED BY <1>3, <2>3, <2>4
<1> QED BY <1>2, <1>4, <1>5 DEF IsText, c, e

\* Several tokens that are skipped.
LEMMA LeavesAreText ==
  ASSUME NEW b, IsSeq(b), NEW n \in Nat, IsText(b, n), NEW c, IsSeq(c),
         \A k \in 1..Len(c) : c[k].event = "token" /\ c[k].tok = n + k /\ c[k].part = 0
  PROVE  IsText(b \o c, n + Len(c))
<1> DEFINE d == b \o c
           m == Len(c)
<1>1. /\ Len(b) \in Nat /\ m \in Nat /\ DOMAIN b = 1..Len(b) /\ DOMAIN d = 1..(Len(b) + m)
      /\ \A k \in 1..Len(b) : d[k] = b[k]
      /\ \A k \in Len(b) + 1..Len(b) + m : d[k] = c[k - Len(b)]
  BY ToldAll
<1>2. \A k \in 1..m : c[k].event = "token" /\ c[k].tok = n + k /\ c[k].part = 0
  OBVIOUS
<1> HIDE DEF d, m
<1>3. \A k \in DOMAIN d : \/ k \in DOMAIN b /\ d[k] = b[k]
                          \/ /\ k - Len(b) \in 1..m /\ k > Len(b)
                             /\ d[k].event = "token" /\ d[k].tok = n + (k - Len(b)) /\ d[k].part = 0
  <2> TAKE k \in DOMAIN d
  <2>1. CASE k \in 1..Len(b)
    BY <1>1, <2>1
  <2>2. CASE k \in Len(b) + 1..Len(b) + m
    <3>1. k - Len(b) \in 1..m /\ k > Len(b)
      BY <1>1, <2>2
    <3>2. d[k] = c[k - Len(b)]
      BY <1>1, <2>2
    <3> QED BY <1>2, <3>1, <3>2
  <2> QED BY <1>1, <2>1, <2>2
<1>4. \A i \in 1..(n + m) : Printed(d, i)
  <2> TAKE i \in 1..(n + m)
  <2>1. CASE i \in 1..n
    <3>1. Printed(b, i)
      BY <2>1 DEF IsText
    <3>2. \A k \in DOMAIN b : k \in DOMAIN d /\ d[k] = b[k]
      BY <1>1
    <3> QED BY <3>1, <3>2 DEF Printed
  <2>2. CASE i - n \in 1..m
    <3> DEFINE k == Len(b) + (i - n)
    <3>1. k \in Len(b) + 1..Len(b) + m /\ k \in DOMAIN d /\ k - Len(b) = i - n
      BY <1>1, <2>2
    <3>2. d[k] = c[i - n]
      BY <1>1, <3>1
    <3>3. c[i - n].tok = n + (i - n) /\ c[i - n].part = 0
      BY <1>2, <2>2
    <3>4. n + (i - n) = i
      OBVIOUS
    <3> HIDE DEF k
    <3> QED BY <3>1, <3>2, <3>3, <3>4 DEF Printed
  <2> QED BY <1>1, <2>1, <2>2
<1>5. \A k \in DOMAIN b : b[k].event = "token" => b[k].tok \in 1..n
  BY DEF IsText
<1>6. \A k \in DOMAIN d : d[k].event = "token" => d[k].tok \in 1..(n + m)
  BY <1>1, <1>3, <1>5
<1>7. \A k, l \in DOMAIN d :
        d[k].event = "token" /\ d[l].event = "token" /\ k < l => Before(d[k], d[l])
  <2> SUFFICES ASSUME NEW k \in DOMAIN d, NEW l \in DOMAIN d,
                      d[k].event = "token", d[l].event = "token", k < l
               PROVE  Before(d[k], d[l])
    OBVIOUS
  <2>1. CASE l \in DOMAIN b
    <3>1. k \in DOMAIN b /\ d[k] = b[k] /\ d[l] = b[l]
      BY <1>1, <2>1
    <3> QED BY <2>1, <3>1 DEF IsText
  <2>2. CASE l \notin DOMAIN b /\ k \in DOMAIN b
    <3>1. d[l].tok = n + (l - Len(b)) /\ l - Len(b) \in 1..m
      BY <1>3, <2>2
    <3>2. d[k] = b[k]
      BY <1>1, <2>2
    <3>3. d[k].tok \in 1..n
      BY <1>5, <2>2, <3>2
    <3>4. d[k].tok < d[l].tok
      BY <1>1, <3>1, <3>3
    <3> QED BY <3>4 DEF Before
  <2>3. CASE l \notin DOMAIN b /\ k \notin DOMAIN b
    <3>1. d[l].tok = n + (l - Len(b)) /\ d[k].tok = n + (k - Len(b))
      BY <1>3, <2>3
    <3>2. k \in Int /\ l \in Int /\ Len(b) \in Int
      BY <1>1
    <3>3. n + (k - Len(b)) < n + (l - Len(b))
      BY <3>2
    <3> QED BY <3>1, <3>3 DEF Before
  <2> QED BY <2>1, <2>2, <2>3
<1> QED BY <1>4, <1>6, <1>7 DEF IsText, d, m

\* The next token, split at its periods.
LEMMA PartsAreText ==
  ASSUME NEW b, IsSeq(b), NEW n \in Nat, IsText(b, n), NEW x, NEW y, NEW z,
         x.event = "token", x.tok = n + 1, x.part = 1,
         y.event = "token", y.tok = n + 1, y.part = 2,
         z.event = "token", z.tok = n + 1, z.part = 3
  PROVE  IsSeq(Append(Append(Append(b, x), y), z)) /\ IsText(Append(Append(Append(b, x), y), z), n + 1)
<1> DEFINE c == Append(b, x)
           d == Append(c, y)
           e == Append(d, z)
           m == Len(b)
<1>1. /\ IsSeq(c) /\ m \in Nat /\ DOMAIN b = 1..m /\ Len(c) = m + 1
      /\ \A k \in 1..m : c[k] = b[k]
      /\ c[m + 1] = x
  BY Told
<1> HIDE DEF c
<1>2. /\ IsSeq(d) /\ Len(d) = Len(c) + 1
      /\ \A k \in 1..Len(c) : d[k] = c[k]
      /\ d[Len(c) + 1] = y
  BY <1>1, Told
<1> HIDE DEF d
<1>3. /\ IsSeq(e) /\ DOMAIN e = 1..(Len(d) + 1)
      /\ \A k \in 1..Len(d) : e[k] = d[k]
      /\ e[Len(d) + 1] = z
  BY <1>2, Told
<1> HIDE DEF e, m
<1>4. /\ DOMAIN e = 1..(m + 3) /\ e[m + 1] = x /\ e[m + 2] = y /\ e[m + 3] = z
      /\ \A k \in 1..m : e[k] = b[k]
  BY <1>1, <1>2, <1>3
<1>5. \A k \in DOMAIN e : \/ k \in DOMAIN b /\ e[k] = b[k]
                          \/ k > m /\ e[k].tok = n + 1 /\ e[k].part = k - m
  <2> TAKE k \in DOMAIN e
  <2>1. k \in 1..m \/ k = m + 1 \/ k = m + 2 \/ k = m + 3
    BY <1>1, <1>4
  <2> QED BY <1>1, <1>4, <2>1
<1>6. \A i \in 1..(n + 1) : Printed(e, i)
  <2> TAKE i \in 1..(n + 1)
  <2>1. CASE i = n + 1
    <3> SUFFICES ASSUME NEW part \in 1..3
                 PROVE  \E k \in DOMAIN e : e[k].tok = i /\ e[k].part = part
      BY DEF Printed
    <3>1. m + part \in DOMAIN e /\ (part = 1 \/ part = 2 \/ part = 3)
      BY <1>1, <1>4
    <3>2. e[m + part].tok = i /\ e[m + part].part = part
      BY <1>4, <2>1, <3>1
    <3> QED BY <3>1, <3>2
  <2>2. CASE i \in 1..n
    <3>1. Printed(b, i)
      BY <2>2 DEF IsText
    <3>2. \A k \in DOMAIN b : k \in DOMAIN e /\ e[k] = b[k]
      BY <1>1, <1>4
    <3> QED BY <3>1, <3>2 DEF Printed
  <2> QED BY <2>1, <2>2
<1>7. \A k \in DOMAIN b : b[k].event = "token" => b[k].tok \in 1..n
  BY DEF IsText
<1>8. \A k \in DOMAIN e : e[k].event = "token" => e[k].tok \in 1..(n + 1)
  BY <1>5, <1>7
<1>9. \A k, l \in DOMAIN e :
        e[k].event = "token" /\ e[l].event = "token" /\ k < l => Before(e[k], e[l])
  <2> SUFFICES ASSUME NEW k \in DOMAIN e, NEW l \in DOMAIN e,
                      e[k].event = "token", e[l].event = "token", k < l
               PROVE  Before(e[k], e[l])
    OBVIOUS
  <2>0. k \in Int /\ l \in Int /\ m \in Int
    BY <1>1, <1>4
  <2>1. CASE l \in DOMAIN b
    <3>1. k \in DOMAIN b /\ e[k] = b[k] /\ e[l] = b[l]
      BY <1>1, <1>4, <2>1
    <3> QED BY <2>1, <3>1 DEF IsText
  <2>2. CASE l \notin DOMAIN b /\ k \in DOMAIN b
    <3>1. e[l].tok = n + 1 /\ e[k] = b[k]
      BY <1>1, <1>4, <1>5, <2>2
    <3>2. e[k].tok \in 1..n
      BY <1>7, <2>2, <3>1
    <3>3. e[k].tok < e[l].tok
      BY <3>1, <3>2
    <3> QED BY <3>3 DEF Before
  <2>3. CASE l \notin DOMAIN b /\ k \notin DOMAIN b
    <3>1. e[l].tok = e[k].tok /\ e[k].part = k - m /\ e[l].part = l - m /\ k > m
      BY <1>5, <2>3
    <3>2. 0 < k - m /\ k - m < l - m
      BY <2>0, <3>1
    <3> QED BY <3>1, <3>2 DEF Before
  <2> QED BY <2>1, <2>2, <2>3
<1> QED BY <1>3, <1>6, <1>8, <1>9 DEF IsText, e, d, c

-----------------------------------------------------------------------------
(* The parser *)

LEMMA LeastNumber ==
  ASSUME NEW S, S \subseteq Nat, S # {}
  PROVE  Min(S) \in S
<1> DEFINE R == OpToRel(<, Nat)
<1>1. \E x \in S : \A y \in S : ~(<<y, x>> \in R)
  <2>1. IsWellFoundedOn(R, Nat)
    BY NatLessThanWellFounded
  <2> QED BY <2>1, WFMin
<1>2. \A x, y \in S : <<y, x>> \in R <=> y < x
  BY DEF OpToRel
<1> HIDE DEF R
<1>3. \A x, y \in S : y < x \/ x <= y
  OBVIOUS
<1>4. PICK x \in S : \A y \in S : x <= y
  BY <1>1, <1>2, <1>3
<1> QED BY <1>4 DEF Min

Fields == {"tokens", "at", "current", "skip_whitespace", "key_pattern_syntax",
           "error_whitelist", "errors", "last", "builder", "parents", "ok"}
Shape(p) == p = [f \in Fields |-> p[f]]

\* How many tokens were read: the lexer is behind the last one at the end.
Read(p) == IF p.at > Len(p.tokens) THEN Len(p.tokens) ELSE p.at

Sound(p) ==
  /\ Shape(p)
  /\ Len(p.tokens) \in Nat
  /\ p.at \in 0..Len(p.tokens) + 1
  /\ p.parents \in Int
  /\ IsSeq(p.builder)
  /\ ~p.key_pattern_syntax

\* The tree holds every token that was read.
Placed(p) == Sound(p) /\ IsText(p.builder, Read(p))

\* It holds them but for the one that is looked at.
Good(p) ==
  /\ Sound(p)
  /\ \/ p.current = 0 /\ IsText(p.builder, Read(p))
     \/ p.current = p.at /\ p.at \in 1..Len(p.tokens) /\ IsText(p.builder, p.at - 1)

\* What no function of the parser changes, but for nodes it starts and finishes.
Keeps(p, q) ==
  /\ q.tokens = p.tokens /\ q.key_pattern_syntax = p.key_pattern_syntax
  /\ q.parents = p.parents

\* What is beside the text and the tree: errors, the whitelist, the modes.
Beside(p, q) ==
  /\ Shape(q) /\ Keeps(p, q)
  /\ q.at = p.at /\ q.current = p.current /\ q.builder = p.builder

LEMMA BesideIsGood ==
  ASSUME NEW p, NEW q, Beside(p, q)
  PROVE  (Good(p) => Good(q)) /\ (Placed(p) => Placed(q)) /\ Keeps(p, q)
BY DEF Beside, Keeps, Good, Placed, Sound, Read

LEMMA BesideOps ==
  ASSUME NEW p, Shape(p), NEW v
  PROVE  /\ Beside(p, [p EXCEPT !.ok = v])
         /\ Beside(p, [p EXCEPT !.error_whitelist = v])
         /\ Beside(p, [p EXCEPT !.skip_whitespace = v])
<1>1. Beside(p, [p EXCEPT !.ok = v])
  BY DEF Shape, Fields, Beside, Keeps
<1>2. Beside(p, [p EXCEPT !.error_whitelist = v])
  BY DEF Shape, Fields, Beside, Keeps
<1>3. Beside(p, [p EXCEPT !.skip_whitespace = v])
  BY DEF Shape, Fields, Beside, Keeps
<1> QED BY <1>1, <1>2, <1>3

LEMMA BesideTransitive ==
  ASSUME NEW p, NEW q, NEW r, Beside(p, q), Beside(q, r)
  PROVE  Beside(p, r)
BY DEF Beside, Keeps

LEMMA AddErrorBeside ==
  ASSUME NEW p, Shape(p), NEW range, NEW message
  PROVE  Beside(p, AddError(p, range, message))
<1> DEFINE e == [range |-> range, message |-> message]
           q == [p EXCEPT !.errors = @ \cup {e}, !.last = e]
<1>1. AddError(p, range, message) = q
  BY DEF AddError
<1> HIDE DEF e
<1>2. Beside(p, q)
  BY DEF Shape, Fields, Beside, Keeps
<1> QED BY <1>1, <1>2

LEMMA ErrorsBeside ==
  ASSUME NEW p, Shape(p), NEW message
  PROVE  /\ Beside(p, CheckSlice(p, message))
         /\ Beside(p, ReportError(p, message)) /\ ReportError(p, message).ok = FALSE
<1>1. Beside(p, p)
  BY DEF Beside, Keeps
<1>2. Beside(p, CheckSlice(p, message))
  BY <1>1, AddErrorBeside DEF CheckSlice
<1> DEFINE q == AddError(p, Here(p), message)
           r == [q EXCEPT !.ok = FALSE]
<1>3. Beside(p, q)
  BY AddErrorBeside
<1>4. Shape(q)
  BY <1>3 DEF Beside
<1>5. r = ReportError(p, message)
  BY DEF ReportError, Err
<1> HIDE DEF q
<1>6. Beside(q, r)
  BY <1>4, BesideOps
<1>7. r.ok = FALSE
  BY <1>4 DEF Shape, Fields
<1> HIDE DEF r
<1>8. Beside(p, r)
  BY <1>3, <1>6, BesideTransitive
<1> QED BY <1>2, <1>5, <1>7, <1>8

\* Nodes are started and finished, and the token that is looked at is taken.
LEMMA NodesGood ==
  ASSUME NEW p, Good(p), NEW kind
  PROVE  /\ Good(Start(p, kind)) /\ Start(p, kind).tokens = p.tokens
         /\ Start(p, kind).parents = p.parents + 1
         /\ Good(Finish(p)) /\ Finish(p).tokens = p.tokens
         /\ Finish(p).parents = p.parents - 1
<1>1. ASSUME NEW e, e.event # "token", NEW n \in Int
      PROVE  LET q == [p EXCEPT !.builder = Append(@, e), !.parents = n]
             IN Good(q) /\ q.tokens = p.tokens /\ q.parents = n
  <2> DEFINE q == [p EXCEPT !.builder = Append(@, e), !.parents = n]
             b == p.builder
             c == Append(b, e)
  <2>1. /\ Shape(q) /\ q.tokens = p.tokens /\ q.parents = n /\ q.at = p.at
        /\ q.current = p.current /\ q.builder = c
        /\ q.key_pattern_syntax = p.key_pattern_syntax
    BY DEF Good, Sound, Shape, Fields
  <2>2. IsSeq(b) /\ IsSeq(c)
    BY Told DEF Good, Sound
  <2>3. \A m \in Nat : IsText(b, m) => IsText(c, m)
    BY <1>1, <2>2, NodeIsNoText
  <2> HIDE DEF q, c, b
  <2>4. Sound(q) /\ Read(q) = Read(p)
    BY <1>1, <2>1, <2>2 DEF Good, Sound, Read
  <2>5. Read(p) \in Nat /\ (p.at \in 1..Len(p.tokens) => p.at - 1 \in Nat)
    BY DEF Good, Sound, Read
  <2>6. Good(q)
    BY <2>1, <2>3, <2>4, <2>5 DEF Good, b
  <2> QED BY <2>1, <2>6 DEF q
<1>2. p.parents + 1 \in Int /\ p.parents - 1 \in Int
  BY DEF Good, Sound
<1>3. Event("start", kind, 0, 0).event # "token" /\ Event("finish", "", 0, 0).event # "token"
  BY DEF Event
<1>4. Good(Start(p, kind)) /\ Start(p, kind).tokens = p.tokens
        /\ Start(p, kind).parents = p.parents + 1
  BY <1>1, <1>2, <1>3 DEF Start
<1>5. Good(Finish(p)) /\ Finish(p).tokens = p.tokens /\ Finish(p).parents = p.parents - 1
  BY <1>1, <1>2, <1>3 DEF Finish
<1> QED BY <1>4, <1>5

LEMMA TakenPlaced ==
  ASSUME NEW p, Good(p), p.current # 0, NEW kind
  PROVE  Placed(Taken(p, kind)) /\ Keeps(p, Taken(p, kind))
<1> DEFINE b == p.builder
           c == Append(b, Leaf(kind, p.at))
           q == [p EXCEPT !.builder = c]
<1>1. p.current = p.at /\ p.at \in 1..Len(p.tokens) /\ Sound(p) /\ IsText(b, p.at - 1)
  BY DEF Good
<1>2. Taken(p, kind) = q
  BY <1>1 DEF Taken, Insert
<1>3. IsSeq(b)
  BY <1>1 DEF Sound
<1>4. IsSeq(c)
  BY <1>3, Told
<1>5. p.at - 1 \in Nat /\ (p.at - 1) + 1 = p.at
  BY <1>1 DEF Sound
<1>6. IsText(c, p.at)
  BY <1>1, <1>3, <1>5, LeafIsText
<1> HIDE DEF c
<1>7. /\ Shape(q) /\ q.tokens = p.tokens /\ q.parents = p.parents /\ q.at = p.at
      /\ q.builder = c /\ q.key_pattern_syntax = p.key_pattern_syntax
  BY <1>1 DEF Sound, Shape, Fields
<1> HIDE DEF q
<1>8. Sound(q)
  BY <1>1, <1>4, <1>7 DEF Sound
<1>9. Read(q) = p.at
  BY <1>1, <1>7 DEF Read, Sound
<1>10. Placed(q) /\ Keeps(p, q)
  BY <1>6, <1>7, <1>8, <1>9 DEF Placed, Keeps
<1> QED BY <1>2, <1>10

LEMMA SplitPlaced ==
  ASSUME NEW p, Good(p), p.current # 0
  PROVE  Placed(Split(p)) /\ Keeps(p, Split(p))
<1> DEFINE b == p.builder
           x == Event("token", "IDENT", p.at, 1)
           y == Event("token", "PERIOD", p.at, 2)
           z == Event("token", "IDENT", p.at, 3)
           c == Append(Append(Append(b, x), y), z)
           q == [p EXCEPT !.builder = c]
<1>1. p.current = p.at /\ p.at \in 1..Len(p.tokens) /\ Sound(p) /\ IsText(b, p.at - 1)
  BY DEF Good
<1>2. Split(p) = q
  <2>1. \A r, e : Insert(r, e) = [r EXCEPT !.builder = Append(@, e)]
    BY DEF Insert
  <2>2. Split(p) = Insert(Insert(Insert(p, x), y), z)
    BY <1>1 DEF Split
  <2> HIDE DEF x, y, z
  <2>3. Shape(p)
    BY <1>1 DEF Sound
  <2> QED BY <2>1, <2>2, <2>3 DEF Shape, Fields
<1>3. IsSeq(b)
  BY <1>1 DEF Sound
<1>4. p.at - 1 \in Nat /\ (p.at - 1) + 1 = p.at
  BY <1>1 DEF Sound
<1>5. /\ x.event = "token" /\ x.tok = p.at /\ x.part = 1
      /\ y.event = "token" /\ y.tok = p.at /\ y.part = 2
      /\ z.event = "token" /\ z.tok = p.at /\ z.part = 3
  BY DEF Event
<1> HIDE DEF x, y, z
<1>6. IsSeq(c) /\ IsText(c, p.at)
  BY <1>1, <1>3, <1>4, <1>5, PartsAreText
<1> HIDE DEF c
<1>7. /\ Shape(q) /\ q.tokens = p.tokens /\ q.parents = p.parents /\ q.at = p.at
      /\ q.builder = c /\ q.key_pattern_syntax = p.key_pattern_syntax
  BY <1>1 DEF Sound, Shape, Fields
<1> HIDE DEF q
<1>8. Sound(q)
  BY <1>1, <1>6, <1>7 DEF Sound
<1>9. Read(q) = p.at
  BY <1>1, <1>7 DEF Read, Sound
<1>10. Placed(q) /\ Keeps(p, q)
  BY <1>6, <1>7, <1>8, <1>9 DEF Placed, Keeps
<1> QED BY <1>2, <1>10

LEMMA NextTokenRange ==
  ASSUME NEW p, Sound(p)
  PROVE  NextToken(p) \in Nat /\ NextToken(p) =< Len(p.tokens) + 1 /\ NextToken(p) > Read(p)
           /\ (p.at = Len(p.tokens) + 1 => NextToken(p) = Len(p.tokens) + 1)
<1> DEFINE n == Len(p.tokens)
           S == {i \in (p.at + 1)..n : Kind[p.tokens[i]] \notin Skips(p)} \cup {n + 1}
<1>1. n \in Nat /\ p.at \in 0..n + 1
  BY DEF Sound
<1>2. \A i \in S : i \in Nat /\ i =< n + 1 /\ i > Read(p) /\ (p.at = n + 1 => i = n + 1)
  BY <1>1 DEF Read
<1>3. S \subseteq Nat /\ S # {}
  BY <1>1, <1>2
<1> HIDE DEF S
<1>4. Min(S) \in S
  BY <1>3, LeastNumber
<1>5. NextToken(p) = Min(S)
  BY DEF NextToken, S
<1> QED BY <1>2, <1>4, <1>5

LEMMA FunctionIsSeq ==
  ASSUME NEW m \in Nat, NEW S, NEW c \in [1..m -> S]
  PROVE  IsSeq(c) /\ Len(c) = m
<1>1. c \in Seq(S)
  BY SMT
<1>2. DOMAIN c = 1..m /\ Len(c) \in Nat /\ DOMAIN c = 1..Len(c)
  BY <1>1, LenProperties
<1>3. Len(c) = m
  BY <1>2
<1> QED BY <1>1, <1>3, SeqIsSeq

\* step: the tokens that are skipped go into the tree, the next is looked at.
LEMMA StepGood ==
  ASSUME NEW p, Placed(p)
  PROVE  Good(Step(p)) /\ Keeps(p, Step(p))
<1> DEFINE n == Len(p.tokens)
           next == NextToken(p)
           m == next - 1 - p.at
           c == [i \in 1..m |-> Leaf(Kind[p.tokens[p.at + i]], p.at + i)]
           q == Step(p)
<1>1. Sound(p) /\ IsText(p.builder, Read(p)) /\ n \in Nat /\ p.at \in 0..n + 1 /\ IsSeq(p.builder)
  BY DEF Placed, Sound
<1>2. next \in Nat /\ next =< n + 1 /\ next > Read(p) /\ (p.at = n + 1 => next = n + 1)
  BY <1>1, NextTokenRange
<1>3. q = StepTo(p, next)
  BY DEF Step
<1> HIDE DEF next
<1>4. /\ Shape(q) /\ q.tokens = p.tokens /\ q.parents = p.parents /\ q.at = next
      /\ q.current = (IF next <= n THEN next ELSE 0) /\ q.builder = p.builder \o c
      /\ q.key_pattern_syntax = p.key_pattern_syntax
  <2> DEFINE errs == p.errors \cup {Reported(p, i) : i \in {i \in (p.at + 1)..(next - 1) :
                        Kind[p.tokens[i]] = "ERROR" \/ p.tokens[i] \in Malformed}}
             last == IF {i \in (p.at + 1)..(next - 1) :
                          Kind[p.tokens[i]] = "ERROR" \/ p.tokens[i] \in Malformed} = {} THEN p.last
                     ELSE Reported(p, Max({i \in (p.at + 1)..(next - 1) :
                            Kind[p.tokens[i]] = "ERROR" \/ p.tokens[i] \in Malformed}))
             cur == IF next <= n THEN next ELSE 0
             b == p.builder \o c
  <2>1. q = [p EXCEPT !.at = next, !.current = cur, !.builder = b, !.errors = errs, !.last = last]
    BY <1>3 DEF StepTo
  <2>2. Shape(p)
    BY <1>1 DEF Sound
  <2> HIDE DEF errs, last, c, q, cur, b
  <2>3. /\ Shape(q) /\ q.tokens = p.tokens /\ q.parents = p.parents /\ q.at = next
        /\ q.current = cur /\ q.builder = b /\ q.key_pattern_syntax = p.key_pattern_syntax
    BY <2>1, <2>2 DEF Shape, Fields
  <2> QED BY <2>3 DEF cur, b
<1> SUFFICES Good(q) /\ Keeps(p, q)
  OBVIOUS
<1>5. CASE p.at = n + 1
  <2>1. q.current = 0 /\ next = n + 1 /\ Read(p) = n
    BY <1>1, <1>2, <1>4, <1>5 DEF Read
  <2>2. c = << >>
    <3> DEFINE S == {c[i] : i \in 1..m}
    <3>1. 1..m = 1..0
      BY <1>5, <2>1
    <3>2. c \in [1..0 -> S]
      BY <3>1
    <3> HIDE DEF m, c, S
    <3>3. c \in Seq(S) /\ Len(c) = 0
      BY <3>2, FunctionIsSeq, SMT
    <3> QED BY <3>3, EmptySeq
  <2>4. q.builder = p.builder
    BY <1>1, <1>4, <2>2, ConcatEmptySeq DEF IsSeq
  <2> HIDE DEF q, c, m
  <2>5. Sound(q) /\ Read(q) = n
    BY <1>1, <1>4, <2>1, <2>4 DEF Sound, Read
  <2> QED BY <1>1, <1>4, <2>1, <2>4, <2>5 DEF Good, Keeps
<1>6. CASE p.at =< n
  <2>1. m \in Nat /\ Read(p) = p.at /\ p.at \in Nat /\ p.at + m = next - 1
    BY <1>1, <1>2, <1>6 DEF Read
  <2>2. IsSeq(c) /\ Len(c) = m
    <3> DEFINE S == {c[i] : i \in 1..m}
    <3>1. c \in [1..m -> S]
      OBVIOUS
    <3> HIDE DEF m, c, S
    <3> QED BY <2>1, <3>1, FunctionIsSeq
  <2>3. \A k \in 1..Len(c) : c[k].event = "token" /\ c[k].tok = p.at + k /\ c[k].part = 0
    <3> SUFFICES ASSUME NEW k \in 1..m
                 PROVE  c[k].event = "token" /\ c[k].tok = p.at + k /\ c[k].part = 0
      BY <2>2
    <3>1. c[k] = Leaf(Kind[p.tokens[p.at + k]], p.at + k)
      OBVIOUS
    <3> HIDE DEF c
    <3> QED BY <3>1 DEF Leaf, Event
  <2> HIDE DEF c, q, m
  <2>4. IsText(p.builder \o c, p.at + m) /\ IsSeq(p.builder \o c)
    BY <1>1, <2>1, <2>2, <2>3, LeavesAreText, ToldAll
  <2>5. IsText(q.builder, next - 1) /\ IsSeq(q.builder)
    BY <1>4, <2>1, <2>4
  <2>6. Sound(q)
    BY <1>1, <1>2, <1>4, <2>5 DEF Sound
  <2>7. CASE next <= n
    <3>1. q.current = q.at /\ q.at \in 1..n
      BY <1>1, <1>2, <1>4, <2>1, <2>7
    <3> QED BY <1>4, <2>5, <2>6, <3>1 DEF Good, Keeps
  <2>8. CASE next = n + 1
    <3>1. q.current = 0 /\ Read(q) = next - 1
      BY <1>1, <1>4, <2>8 DEF Read
    <3> QED BY <1>4, <2>5, <2>6, <3>1 DEF Good, Keeps
  <2> QED BY <1>1, <1>2, <2>7, <2>8
<1> QED BY <1>1, <1>5, <1>6

LEMMA GetTokenGood ==
  ASSUME NEW p, Good(p)
  PROVE  /\ Good(GetToken(p)) /\ Keeps(p, GetToken(p))
         /\ GetToken(p).ok <=> GetToken(p).current # 0
         /\ GetToken(p).ok \in BOOLEAN
<1> DEFINE q == IF p.current = 0 THEN Step(p) ELSE p
<1>1. Good(q) /\ Keeps(p, q)
  <2>1. CASE p.current = 0
    <3>1. Placed(p)
      BY <2>1 DEF Good, Placed, Sound
    <3> QED BY <2>1, <3>1, StepGood
  <2>2. CASE p.current # 0
    BY <2>2 DEF Keeps
  <2> QED BY <2>1, <2>2
<1>2. GetToken(p) = Looked(q)
  BY DEF GetToken
<1> HIDE DEF q
<1> DEFINE r == Looked(q)
<1>3. Shape(q)
  BY <1>1 DEF Good, Sound
<1>4. Beside(q, r)
  BY <1>3, BesideOps DEF Looked
<1>5. r.ok = (q.current # 0) /\ r.current = q.current
  BY <1>3 DEF Looked, Shape, Fields
<1> HIDE DEF r
<1>6. Good(r) /\ Keeps(q, r)
  BY <1>1, <1>4, BesideIsGood
<1>7. Keeps(p, r)
  BY <1>1, <1>6 DEF Keeps
<1> QED BY <1>2, <1>5, <1>6, <1>7 DEF r

\* What a function of the parser that fills no node of its own leaves.
Leaves(p, q) == Good(q) /\ Keeps(p, q)

LEMMA LeavesTransitive ==
  ASSUME NEW p, NEW q, NEW r, Keeps(p, q), Leaves(q, r)
  PROVE  Leaves(p, r)
BY DEF Leaves, Keeps

LEMMA BesideLeaves ==
  ASSUME NEW p, Good(p)
  PROVE  /\ \A v : Leaves(p, [p EXCEPT !.ok = v])
         /\ \A v : Leaves(p, [p EXCEPT !.error_whitelist = v])
         /\ \A v : Leaves(p, [p EXCEPT !.skip_whitespace = v])
         /\ \A m : Leaves(p, CheckSlice(p, m))
         /\ \A m : Leaves(p, ReportError(p, m)) /\ ReportError(p, m).ok = FALSE
         /\ \A r, m : Leaves(p, AddError(p, r, m))
<1>1. Shape(p)
  BY DEF Good, Sound
<1>2. \A q : Beside(p, q) => Leaves(p, q)
  BY BesideIsGood DEF Leaves
<1>3. /\ \A v : Beside(p, [p EXCEPT !.ok = v])
      /\ \A v : Beside(p, [p EXCEPT !.error_whitelist = v])
      /\ \A v : Beside(p, [p EXCEPT !.skip_whitespace = v])
  BY <1>1, BesideOps
<1>4. \A m : /\ Beside(p, CheckSlice(p, m))
             /\ Beside(p, ReportError(p, m)) /\ ReportError(p, m).ok = FALSE
  BY <1>1, ErrorsBeside
<1>5. \A r, m : Beside(p, AddError(p, r, m))
  BY <1>1, AddErrorBeside
<1> QED BY <1>2, <1>3, <1>4, <1>5

LEMMA TakeSteps ==
  ASSUME NEW p, Good(p), p.current # 0, NEW kind
  PROVE  Leaves(p, Step(Taken(p, kind))) /\ Leaves(p, Step(Split(p)))
           /\ Leaves(p, [Taken(p, kind) EXCEPT !.current = 0])
<1>1. Placed(Taken(p, kind)) /\ Keeps(p, Taken(p, kind))
  BY TakenPlaced
<1>2. Placed(Split(p)) /\ Keeps(p, Split(p))
  BY SplitPlaced
<1>3. \A q : Placed(q) => Leaves(q, Step(q))
  BY StepGood DEF Leaves
<1>4. Leaves(p, Step(Taken(p, kind)))
  BY <1>1, <1>3, LeavesTransitive
<1>5. Leaves(p, Step(Split(p)))
  BY <1>2, <1>3, LeavesTransitive
<1>6. Leaves(p, [Taken(p, kind) EXCEPT !.current = 0])
  <2> DEFINE t == Taken(p, kind)
             r == [t EXCEPT !.current = 0]
  <2>1. Placed(t) /\ Keeps(p, t)
    BY <1>1
  <2> HIDE DEF t
  <2>2. Shape(t)
    BY <2>1 DEF Placed, Sound
  <2>3. /\ Shape(r) /\ r.tokens = t.tokens /\ r.parents = t.parents /\ r.at = t.at
        /\ r.current = 0 /\ r.builder = t.builder
        /\ r.key_pattern_syntax = t.key_pattern_syntax
    BY <2>2 DEF Shape, Fields
  <2> HIDE DEF r
  <2>4. Sound(r) /\ Read(r) = Read(t)
    BY <2>1, <2>3 DEF Placed, Sound, Read
  <2>5. Good(r)
    BY <2>1, <2>3, <2>4 DEF Placed, Good
  <2>6. Leaves(p, r)
    BY <2>1, <2>3, <2>5 DEF Leaves, Keeps
  <2> QED BY <2>6 DEF r, t
<1> QED BY <1>4, <1>5, <1>6

LEMMA TokensGood ==
  ASSUME NEW p, Good(p)
  PROVE  /\ \A kind : Leaves(p, TokenAs(p, kind))
         /\ Leaves(p, Token(p)) /\ Leaves(p, AddToken(p))
<1> DEFINE q == GetToken(p)
<1>1. Leaves(p, q) /\ (q.ok <=> q.current # 0)
  BY GetTokenGood DEF Leaves
<1> HIDE DEF q
<1>2. ASSUME q.ok, NEW kind
      PROVE  Leaves(p, Step(Taken(q, kind))) /\ Leaves(p, [Taken(q, kind) EXCEPT !.current = 0])
  <2>1. Good(q) /\ q.current # 0 /\ Keeps(p, q)
    BY <1>1, <1>2 DEF Leaves
  <2>2. Leaves(q, Step(Taken(q, kind))) /\ Leaves(q, [Taken(q, kind) EXCEPT !.current = 0])
    BY <2>1, TakeSteps
  <2> QED BY <2>1, <2>2, LeavesTransitive
<1>3. \A kind : Leaves(p, TokenAs(p, kind))
  BY <1>1, <1>2 DEF TokenAs, q
<1>4. Leaves(p, Token(p))
  BY <1>1, <1>2 DEF Token, q
<1>5. Leaves(p, AddToken(p))
  BY <1>1, <1>2 DEF AddToken, q
<1> QED BY <1>3, <1>4, <1>5

LEMMA ErrorGood ==
  ASSUME NEW p, Good(p), NEW message
  PROVE  Leaves(p, Error(p, message)) /\ Error(p, message).ok = FALSE
<1> DEFINE q == IF p.last.range = Here(p) THEN p ELSE AddError(p, Here(p), message)
           r == IF p.last.range = Here(p) \/ (p.current # 0 /\ ~Whitelisted(p))
                THEN TokenAs(q, "ERROR") ELSE q
           s == [r EXCEPT !.ok = FALSE]
<1>1. Leaves(p, q)
  <2>1. Leaves(p, p)
    BY DEF Leaves, Keeps
  <2>2. Leaves(p, AddError(p, Here(p), message))
    BY BesideLeaves
  <2> QED BY <2>1, <2>2
<1> HIDE DEF q
<1>2. Leaves(q, TokenAs(q, "ERROR")) /\ Leaves(q, q)
  BY <1>1, TokensGood DEF Leaves, Keeps
<1>3. Leaves(q, r)
  BY <1>2
<1> HIDE DEF r
<1>4. Good(r) /\ Keeps(q, r)
  BY <1>3 DEF Leaves
<1>5. Leaves(r, s)
  BY <1>4, BesideLeaves
<1>6. s.ok = FALSE
  BY <1>4 DEF Good, Sound, Shape, Fields
<1> HIDE DEF s
<1>7. Leaves(p, s)
  BY <1>1, <1>4, <1>5, LeavesTransitive DEF Leaves
<1>8. Error(p, message) = s
  BY DEF Error, Err, s, r, q
<1> QED BY <1>6, <1>7, <1>8

LEMMA MustTokenOrGood ==
  ASSUME NEW p, Good(p), NEW kind, NEW message
  PROVE  Leaves(p, MustTokenOr(p, kind, message))
<1> DEFINE q == GetToken(p)
<1>1. Good(q) /\ Keeps(p, q)
  BY GetTokenGood
<1> HIDE DEF q
<1>2. Leaves(q, ReportError(q, "unexpected EOF")) /\ Leaves(q, Token(q))
        /\ Leaves(q, Error(q, message))
  BY <1>1, BesideLeaves, TokensGood, ErrorGood
<1>3. /\ Leaves(p, ReportError(q, "unexpected EOF")) /\ Leaves(p, Token(q))
      /\ Leaves(p, Error(q, message))
  BY <1>1, <1>2, LeavesTransitive
<1> QED BY <1>3 DEF MustTokenOr, q

LEMMA ParseIdentGood ==
  ASSUME NEW p, Good(p)
  PROVE  Leaves(p, ParseIdent(p))
<1> DEFINE q == GetToken(p)
           r == CheckSlice(q, "invalid escape sequence")
           m == IF IdentCase(q) = "padded" THEN "zero-padded numbers are not allowed"
                ELSE "expected identifier"
<1>1. Good(q) /\ Keeps(p, q) /\ (q.ok => q.current # 0)
  BY GetTokenGood
<1> HIDE DEF q
<1>2. Leaves(p, q)
  BY <1>1 DEF Leaves
<1>3. Leaves(p, TokenAs(r, "IDENT"))
  <2>1. Good(r) /\ Keeps(q, r)
    BY <1>1, BesideLeaves DEF Leaves
  <2> HIDE DEF r
  <2>2. Leaves(r, TokenAs(r, "IDENT"))
    BY <2>1, TokensGood
  <2> QED BY <1>1, <2>1, <2>2, LeavesTransitive
<1>4. q.ok => Leaves(p, Step(Split(q)))
  BY <1>1, TakeSteps, LeavesTransitive
<1>5. Leaves(p, Err(q))
  <2>1. Leaves(q, Err(q))
    BY <1>1, BesideLeaves DEF Err
  <2> QED BY <1>1, <2>1, LeavesTransitive
<1>6. Leaves(p, Error(q, m))
  <2> HIDE DEF m
  <2>1. Leaves(q, Error(q, m))
    BY <1>1, ErrorGood
  <2> QED BY <1>1, <2>1, LeavesTransitive
<1>7. CASE ~q.ok
  BY <1>2, <1>7 DEF ParseIdent, q
<1>8. CASE q.ok
  <2>1. CASE IdentCase(q) = "ident"
    BY <1>3, <1>8, <2>1 DEF ParseIdent, q
  <2>2. CASE IdentCase(q) = "split"
    BY <1>4, <1>8, <2>2 DEF ParseIdent, q
  <2>3. CASE IdentCase(q) = "refuse"
    BY <1>5, <1>8, <2>3 DEF ParseIdent, q
  <2>4. CASE IdentCase(q) \notin {"ident", "split", "refuse"}
    BY <1>6, <1>8, <2>4 DEF ParseIdent, q
  <2> QED BY <2>1, <2>2, <2>3, <2>4
<1> QED BY <1>7, <1>8

\* Another node is open when a value turns out to be an array or a table.
LEMMA ParseValueGood ==
  ASSUME NEW p, Good(p)
  PROVE  /\ Good(ParseValue(p)) /\ ParseValue(p).tokens = p.tokens
         /\ \/ Collection(p) = << >> /\ ParseValue(p).parents = p.parents
            \/ /\ ParseValue(p).parents = p.parents + 1
               /\ \/ Collection(p) = <<Call("ARRAY", {}, {"first"})>>
                  \/ Collection(p) = <<Call("INLINE_TABLE", {}, {})>>
<1> DEFINE q == GetToken(p)
           v == ParseValue(p)
           Scalar(r) == Good(r) /\ r.tokens = p.tokens /\ r.parents = p.parents
           Node(r) == Good(r) /\ r.tokens = p.tokens /\ r.parents = p.parents + 1
           kind == CurrentKind(q)
           class == q.tokens[q.current]
<1>1. Good(q) /\ Keeps(p, q)
  BY GetTokenGood
<1> HIDE DEF q
<1>2. \A r : Leaves(q, r) => Scalar(r)
  BY <1>1 DEF Leaves, Keeps
<1>3. \A m : Scalar(Error(q, m))
  BY <1>1, <1>2, ErrorGood
<1>4. Scalar(Token(CheckSlice(q, "invalid escape sequence")))
  <2> DEFINE r == CheckSlice(q, "invalid escape sequence")
  <2>1. Good(r) /\ Keeps(q, r)
    BY <1>1, BesideLeaves DEF Leaves
  <2> HIDE DEF r
  <2>2. Leaves(q, Token(r))
    BY <2>1, TokensGood, LeavesTransitive
  <2> QED BY <1>2, <2>2 DEF r
<1>5. Scalar(Ok(ReportError(q, "expected value")))
  <2> DEFINE r == ReportError(q, "expected value")
  <2>1. Good(r) /\ Keeps(q, r)
    BY <1>1, BesideLeaves DEF Leaves
  <2> HIDE DEF r
  <2>2. Leaves(r, Ok(r))
    BY <2>1, BesideLeaves DEF Ok
  <2>3. Leaves(q, Ok(r))
    BY <2>1, <2>2, LeavesTransitive
  <2> QED BY <1>2, <2>3 DEF r
<1>6. \A node, k, m : Node(MustTokenOr(Start(q, node), k, m))
  <2> SUFFICES ASSUME NEW node, NEW k, NEW m
               PROVE  Node(MustTokenOr(Start(q, node), k, m))
    OBVIOUS
  <2> DEFINE r == Start(q, node)
  <2>1. Good(r) /\ r.tokens = q.tokens /\ r.parents = q.parents + 1
    BY <1>1, NodesGood
  <2> HIDE DEF r
  <2>2. Leaves(r, MustTokenOr(r, k, m))
    BY <2>1, MustTokenOrGood
  <2> QED BY <1>1, <2>1, <2>2 DEF Leaves, Keeps, r
<1> HIDE DEF Scalar, Node
<1>7. CASE ~q.ok
  <2>1. v = Error(q, "expected value") /\ Collection(p) = << >>
    BY <1>7 DEF ParseValue, Collection, q
  <2> QED BY <1>3, <2>1 DEF Scalar
<1>8. CASE q.ok /\ class \in Padded \cup BadUnderscores
  <2>1. kind \notin {"BRACKET_START", "BRACE_START"}
    BY <1>8 DEF CurrentKind, Kind, Padded, BadUnderscores
  <2>2. Collection(p) = << >>
    BY <2>1 DEF Collection, q
  <2>3. Scalar(v)
    BY <1>3, <1>8 DEF ParseValue, q
  <2> QED BY <2>2, <2>3 DEF Scalar
<1>9. CASE q.ok /\ class \notin Padded \cup BadUnderscores
  <2>1. CASE kind = "BRACKET_START"
    <3>1. v = MustTokenOr(Start(q, "ARRAY"), "BRACKET_START", "expected [")
      BY <1>9, <2>1 DEF ParseValue, q
    <3>2. Collection(p) = <<Call("ARRAY", {}, {"first"})>>
      BY <1>9, <2>1 DEF Collection, q
    <3> QED BY <1>6, <3>1, <3>2 DEF Node
  <2>2. CASE kind = "BRACE_START"
    <3>1. v = MustTokenOr(Start(q, "INLINE_TABLE"), "BRACE_START", "expected {")
      BY <1>9, <2>2 DEF ParseValue, q
    <3>2. Collection(p) = <<Call("INLINE_TABLE", {}, {})>>
      BY <1>9, <2>2 DEF Collection, q
    <3> QED BY <1>6, <3>1, <3>2 DEF Node
  <2>3. CASE kind \notin {"BRACKET_START", "BRACE_START"}
    <3>1. Collection(p) = << >>
      BY <2>3 DEF Collection, q
    <3>2. Scalar(v)
      BY <1>3, <1>4, <1>5, <1>9, <2>3 DEF ParseValue, q
    <3> QED BY <3>1, <3>2 DEF Scalar
  <2> QED BY <2>1, <2>2, <2>3
<1> QED BY <1>7, <1>8, <1>9

LEMMA HeadersGood ==
  ASSUME NEW p, Good(p)
  PROVE  /\ Good(OpenOnce(p)) /\ OpenOnce(p).tokens = p.tokens
         /\ OpenOnce(p).parents = p.parents + 1
         /\ Good(OpenTwice(p)) /\ OpenTwice(p).tokens = p.tokens
         /\ OpenTwice(p).parents = p.parents + 1
         /\ Leaves(p, CloseTwice(p))
<1>1. \A r : Good(r) => Leaves(r, Touching(r)) /\ Leaves(r, Apart(r))
  BY BesideLeaves DEF Touching, Apart
<1>2. \A r, kind, m : Good(r) => Leaves(r, MustTokenOr(r, kind, m))
  BY MustTokenOrGood
<1>3. Good(OpenOnce(p)) /\ OpenOnce(p).tokens = p.tokens /\ OpenOnce(p).parents = p.parents + 1
  <2> DEFINE r == Start(p, "TABLE_HEADER")
  <2>1. Good(r) /\ r.tokens = p.tokens /\ r.parents = p.parents + 1
    BY NodesGood
  <2>2. OpenOnce(p) = MustTokenOr(r, "BRACKET_START", "expected [")
    BY DEF OpenOnce
  <2> HIDE DEF r
  <2>3. Leaves(r, MustTokenOr(r, "BRACKET_START", "expected ["))
    BY <1>2, <2>1
  <2> QED BY <2>1, <2>2, <2>3 DEF Leaves, Keeps
<1>4. Good(OpenTwice(p)) /\ OpenTwice(p).tokens = p.tokens /\ OpenTwice(p).parents = p.parents + 1
  <2> DEFINE r == Start(p, "TABLE_ARRAY_HEADER")
             s == Touching(r)
             t == MustTokenOr(s, "BRACKET_START", "expected [[")
             u == MustTokenOr(t, "BRACKET_START", "expected [[")
  <2>1. Good(r) /\ r.tokens = p.tokens /\ r.parents = p.parents + 1
    BY NodesGood
  <2>2. OpenTwice(p) = Apart(u)
    BY DEF OpenTwice
  <2> HIDE DEF r
  <2>3. Leaves(r, s)
    BY <1>1, <2>1
  <2> HIDE DEF s
  <2>4. Leaves(s, t)
    BY <1>2, <2>3 DEF Leaves
  <2> HIDE DEF t
  <2>5. Leaves(t, u)
    BY <1>2, <2>4 DEF Leaves
  <2> HIDE DEF u
  <2>6. Leaves(u, Apart(u))
    BY <1>1, <2>5 DEF Leaves
  <2> QED BY <2>1, <2>2, <2>3, <2>4, <2>5, <2>6 DEF Leaves, Keeps
<1>5. Leaves(p, CloseTwice(p))
  <2> DEFINE r == Touching(p)
             s == MustTokenOr(r, "BRACKET_END", "expected ]]")
             close1 == GetToken(s)
             t == Taken(close1, "BRACKET_END")
  <2>1. Leaves(p, r)
    BY <1>1
  <2> HIDE DEF r
  <2>2. Leaves(r, s)
    BY <1>2, <2>1 DEF Leaves
  <2> HIDE DEF s
  <2>3. Good(close1) /\ Keeps(s, close1) /\ (close1.ok => close1.current # 0)
    BY <2>2, GetTokenGood DEF Leaves
  <2>4. CloseTwice(p) = IF ~close1.ok THEN close1
                        ELSE IF CurrentKind(close1) = "BRACKET_END" THEN Step(Apart(t))
                        ELSE Error(close1, "expected ]]")
    BY DEF CloseTwice, t, close1, s, r
  <2> HIDE DEF close1
  <2>5. Leaves(close1, close1) /\ Leaves(close1, Error(close1, "expected ]]"))
    BY <2>3, ErrorGood DEF Leaves, Keeps
  <2>6. ASSUME close1.ok PROVE Leaves(close1, Step(Apart(t)))
    <3>1. Placed(t) /\ Keeps(close1, t)
      BY <2>3, <2>6, TakenPlaced
    <3> HIDE DEF t
    <3>2. Beside(t, Apart(t))
      <4>1. Shape(t)
        BY <3>1 DEF Placed, Sound
      <4> QED BY <4>1, BesideOps DEF Apart
    <3>3. Placed(Apart(t)) /\ Keeps(t, Apart(t))
      BY <3>1, <3>2, BesideIsGood
    <3>4. Good(Step(Apart(t))) /\ Keeps(Apart(t), Step(Apart(t)))
      BY <3>3, StepGood
    <3> QED BY <3>1, <3>3, <3>4 DEF Leaves, Keeps
  <2>7. Leaves(close1, CloseTwice(p))
    BY <2>4, <2>5, <2>6
  <2> QED BY <2>1, <2>2, <2>3, <2>7 DEF Leaves, Keeps
<1> QED BY <1>3, <1>4, <1>5

-----------------------------------------------------------------------------
(* The calls under way *)

Flags == {"after_period", "valued", "first", "comma_last", "expect_comma_or_end"}

Frames == [node : {"KEY", "ENTRY", "VALUE", "ARRAY", "INLINE_TABLE", "TABLE_HEADER",
                   "TABLE_ARRAY_HEADER"},
           whitelisted : SUBSET {"NEWLINE", "COMMA"},
           locals : SUBSET Flags]

\* The bottom of the calls is parse_entry just when parse_root left an entry
\* open, which it finishes itself.
Rooted(c, open) == c # << >> => (open <=> c[Len(c)].node = "ENTRY")

\* The nodes that are open: the root, one for each call, and the entry that
\* parse_root finishes.
Open(c, open) == 1 + Len(c) + (IF open /\ c = << >> THEN 1 ELSE 0)

\* The parser of a text, with these calls under way.
Balanced(tokens, p, c, open) ==
  /\ Good(p) /\ p.tokens = tokens
  /\ c \in Seq(Frames) /\ Rooted(c, open)
  /\ p.parents = Open(c, open)

ParserInv ==
  /\ done \in BOOLEAN /\ entry_started \in BOOLEAN
  /\ whole /\ ~done => Balanced(text, parser, calls, entry_started)
  /\ whole /\ done => /\ Good(parser) /\ parser.tokens = text
                      /\ calls = << >> /\ parser.parents = 0

\* One function calls another.
LEMMA Called ==
  ASSUME NEW c \in Seq(Frames), NEW f \in Frames
  PROVE  /\ <<f>> \o c \in Seq(Frames) /\ <<f>> \o c # << >>
         /\ Len(<<f>> \o c) = Len(c) + 1 /\ Len(c) \in Nat
         /\ c = << >> => (<<f>> \o c)[Len(<<f>> \o c)] = f
         /\ c # << >> => (<<f>> \o c)[Len(<<f>> \o c)] = c[Len(c)]
<1> DEFINE d == <<f>> \o c
<1>1. <<f>> \in Seq(Frames) /\ Len(<<f>>) = 1 /\ <<f>>[1] = f
  OBVIOUS
<1>2. /\ d \in Seq(Frames) /\ Len(d) = 1 + Len(c)
      /\ \A i \in 1..1 + Len(c) : d[i] = IF i <= 1 THEN <<f>>[i] ELSE c[i - 1]
  BY <1>1, ConcatProperties
<1>3. Len(c) \in Nat /\ (c # << >> => Len(c) > 0) /\ (c = << >> => Len(c) = 0)
  BY LenProperties, EmptySeq
<1> HIDE DEF d
<1>4. d # << >>
  BY <1>2, <1>3
<1>5. c = << >> => d[Len(d)] = f
  BY <1>1, <1>2, <1>3
<1>6. c # << >> => d[Len(d)] = c[Len(c)]
  BY <1>2, <1>3
<1> QED BY <1>2, <1>3, <1>4, <1>5, <1>6 DEF d

LEMMA Callers ==
  ASSUME NEW c \in Seq(Frames), c # << >>
  PROVE  /\ Head(c) \in Frames /\ Tail(c) \in Seq(Frames) /\ Len(c) \in Nat
         /\ Len(c) = Len(Tail(c)) + 1
         /\ Tail(c) = << >> => c[Len(c)] = Head(c)
         /\ Tail(c) # << >> => c[Len(c)] = Tail(c)[Len(Tail(c))]
<1> DEFINE d == Tail(c)
<1>1. /\ Head(c) \in Frames /\ Head(c) = c[1] /\ d \in Seq(Frames) /\ Len(d) = Len(c) - 1
      /\ \A i \in 1..Len(d) : d[i] = c[i + 1]
  BY HeadTailProperties
<1>2. Len(c) \in Nat /\ Len(d) \in Nat /\ Len(c) > 0
  BY <1>1, LenProperties, EmptySeq
<1>3. (d = << >> => Len(d) = 0) /\ (d # << >> => Len(d) > 0)
  BY <1>1, LenProperties, EmptySeq
<1> HIDE DEF d
<1>4. d = << >> => c[Len(c)] = Head(c)
  <2> SUFFICES ASSUME Len(d) = 0
               PROVE  c[Len(c)] = Head(c)
    BY <1>3
  <2>1. Len(c) = 1
    BY <1>1, <1>2
  <2> QED BY <1>1, <2>1
<1>5. d # << >> => c[Len(c)] = d[Len(d)]
  BY <1>1, <1>2, <1>3
<1> QED BY <1>1, <1>2, <1>4, <1>5 DEF d

LEMMA CallsAreFrames ==
  /\ \A w \in SUBSET {"NEWLINE", "COMMA"}, l \in SUBSET Flags,
        node \in {"KEY", "ENTRY", "VALUE", "ARRAY", "INLINE_TABLE", "TABLE_HEADER",
                  "TABLE_ARRAY_HEADER"} :
        Call(node, w, l) \in Frames /\ Call(node, w, l).node = node
  /\ \A f \in Frames, l \in SUBSET Flags :
        [f EXCEPT !.locals = l] \in Frames /\ [f EXCEPT !.locals = l].node = f.node
BY DEF Frames, Call

\* What a function leaves, that started no node.
LEMMA BalancedLeaves ==
  ASSUME NEW t, NEW p, NEW c, NEW open, Balanced(t, p, c, open), NEW q, Leaves(p, q)
  PROVE  Balanced(t, q, c, open)
BY DEF Balanced, Leaves, Keeps

\* A function calls one that fills a node of its own.
LEMMA BalancedCall ==
  ASSUME NEW t, NEW p, NEW c, NEW open \in BOOLEAN, Balanced(t, p, c, open), c # << >>,
         NEW q, Good(q), q.tokens = p.tokens, q.parents = p.parents + 1,
         NEW f \in Frames
  PROVE  Balanced(t, q, <<f>> \o c, open)
<1> DEFINE d == <<f>> \o c
<1>1. c \in Seq(Frames)
  BY DEF Balanced
<1>2. d \in Seq(Frames) /\ d # << >> /\ Len(d) = Len(c) + 1 /\ Len(c) \in Nat
        /\ d[Len(d)] = c[Len(c)]
  BY <1>1, Called
<1> HIDE DEF d
<1>3. Rooted(d, open)
  BY <1>2 DEF Balanced, Rooted
<1>4. q.parents = Open(d, open)
  BY <1>2 DEF Balanced, Open
<1> QED BY <1>2, <1>3, <1>4 DEF Balanced, d

\* parse_root calls one.
LEMMA BalancedRoot ==
  ASSUME NEW t, NEW q, Good(q), q.tokens = t, q.parents = 2,
         NEW f \in Frames, NEW open \in BOOLEAN, open <=> f.node = "ENTRY"
  PROVE  Balanced(t, q, <<f>>, open)
<1> DEFINE d == <<f>>
<1>1. d \in Seq(Frames) /\ d # << >> /\ Len(d) = 1 /\ d[1] = f
  OBVIOUS
<1> HIDE DEF d
<1>2. Rooted(d, open) /\ q.parents = Open(d, open)
  BY <1>1 DEF Rooted, Open
<1> QED BY <1>1, <1>2 DEF Balanced, d

\* It returns: to its caller, or to parse_root.
LEMMA BalancedReturn ==
  ASSUME NEW t, NEW p, NEW c, NEW open \in BOOLEAN, Balanced(t, p, c, open), c # << >>
  PROVE  Balanced(t, Blacklist(IF Head(c).node = "ENTRY" /\ Tail(c) = << >> THEN p ELSE Finish(p),
                               Head(c).whitelisted),
                  Tail(c), open)
<1> DEFINE d == Tail(c)
           q == IF Head(c).node = "ENTRY" /\ d = << >> THEN p ELSE Finish(p)
           r == Blacklist(q, Head(c).whitelisted)
<1>1. c \in Seq(Frames) /\ Good(p)
  BY DEF Balanced
<1>2. /\ d \in Seq(Frames) /\ Len(c) = Len(d) + 1 /\ Len(d) \in Nat
      /\ d = << >> => c[Len(c)] = Head(c)
      /\ d # << >> => c[Len(c)] = d[Len(d)]
  BY <1>1, Callers, LenProperties
<1> HIDE DEF d
<1>3. Good(q) /\ q.tokens = p.tokens
        /\ q.parents = IF Head(c).node = "ENTRY" /\ d = << >> THEN p.parents ELSE p.parents - 1
  BY <1>1, NodesGood
<1> HIDE DEF q
<1>4. Leaves(q, r)
  BY <1>3, BesideLeaves DEF Blacklist
<1> HIDE DEF r
<1>5. Rooted(d, open)
  BY <1>2 DEF Balanced, Rooted
<1>6. p.parents = 1 + Len(c) /\ (d = << >> => (open <=> Head(c).node = "ENTRY"))
  BY <1>2 DEF Balanced, Rooted, Open
<1>7. q.parents = Open(d, open)
  BY <1>2, <1>3, <1>6, EmptySeq DEF Open
<1>8. Balanced(t, q, d, open)
  BY <1>2, <1>3, <1>5, <1>7 DEF Balanced
<1> QED BY <1>4, <1>8, BalancedLeaves DEF r, q, d

\* It goes on, with other locals.
LEMMA BalancedCaller ==
  ASSUME NEW t, NEW p, NEW c, NEW open, Balanced(t, p, c, open), c # << >>,
         NEW l \in SUBSET Flags
  PROVE  /\ Balanced(t, p, <<[Head(c) EXCEPT !.locals = l]>> \o Tail(c), open)
         /\ <<[Head(c) EXCEPT !.locals = l]>> \o Tail(c) # << >>
<1> DEFINE d == Tail(c)
           f == [Head(c) EXCEPT !.locals = l]
           e == <<f>> \o d
<1>1. /\ c \in Seq(Frames) /\ Head(c) \in Frames /\ d \in Seq(Frames)
      /\ Len(c) = Len(d) + 1
      /\ d = << >> => c[Len(c)] = Head(c)
      /\ d # << >> => c[Len(c)] = d[Len(d)]
  BY Callers DEF Balanced
<1> HIDE DEF d
<1>2. f \in Frames /\ f.node = Head(c).node
  BY <1>1, CallsAreFrames
<1> HIDE DEF f
<1>3. /\ e \in Seq(Frames) /\ e # << >> /\ Len(e) = Len(d) + 1
      /\ d = << >> => e[Len(e)] = f
      /\ d # << >> => e[Len(e)] = d[Len(d)]
  BY <1>1, <1>2, Called
<1> HIDE DEF e
<1>4. e[Len(e)].node = c[Len(c)].node /\ Len(e) = Len(c)
  BY <1>1, <1>2, <1>3
<1>5. Rooted(e, open) /\ p.parents = Open(e, open)
  BY <1>3, <1>4 DEF Balanced, Rooted, Open
<1>6. Balanced(t, p, e, open)
  BY <1>3, <1>5 DEF Balanced
<1> QED BY <1>3, <1>6 DEF e, f, d

-----------------------------------------------------------------------------
(* How a function is called, and how it goes on *)

\* What a step of a function under way leaves.
Balance(t, open) == Balanced(t, parser', calls', open)

LEMMA Returns ==
  ASSUME NEW t, NEW open \in BOOLEAN, NEW p, Balanced(t, p, calls, open), calls # << >>,
         Return(p)
  PROVE  Balance(t, open)
BY BalancedReturn DEF Return, Balance, Outer

LEMMA LoopsOn ==
  ASSUME NEW t, NEW open \in BOOLEAN, NEW p, Balanced(t, p, calls, open), calls # << >>,
         NEW l \in SUBSET Flags, LoopOn(p, l)
  PROVE  Balance(t, open)
BY BalancedCaller DEF LoopOn, Balance, Caller, Outer

\* parse_key, from parse_entry or behind the brackets of a header.
LEMMA CallsKey ==
  ASSUME NEW t, NEW open \in BOOLEAN, NEW p, NEW c, Balanced(t, p, c, open), c # << >>,
         CallKey(p, c)
  PROVE  Balance(t, open)
<1> DEFINE r == Start(p, "KEY")
           q == ParseIdent(r)
           s == ReportError(q, "expected identifier")
<1>1. Good(p)
  BY DEF Balanced
<1>2. Good(r) /\ r.tokens = p.tokens /\ r.parents = p.parents + 1
  BY <1>1, NodesGood
<1>3. \/ q.ok /\ parser' = q /\ calls' = <<Call("KEY", {}, {})>> \o c
      \/ ~q.ok /\ parser' = Finish(s) /\ calls' = c
  BY DEF CallKey
<1> HIDE DEF r
<1>4. Leaves(r, q)
  BY <1>2, ParseIdentGood
<1> HIDE DEF q
<1>5. Leaves(q, s)
  BY <1>4, BesideLeaves DEF Leaves
<1> HIDE DEF s
<1>6. Call("KEY", {}, {}) \in Frames
  BY CallsAreFrames
<1>7. Good(q) /\ q.tokens = p.tokens /\ q.parents = p.parents + 1
  BY <1>2, <1>4 DEF Leaves, Keeps
<1>8. Good(s) /\ s.tokens = p.tokens /\ s.parents = p.parents + 1
  BY <1>5, <1>7 DEF Leaves, Keeps
<1>9. CASE parser' = q /\ calls' = <<Call("KEY", {}, {})>> \o c
  BY <1>6, <1>7, <1>9, BalancedCall DEF Balance
<1>10. CASE parser' = Finish(s) /\ calls' = c
  <2>1. Good(Finish(s)) /\ Finish(s).tokens = p.tokens /\ Finish(s).parents = s.parents - 1
    BY <1>8, NodesGood
  <2>2. s.parents - 1 = p.parents
    BY <1>1, <1>8 DEF Good, Sound
  <2>3. Balanced(t, Finish(s), c, open)
    BY <2>1, <2>2 DEF Balanced
  <2> QED BY <1>10, <2>3 DEF Balance
<1> QED BY <1>3, <1>9, <1>10

\* parse_entry, from an inline table or from parse_root.
LEMMA CallsEntry ==
  ASSUME NEW t, NEW open \in BOOLEAN, NEW p, NEW w \in SUBSET {"NEWLINE", "COMMA"}, NEW c,
         \/ Balanced(t, p, c, open) /\ c # << >>
         \/ Good(p) /\ p.tokens = t /\ p.parents = 1 /\ c = << >> /\ open,
         CallEntry(p, w, c)
  PROVE  Balance(t, open)
<1> DEFINE r == Whitelist(p, w)
           q == Start(r, "ENTRY")
           f == Call("ENTRY", w, {})
           d == <<f>> \o c
<1>1. Good(p)
  BY DEF Balanced
<1>2. Leaves(p, r)
  BY <1>1, BesideLeaves DEF Whitelist
<1>3. CallKey(q, d)
  BY DEF CallEntry
<1> HIDE DEF r
<1>4. Good(q) /\ q.tokens = p.tokens /\ q.parents = p.parents + 1
  BY <1>2, NodesGood DEF Leaves, Keeps
<1> HIDE DEF q
<1>5. f \in Frames /\ f.node = "ENTRY"
  BY CallsAreFrames
<1> HIDE DEF f
<1>6. Balanced(t, q, d, open) /\ d # << >>
  <2>1. CASE Balanced(t, p, c, open) /\ c # << >>
    <3>1. Balanced(t, q, d, open)
      BY <1>4, <1>5, <2>1, BalancedCall
    <3>2. d # << >>
      BY <1>5, <2>1, Called DEF Balanced
    <3> QED BY <3>1, <3>2
  <2>2. CASE Good(p) /\ p.tokens = t /\ p.parents = 1 /\ c = << >> /\ open
    <3>1. d = <<f>>
      <4>1. <<f>> \in Seq(Frames)
        BY <1>5
      <4> QED BY <2>2, <4>1, ConcatEmptySeq
    <3>2. q.parents = 2 /\ q.tokens = t
      BY <1>4, <2>2
    <3>3. Balanced(t, q, <<f>>, open)
      BY <1>4, <1>5, <2>2, <3>2, BalancedRoot
    <3>4. <<f>> # << >>
      OBVIOUS
    <3> HIDE DEF d
    <3> QED BY <3>1, <3>3, <3>4
  <2> QED BY <2>1, <2>2
<1> HIDE DEF d
<1> QED BY <1>3, <1>6, CallsKey

\* parse_value, from parse_entry or from an array.
LEMMA CallsValue ==
  ASSUME NEW t, NEW open \in BOOLEAN, NEW p, NEW w \in SUBSET {"NEWLINE", "COMMA"}, NEW c,
         Balanced(t, p, c, open), c # << >>, CallValue(p, w, c)
  PROVE  Balance(t, open)
<1> DEFINE r == Whitelist(p, w)
           q == Start(r, "VALUE")
           v == ParseValue(q)
           u == Blacklist(Finish(v), w)
           f == Call("VALUE", w, {})
           d == <<f>> \o c
<1>1. Good(p) /\ c \in Seq(Frames)
  BY DEF Balanced
<1>2. Leaves(p, r)
  BY <1>1, BesideLeaves DEF Whitelist
<1>3. \/ Collection(q) = << >> /\ parser' = u /\ calls' = c
      \/ /\ Collection(q) # << >> /\ parser' = v
         /\ calls' = Collection(q) \o <<f>> \o c
  BY DEF CallValue
<1> HIDE DEF r
<1>4. Good(q) /\ q.tokens = p.tokens /\ q.parents = p.parents + 1
  BY <1>2, NodesGood DEF Leaves, Keeps
<1> HIDE DEF q
<1>5. /\ Good(v) /\ v.tokens = q.tokens
      /\ \/ Collection(q) = << >> /\ v.parents = q.parents
         \/ /\ v.parents = q.parents + 1
            /\ \/ Collection(q) = <<Call("ARRAY", {}, {"first"})>>
               \/ Collection(q) = <<Call("INLINE_TABLE", {}, {})>>
  BY <1>4, ParseValueGood
<1> HIDE DEF v
<1>6. f \in Frames /\ \A g \in Frames : <<g>> # << >>
  BY CallsAreFrames
<1> HIDE DEF f
<1>7. CASE Collection(q) = << >>
  <2> DEFINE s == Finish(v)
  <2>1. Good(s) /\ s.tokens = v.tokens /\ s.parents = v.parents - 1
    BY <1>5, NodesGood
  <2>2. v.parents = q.parents
    BY <1>5, <1>6, <1>7, CallsAreFrames
  <2>3. v.parents - 1 = p.parents
    BY <1>1, <1>4, <2>2 DEF Good, Sound
  <2> HIDE DEF s
  <2>4. Balanced(t, s, c, open)
    BY <1>4, <1>5, <2>1, <2>3 DEF Balanced
  <2>5. Leaves(s, Blacklist(s, w))
    BY <2>1, BesideLeaves DEF Blacklist
  <2>6. Balanced(t, Blacklist(s, w), c, open)
    BY <2>4, <2>5, BalancedLeaves
  <2> QED BY <1>3, <1>7, <2>6 DEF Balance, s
<1>8. CASE Collection(q) # << >>
  <2>1. PICK g \in Frames : Collection(q) = <<g>>
    <3>1. Call("ARRAY", {}, {"first"}) \in Frames /\ Call("INLINE_TABLE", {}, {}) \in Frames
      BY CallsAreFrames DEF Flags
    <3> QED BY <1>5, <1>8, <3>1
  <2>2. v.parents = q.parents + 1 /\ v.tokens = q.tokens
    BY <1>5, <1>8
  <2>3. Balanced(t, q, d, open)
    BY <1>4, <1>6, BalancedCall
  <2>4. d \in Seq(Frames) /\ d # << >>
    BY <1>1, <1>6, Called
  <2> HIDE DEF d
  <2>5. Balanced(t, v, <<g>> \o d, open)
    BY <1>5, <2>2, <2>3, <2>4, BalancedCall
  <2>6. <<g>> \in Seq(Frames) /\ <<f>> \in Seq(Frames)
    BY <1>6
  <2>7. <<g>> \o <<f>> \o c = <<g>> \o d
    BY <1>1, <2>6, ConcatAssociative DEF d
  <2> QED BY <1>3, <1>8, <2>1, <2>5, <2>7 DEF Balance
<1> QED BY <1>7, <1>8

-----------------------------------------------------------------------------
(* The steps of the functions that parse_root calls *)

\* The parser of a text is in the middle of a call.
Calling == whole /\ ~done /\ calls # << >> /\ Balanced(text, parser, calls, entry_started)

LEMMA CallingLeaves ==
  ASSUME Calling, entry_started \in BOOLEAN
  PROVE  /\ Good(parser) /\ Good(Ahead)
         /\ Head(calls) \in Frames /\ Locals \in SUBSET Flags
         /\ \A q : Leaves(parser, q) \/ Leaves(Ahead, q)
                     => Balanced(text, q, calls, entry_started)
<1>1. Good(parser) /\ calls \in Seq(Frames) /\ calls # << >>
  BY DEF Calling, Balanced
<1>2. Good(Ahead) /\ Keeps(parser, Ahead)
  BY <1>1, GetTokenGood DEF Ahead
<1>3. \A q : Leaves(Ahead, q) => Leaves(parser, q)
  BY <1>2, LeavesTransitive
<1>4. \A q : Leaves(parser, q) => Balanced(text, q, calls, entry_started)
  BY BalancedLeaves DEF Calling
<1>5. Head(calls) \in Frames
  BY <1>1, Callers
<1>6. Locals \in SUBSET Flags
  BY <1>5 DEF Locals, Frames
<1> QED BY <1>1, <1>2, <1>3, <1>4, <1>5, <1>6

LEMMA KeySteps ==
  ASSUME Calling, entry_started \in BOOLEAN,
         KeyPeriod \/ KeyIndex \/ KeyIdent \/ KeyEnd \/ KeyAtEof
  PROVE  Balance(text, entry_started)
<1>1. Good(parser) /\ Good(Ahead) /\ calls # << >>
  BY CallingLeaves DEF Calling
<1>2. \A q : Leaves(Ahead, q) => Balanced(text, q, calls, entry_started)
  BY CallingLeaves
<1>3. ASSUME NEW q, Leaves(Ahead, q), Return(q)
      PROVE  Balance(text, entry_started)
  BY <1>1, <1>2, <1>3, Returns
<1>4. ASSUME NEW q, Leaves(Ahead, q), NEW l \in SUBSET Flags, LoopOn(q, l)
      PROVE  Balance(text, entry_started)
  BY <1>1, <1>2, <1>4, LoopsOn
<1>5. \A m : Leaves(Ahead, Error(Ahead, m))
  BY <1>1, ErrorGood
<1>6. Leaves(Ahead, Token(Ahead)) /\ Leaves(Ahead, Ok(Ahead))
  BY <1>1, TokensGood, BesideLeaves DEF Ok
<1>7. ~parser.key_pattern_syntax
  BY <1>1 DEF Good, Sound
<1>8. {} \in SUBSET Flags /\ {"after_period"} \in SUBSET Flags
  BY DEF Flags
<1>9. CASE KeyPeriod
  BY <1>3, <1>4, <1>5, <1>6, <1>8, <1>9 DEF KeyPeriod
<1>10. CASE KeyIndex
  BY <1>7, <1>10 DEF KeyIndex, Bracketed
<1>11. CASE KeyIdent
  <2> DEFINE q == ParseIdent(Ahead)
             r == ReportError(q, "expected identifier")
  <2>1. LoopOn(q, {}) \/ Return(r)
    BY <1>11 DEF KeyIdent
  <2>2. Leaves(Ahead, q)
    BY <1>1, ParseIdentGood
  <2> HIDE DEF q
  <2>3. Leaves(q, r)
    BY <2>2, BesideLeaves DEF Leaves
  <2> HIDE DEF r
  <2>4. Leaves(Ahead, r)
    BY <2>2, <2>3, LeavesTransitive DEF Leaves
  <2> QED BY <1>3, <1>4, <1>8, <2>1, <2>2, <2>4
<1>12. CASE KeyEnd
  BY <1>3, <1>6, <1>7, <1>12 DEF KeyEnd
<1>13. CASE KeyAtEof
  BY <1>3, <1>5, <1>6, <1>13 DEF KeyAtEof
<1> QED BY <1>9, <1>10, <1>11, <1>12, <1>13

LEMMA EntrySteps ==
  ASSUME Calling, entry_started \in BOOLEAN,
         EntryValue \/ EntryEnd \/ ValueEnd \/ TableHeaderEnd \/ TableArrayHeaderEnd
  PROVE  Balance(text, entry_started)
<1>1. Good(parser) /\ calls # << >>
  BY CallingLeaves DEF Calling
<1>2. \A q : Leaves(parser, q) => Balanced(text, q, calls, entry_started)
  BY CallingLeaves
<1>3. ASSUME NEW q, Leaves(parser, q), Return(q)
      PROVE  Balance(text, entry_started)
  BY <1>1, <1>2, <1>3, Returns
<1>4. Leaves(parser, parser) /\ Leaves(parser, CloseTwice(parser))
        /\ \A k, m : Leaves(parser, MustTokenOr(parser, k, m))
  BY <1>1, HeadersGood, MustTokenOrGood DEF Leaves, Keeps
<1>5. CASE EntryValue
  <2> DEFINE q == IF parser.ok THEN MustTokenOr(parser, "EQ", "expected =") ELSE parser
             c == Caller({"valued"})
  <2>1. CallValue(q, {}, c) \/ Return(q)
    BY <1>5 DEF EntryValue
  <2>2. Leaves(parser, q)
    BY <1>4
  <2> HIDE DEF q
  <2>3. Balanced(text, q, calls, entry_started)
    BY <1>2, <2>2
  <2>4. {"valued"} \in SUBSET Flags
    BY DEF Flags
  <2>5. Balanced(text, q, c, entry_started) /\ c # << >>
    BY <1>1, <2>3, <2>4, BalancedCaller DEF Caller, Outer
  <2> HIDE DEF c
  <2>6. CallValue(q, {}, c) => Balance(text, entry_started)
    BY <2>5, CallsValue
  <2> QED BY <1>3, <2>1, <2>2, <2>6
<1>6. CASE EntryEnd
  BY <1>3, <1>4, <1>6 DEF EntryEnd
<1>7. CASE ValueEnd
  BY <1>3, <1>4, <1>7 DEF ValueEnd
<1>8. CASE TableHeaderEnd
  BY <1>3, <1>4, <1>8 DEF TableHeaderEnd
<1>9. CASE TableArrayHeaderEnd
  BY <1>3, <1>4, <1>9 DEF TableArrayHeaderEnd
<1> QED BY <1>5, <1>6, <1>7, <1>8, <1>9

LEMMA CollectionSteps ==
  ASSUME Calling, entry_started \in BOOLEAN,
         \/ ArrayEnd \/ ArrayNewLine \/ ArrayComma \/ ArrayItem \/ ArrayAtEof
         \/ InlineEnd \/ InlineBlank \/ InlineComma \/ InlineEntry \/ InlineAtEof
  PROVE  Balance(text, entry_started)
<1>1. Good(Ahead) /\ calls # << >> /\ Locals \in SUBSET Flags
  BY CallingLeaves DEF Calling
<1>2. \A q : Leaves(Ahead, q) => Balanced(text, q, calls, entry_started)
  BY CallingLeaves
<1>3. ASSUME NEW q, Leaves(Ahead, q), Return(q)
      PROVE  Balance(text, entry_started)
  BY <1>1, <1>2, <1>3, Returns
<1>4. ASSUME NEW q, Leaves(Ahead, q), NEW l \in SUBSET Flags, LoopOn(q, l)
      PROVE  Balance(text, entry_started)
  BY <1>1, <1>2, <1>4, LoopsOn
<1>5. Leaves(Ahead, Ahead) /\ Leaves(Ahead, Token(Ahead)) /\ Leaves(Ahead, AddToken(Ahead))
        /\ \A m : Leaves(Ahead, Error(Ahead, m)) /\ Leaves(Ahead, ReportError(Ahead, m))
  <2>1. Leaves(Ahead, Ahead)
    BY <1>1 DEF Leaves, Keeps
  <2> QED BY <1>1, <2>1, TokensGood, ErrorGood, BesideLeaves
<1>6. ASSUME NEW q, Leaves(Ahead, q)
      PROVE  Leaves(Ahead, Token(q)) /\ Leaves(Ahead, AddToken(q))
  <2>1. Leaves(q, Token(q)) /\ Leaves(q, AddToken(q))
    BY <1>6, TokensGood DEF Leaves
  <2> QED BY <1>6, <2>1, LeavesTransitive DEF Leaves
<1>7. {} \in SUBSET Flags /\ {"comma_last"} \in SUBSET Flags
        /\ {"expect_comma_or_end"} \in SUBSET Flags
  BY DEF Flags
<1>8. ASSUME NEW q, Leaves(Ahead, q), NEW l \in SUBSET Flags
      PROVE  Balanced(text, q, Caller(l), entry_started) /\ Caller(l) # << >>
  BY <1>1, <1>2, <1>8, BalancedCaller DEF Caller, Outer
<1>9. CASE ArrayEnd
  BY <1>3, <1>5, <1>9 DEF ArrayEnd
<1>10. CASE ArrayNewLine
  BY <1>1, <1>4, <1>5, <1>10 DEF ArrayNewLine
<1>11. CASE ArrayComma
  <2> DEFINE q == IF Locals # {} THEN Error(Ahead, "unexpected ,") ELSE Ahead
             r == Token(q)
  <2>1. LoopOn(r, {"comma_last"}) \/ Return(r)
    BY <1>11 DEF ArrayComma
  <2>2. Leaves(Ahead, q)
    BY <1>5
  <2> HIDE DEF q
  <2>3. Leaves(Ahead, r)
    BY <1>6, <2>2
  <2> HIDE DEF r
  <2> QED BY <1>3, <1>4, <1>7, <2>1, <2>3
<1>12. CASE ArrayItem
  <2> DEFINE q == IF Locals = {} THEN Error(Ahead, "expected ,") ELSE Ahead
             c == Caller({})
  <2>1. CallValue(q, {"COMMA"}, c)
    BY <1>12 DEF ArrayItem
  <2>2. Leaves(Ahead, q)
    BY <1>5
  <2> HIDE DEF q
  <2>3. Balanced(text, q, c, entry_started) /\ c # << >>
    BY <1>7, <1>8, <2>2
  <2> HIDE DEF c
  <2>4. {"COMMA"} \in SUBSET {"NEWLINE", "COMMA"}
    OBVIOUS
  <2> QED BY <2>1, <2>3, <2>4, CallsValue
<1>13. CASE ArrayAtEof
  BY <1>3, <1>5, <1>13 DEF ArrayAtEof
<1>14. CASE InlineEnd
  BY <1>3, <1>5, <1>14 DEF InlineEnd
<1>15. CASE InlineBlank
  BY <1>1, <1>4, <1>5, <1>15 DEF InlineBlank
<1>16. CASE InlineComma
  <2> DEFINE q == IF Locals = {} THEN Error(Ahead, "unexpected ,") ELSE Ahead
             r == AddToken(q)
  <2>1. LoopOn(r, {}) \/ Return(r)
    BY <1>16 DEF InlineComma
  <2>2. Leaves(Ahead, q)
    BY <1>5
  <2> HIDE DEF q
  <2>3. Leaves(Ahead, r)
    BY <1>6, <2>2
  <2> HIDE DEF r
  <2> QED BY <1>3, <1>4, <1>7, <2>1, <2>3
<1>17. CASE InlineEntry
  <2> DEFINE q == IF Locals # {} THEN Error(Ahead, "expected , or }") ELSE Ahead
             c == Caller({"expect_comma_or_end"})
  <2>1. CallEntry(q, {"COMMA"}, c)
    BY <1>17 DEF InlineEntry
  <2>2. Leaves(Ahead, q)
    BY <1>5
  <2> HIDE DEF q
  <2>3. Balanced(text, q, c, entry_started) /\ c # << >>
    BY <1>7, <1>8, <2>2
  <2> HIDE DEF c
  <2>4. {"COMMA"} \in SUBSET {"NEWLINE", "COMMA"}
    OBVIOUS
  <2> QED BY <2>1, <2>3, <2>4, CallsEntry
<1>18. CASE InlineAtEof
  BY <1>3, <1>5, <1>18 DEF InlineAtEof
<1> QED BY <1>9, <1>10, <1>11, <1>12, <1>13, <1>14, <1>15, <1>16, <1>17, <1>18

-----------------------------------------------------------------------------
(* The steps of parse_root *)

\* With no call under way.
Rooting == whole /\ ~done /\ calls = << >> /\ Balanced(text, parser, calls, entry_started)

\* The parser, when the entry that was open is finished, if there was one.
LEMMA EntryIsFinished ==
  ASSUME Rooting, entry_started \in BOOLEAN
  PROVE  /\ Good(Ahead) /\ Ahead.tokens = text
         /\ Ahead.parents = 1 + (IF entry_started THEN 1 ELSE 0)
         /\ Good(EntryFinished) /\ EntryFinished.tokens = text /\ EntryFinished.parents = 1
<1>1. Good(parser) /\ parser.tokens = text
        /\ parser.parents = 1 + (IF entry_started THEN 1 ELSE 0)
  BY EmptySeq DEF Rooting, Balanced, Open
<1>2. Good(Ahead) /\ Ahead.tokens = text
        /\ Ahead.parents = 1 + (IF entry_started THEN 1 ELSE 0)
  BY <1>1, GetTokenGood DEF Ahead, Keeps
<1>3. Good(Finish(Ahead)) /\ Finish(Ahead).tokens = text
        /\ Finish(Ahead).parents = Ahead.parents - 1
  BY <1>2, NodesGood
<1>4. Good(EntryFinished) /\ EntryFinished.tokens = text /\ EntryFinished.parents = 1
  BY <1>2, <1>3 DEF EntryFinished
<1> QED BY <1>2, <1>4

LEMMA RootSteps ==
  ASSUME Rooting, entry_started \in BOOLEAN, ExpectedNewLine \/ Header \/ NewLine \/ Entry
  PROVE  entry_started' \in BOOLEAN /\ Balance(text, entry_started')
<1> DEFINE p == EntryFinished
<1>1. /\ Good(Ahead) /\ Ahead.tokens = text
      /\ Ahead.parents = 1 + (IF entry_started THEN 1 ELSE 0)
      /\ Good(p) /\ p.tokens = text /\ p.parents = 1
  BY EntryIsFinished
<1> HIDE DEF p
<1>2. calls = << >> /\ Len(calls) = 0 /\ calls \in Seq(Frames)
  BY EmptySeq DEF Rooting
<1>3. ASSUME NEW q, Good(q), q.tokens = text, NEW open \in BOOLEAN,
             q.parents = 1 + (IF open THEN 1 ELSE 0)
      PROVE  Balanced(text, q, calls, open)
  BY <1>2, <1>3 DEF Balanced, Open, Rooted
<1>4. CASE ExpectedNewLine
  <2> DEFINE bracket == CurrentKind(Ahead) = "BRACKET_START"
             q == IF bracket THEN p ELSE Ahead
             r == Error(q, "expected new line")
             open == entry_started /\ ~bracket
  <2>1. parser' = r /\ entry_started' = open /\ calls' = calls
    BY <1>4 DEF ExpectedNewLine, p
  <2>2. Good(q) /\ q.tokens = text /\ open \in BOOLEAN
          /\ q.parents = 1 + (IF open THEN 1 ELSE 0)
    BY <1>1
  <2> HIDE DEF q, open
  <2>3. Leaves(q, r)
    BY <2>2, ErrorGood
  <2> HIDE DEF r
  <2>4. Balanced(text, q, calls, open)
    BY <1>3, <2>2
  <2>5. Balanced(text, r, calls, open)
    BY <2>3, <2>4, BalancedLeaves
  <2> QED BY <2>1, <2>2, <2>5 DEF Balance
<1>5. CASE Header
  <2> DEFINE r == Whitelist(p, {"NEWLINE"})
             f == Call("TABLE_HEADER", {"NEWLINE"}, {})
             g == Call("TABLE_ARRAY_HEADER", {"NEWLINE"}, {})
  <2>1. entry_started' = FALSE /\ (CallKey(OpenTwice(r), <<g>>) \/ CallKey(OpenOnce(r), <<f>>))
    BY <1>5 DEF Header, p
  <2>2. Leaves(p, r)
    BY <1>1, BesideLeaves DEF Whitelist
  <2> HIDE DEF r
  <2>3. Good(r) /\ r.tokens = text /\ r.parents = 1
    BY <1>1, <2>2 DEF Leaves, Keeps
  <2>4. /\ Good(OpenOnce(r)) /\ OpenOnce(r).tokens = text /\ OpenOnce(r).parents = 2
        /\ Good(OpenTwice(r)) /\ OpenTwice(r).tokens = text /\ OpenTwice(r).parents = 2
    BY <2>3, HeadersGood
  <2>5. f \in Frames /\ f.node # "ENTRY" /\ g \in Frames /\ g.node # "ENTRY"
    BY CallsAreFrames
  <2> HIDE DEF f, g
  <2>6. Balanced(text, OpenOnce(r), <<f>>, FALSE) /\ <<f>> # << >>
    BY <2>4, <2>5, BalancedRoot
  <2>7. Balanced(text, OpenTwice(r), <<g>>, FALSE) /\ <<g>> # << >>
    BY <2>4, <2>5, BalancedRoot
  <2>8. CASE CallKey(OpenTwice(r), <<g>>)
    BY <2>1, <2>7, <2>8, CallsKey
  <2>9. CASE CallKey(OpenOnce(r), <<f>>)
    BY <2>1, <2>6, <2>9, CallsKey
  <2> QED BY <2>1, <2>8, <2>9
<1>6. CASE NewLine
  <2>1. parser' = Token(p) /\ entry_started' = FALSE /\ calls' = calls
    BY <1>6 DEF NewLine, p
  <2>2. Leaves(p, Token(p))
    BY <1>1, TokensGood
  <2>3. Balanced(text, p, calls, FALSE)
    <3>1. p.parents = 1 + (IF FALSE THEN 1 ELSE 0) /\ FALSE \in BOOLEAN
      BY <1>1
    <3> QED BY <1>1, <1>3, <3>1
  <2>4. Balanced(text, Token(p), calls, FALSE)
    BY <2>2, <2>3, BalancedLeaves
  <2> QED BY <2>1, <2>4 DEF Balance
<1>7. CASE Entry
  <2>1. CallEntry(p, {"NEWLINE"}, << >>) /\ entry_started' = TRUE
    BY <1>7 DEF Entry, p
  <2>2. {"NEWLINE"} \in SUBSET {"NEWLINE", "COMMA"}
    OBVIOUS
  <2>3. Balance(text, TRUE)
    BY <1>1, <2>1, <2>2, CallsEntry
  <2> QED BY <2>1, <2>3
<1> QED BY <1>4, <1>5, <1>6, <1>7

-----------------------------------------------------------------------------
(* The theorems *)

LEMMA FirstParser ==
  ASSUME NEW t \in Texts
  PROVE  LET p == Start(New(t, FALSE), "ROOT")
         IN Good(p) /\ p.tokens = t /\ p.parents = 1
<1> DEFINE q == New(t, FALSE)
<1>1. Len(t) \in Nat
  BY TextsAssumption, LenProperties
<1>2. /\ Shape(q) /\ q.tokens = t /\ q.at = 0 /\ q.current = 0 /\ q.parents = 0
      /\ q.builder = << >> /\ ~q.key_pattern_syntax
  BY DEF New, Shape, Fields
<1> HIDE DEF q
<1>3. IsSeq(<< >>) /\ IsText(<< >>, 0)
  <2>1. << >> \in Seq({}) /\ DOMAIN << >> = {}
    BY EmptySeq
  <2>2. IsSeq(<< >>)
    BY <2>1, SeqIsSeq
  <2>3. IsText(<< >>, 0)
    BY <2>1 DEF IsText
  <2> QED BY <2>2, <2>3
<1>4. Read(q) = 0
  BY <1>1, <1>2 DEF Read
<1>5. Good(q)
  BY <1>1, <1>2, <1>3, <1>4 DEF Good, Sound
<1>6. Good(Start(q, "ROOT")) /\ Start(q, "ROOT").tokens = t /\ Start(q, "ROOT").parents = 1
  <2>1. q.parents + 1 = 1
    BY <1>2
  <2> QED BY <1>2, <1>5, <2>1, NodesGood
<1> QED BY <1>6 DEF q

\* Whatever is parsed, and wherever the parser is in it: the tree holds what
\* was read, and its open nodes are those of the calls under way.
THEOREM ParserInvariant == Spec => []ParserInv
<1>1. Init => ParserInv
  <2> SUFFICES ASSUME Init PROVE ParserInv
    OBVIOUS
  <2>1. done = FALSE /\ entry_started = FALSE /\ calls = << >> /\ text \in Texts
    BY DEF Init
  <2>2. ASSUME whole PROVE Balanced(text, parser, calls, entry_started)
    <3>1. parser = Start(New(text, FALSE), "ROOT")
      BY <2>2 DEF Init
    <3>2. Good(parser) /\ parser.tokens = text /\ parser.parents = 1
      BY <2>1, <3>1, FirstParser
    <3>3. calls \in Seq(Frames) /\ Len(calls) = 0
      BY <2>1, EmptySeq
    <3> QED BY <2>1, <3>2, <3>3 DEF Balanced, Rooted, Open
  <2> QED BY <2>1, <2>2 DEF ParserInv
<1>2. ParserInv /\ [Next]_vars => ParserInv'
  <2> SUFFICES ASSUME ParserInv, [Next]_vars PROVE ParserInv'
    OBVIOUS
  <2>1. CASE UNCHANGED vars
    BY <2>1 DEF vars, ParserInv, Balanced
  <2>2. CASE ~whole
    <3>1. whole' = whole /\ done' \in BOOLEAN /\ entry_started' \in BOOLEAN
      BY <2>1, <2>2 DEF ParserInv, vars, Next, Inside, Looping, KeyPeriod, KeyIndex, KeyIdent,
         KeyEnd, KeyAtEof, EntryValue, EntryEnd, ValueEnd, ArrayEnd, ArrayNewLine, ArrayComma,
         ArrayItem, ArrayAtEof, InlineEnd, InlineBlank, InlineComma, InlineEntry, InlineAtEof,
         TableHeaderEnd, TableArrayHeaderEnd, ExpectedNewLine, Header, NewLine, Entry, End,
         KeyOnly, KeyOnlyEnd
    <3> QED BY <2>2, <3>1 DEF ParserInv
  <2> DEFINE Calls == \/ KeyPeriod \/ KeyIndex \/ KeyIdent \/ KeyEnd \/ KeyAtEof
                      \/ EntryValue \/ EntryEnd \/ ValueEnd
                      \/ TableHeaderEnd \/ TableArrayHeaderEnd
                      \/ ArrayEnd \/ ArrayNewLine \/ ArrayComma \/ ArrayItem \/ ArrayAtEof
                      \/ InlineEnd \/ InlineBlank \/ InlineComma \/ InlineEntry \/ InlineAtEof
             Root == ExpectedNewLine \/ Header \/ NewLine \/ Entry
  <2>3. CASE whole /\ Calls
    <3>1. /\ calls # << >>
          /\ text' = text /\ whole' = whole /\ done' = done /\ entry_started' = entry_started
      BY <2>3 DEF Inside, KeyPeriod, KeyIndex, KeyIdent,
         KeyEnd, KeyAtEof, EntryValue, EntryEnd, ValueEnd, ArrayEnd, ArrayNewLine, ArrayComma,
         ArrayItem, ArrayAtEof, InlineEnd, InlineBlank, InlineComma, InlineEntry, InlineAtEof,
         TableHeaderEnd, TableArrayHeaderEnd
    <3>2. Calling /\ entry_started \in BOOLEAN
      BY <2>3, <3>1 DEF Calling, ParserInv
    <3>3. Balance(text, entry_started)
      BY <2>3, <3>2, KeySteps, EntrySteps, CollectionSteps
    <3> QED BY <3>1, <3>2, <3>3 DEF ParserInv, Balance, Calling
  <2>4. CASE whole /\ Root
    <3>1. Looping
      BY <2>4 DEF ExpectedNewLine, Header, NewLine, Entry
    <3>2. Rooting /\ entry_started \in BOOLEAN
            /\ text' = text /\ whole' = whole /\ done' = done
      BY <3>1 DEF Looping, Rooting, ParserInv
    <3>3. entry_started' \in BOOLEAN /\ Balance(text, entry_started')
      BY <2>4, <3>2, RootSteps
    <3> QED BY <3>2, <3>3 DEF ParserInv, Balance, Rooting
  <2>5. CASE whole /\ End
    <3>1. /\ ~done /\ calls = << >> /\ parser' = Finish(EntryFinished)
          /\ entry_started' = FALSE /\ done' = TRUE
          /\ text' = text /\ whole' = whole /\ calls' = calls
      BY <2>5 DEF End
    <3>2. Rooting /\ entry_started \in BOOLEAN
      BY <2>5, <3>1 DEF Rooting, ParserInv
    <3>3. Good(EntryFinished) /\ EntryFinished.tokens = text /\ EntryFinished.parents = 1
      BY <3>2, EntryIsFinished
    <3>4. Good(parser') /\ parser'.tokens = text /\ parser'.parents = 0
      BY <3>1, <3>3, NodesGood
    <3> QED BY <3>1, <3>4 DEF ParserInv
  <2>6. CASE whole /\ (KeyOnly \/ KeyOnlyEnd)
    BY <2>6 DEF KeyOnly, KeyOnlyEnd
  <2> QED BY <2>1, <2>2, <2>3, <2>4, <2>5, <2>6 DEF Next, ParserInv
<1> QED BY <1>1, <1>2, PTL DEF Spec

\* Formatting and rewriting print the tree: for every text, however wrong, and
\* in the middle of every construct, it holds each token that was read once and
\* in the order of the text, and its root is closed at the end and not before.
THEOREM TreeHoldsTheText == Spec => []TreeIsTheText
<1>1. ParserInv => TreeIsTheText
  <2> SUFFICES ASSUME ParserInv, whole PROVE TreeIsTheText
    BY DEF TreeIsTheText
  <2>1. Good(parser) /\ parser.tokens = text
    BY DEF ParserInv, Balanced
  <2>2. Len(text) \in Nat /\ parser.at \in 0..Len(text) + 1
    BY <2>1 DEF Good, Sound
  <2> DEFINE n == IF parser.current # 0 THEN parser.at - 1
                  ELSE IF parser.at > Len(text) THEN Len(text)
                  ELSE parser.at
  <2>3. IsText(parser.builder, n)
    <3>1. CASE parser.current = 0
      <4>1. n = Read(parser)
        BY <2>1, <3>1 DEF Read
      <4>2. IsText(parser.builder, Read(parser))
        BY <2>1, <2>2, <3>1 DEF Good
      <4> QED BY <4>1, <4>2
    <3>2. CASE parser.current # 0
      BY <2>1, <3>2 DEF Good
    <3> QED BY <3>1, <3>2
  <2>4. done <=> parser.parents = 0
    <3>1. CASE done
      BY <3>1 DEF ParserInv
    <3>2. CASE ~done
      <4>1. parser.parents = Open(calls, entry_started) /\ calls \in Seq(Frames)
        BY <3>2 DEF ParserInv, Balanced
      <4>2. Len(calls) \in Nat
        BY <4>1, LenProperties
      <4>3. parser.parents >= 1
        BY <4>1, <4>2 DEF Open
      <4> QED BY <3>2, <4>3
    <3> QED BY <3>1, <3>2
  <2> HIDE DEF n
  <2> QED BY <2>3, <2>4 DEF TreeIsTheText, n
<1> QED BY <1>1, ParserInvariant, PTL

=============================================================================
