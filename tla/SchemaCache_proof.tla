--------------------------- MODULE SchemaCache_proof ---------------------------
(* What TLC checks of SchemaCache on one schema and three calls, proved for any   *)
(* schemas, capacities, expirations and bounds.                                   *)
EXTENDS SchemaCache, TLAPS

-------------------------------------------------------------------------------
(* The invariant.                                                              *)

EntryType == [url : Urls, value : Nat]

\* A cache holds at most max entries, of different URLs.
LruOK(l, max) ==
    /\ l \in Seq(EntryType) /\ Len(l) <= max
    /\ \A i, j \in 1..Len(l) : l[i].url = l[j].url => i = j

Holds(l, u, x) == \E i \in 1..Len(l) : l[i].url = u /\ l[i].value = x

WriteLabels == {"to_write", "writing", "to_rewrite", "rewriting"}

Labels == {"none", "reading", "waiting", "fetching", "reading_expired", "done"} \cup WriteLabels

Origins == {"none", "memory", "validator", "disk", "origin", "failed", "aborted"}

CallType == [kind : {"none", "validate", "load"}, url : Urls, pc : Labels, now : Nat,
             value : Nat, from : Origins, expires_by : Nat, overlaid : BOOLEAN, alone : BOOLEAN]

CopyType == [value : Nat, expires_by : Nat]

TypeOK ==
    /\ clock \in Nat /\ version \in [Urls -> Nat]
    /\ lru_expires_by \in Nat /\ permits \in Nat
    /\ LruOK(schemas, MaxSchemas) /\ LruOK(validators, MaxValidators)
    /\ cache_path \in BOOLEAN /\ disk \in [Urls -> SUBSET CopyType]
    /\ call \in [Calls -> CallType]
    /\ restarts \in Nat

\* Calls start in order; one that is still alone is the only one and the last.
CallsOK ==
    /\ \A c \in Calls : At(c, "none") => call[c] = NoCall
    /\ \A b, c \in Calls : b < c /\ At(b, "none") => At(c, "none")
    /\ \A b, c \in Calls : b \in Active /\ c \in Active /\ call[c].alone => b = c
    /\ \A c, d \in Calls : c \in Active /\ call[c].alone /\ c < d => At(d, "none")
    /\ \A c \in Calls : c \in Active /\ call[c].alone => ~call[c].overlaid
    /\ \A c \in Calls : c \in Active => call[c].from \notin {"failed", "aborted"}

Alone == \A c \in Calls : call[c].alone

Saves(c, u) == call[c].pc \in WriteLabels /\ call[c].url = u

\* What is in memory is in the file, or the call that put it there is about to write it.
MemoryOK ==
    cache_path /\ Alone =>
        \A u \in Urls, x \in Nat : Holds(schemas, u, x) =>
            \/ \E c \in Calls : Saves(c, u) /\ call[c].value = x
            \/ /\ \A c \in Calls : ~Saves(c, u)
               /\ \E copy \in disk[u] : copy.value = x

\* A schema somebody had is in its file, or about to be written again.
Had(u) ==
    \/ \E c \in Calls : At(c, "done") /\ call[c].url = u /\ call[c].value # NoValue
    \/ \E x \in Nat : Holds(schemas, u, x) \/ Holds(validators, u, x)

DiskOK ==
    cache_path /\ Alone /\ (\A c \in Calls : call[c].from # "aborted") =>
        \A u \in Urls : Had(u) => disk[u] # {} \/ \E c \in Calls : Saves(c, u)

IInv == TypeOK /\ CallsOK /\ MemoryOK /\ DiskOK /\ SavedSchemasStayUsable

-------------------------------------------------------------------------------
(* LRU caches.                                                                 *)

LEMMA HeldIsCached ==
    ASSUME NEW l, NEW u PROVE Cached(l, u) <=> \E i \in 1..Len(l) : l[i].url = u
    BY DEF Cached, Entry

LEMMA PlaceOfCached ==
    ASSUME NEW l, NEW u, Cached(l, u)
    PROVE  Place(l, u) \in 1..Len(l) /\ l[Place(l, u)].url = u
    BY DEF Cached, Entry, Place

LEMMA GetIsHeld ==
    ASSUME NEW l, NEW u, Cached(l, u) PROVE Holds(l, u, Get(l, u).value)
    BY PlaceOfCached DEF Holds, Get

\* What is where when e comes to the front in place of the entry at p.
LEMMA ToFrontPlaces ==
    ASSUME NEW l \in Seq(EntryType), NEW e \in EntryType, NEW p \in 1..(Len(l) + 1)
    PROVE  /\ ToFront(l, e, p) \in Seq(EntryType)
           /\ Len(ToFront(l, e, p)) = IF p > Len(l) THEN p ELSE Len(l)
           /\ ToFront(l, e, p)[1] = e
           /\ \A i \in 2..p : ToFront(l, e, p)[i] = l[i - 1]
           /\ \A i \in p + 1..Len(l) : ToFront(l, e, p)[i] = l[i]
<1> DEFINE n == IF p > Len(l) THEN p ELSE Len(l)
           f == [i \in 1..n |-> CASE i = 1 -> e [] i \in 2..p -> l[i - 1] [] OTHER -> l[i]]
<1>1. n \in Nat /\ n >= p /\ n >= Len(l) /\ (n = p \/ n = Len(l)) /\ n >= 1
  OBVIOUS
<1>2. \A i \in 1..n : f[i] \in EntryType
  <2> SUFFICES ASSUME NEW i \in 1..n PROVE f[i] \in EntryType
    OBVIOUS
  <2>1. CASE i = 1
    BY <2>1
  <2>2. CASE i \in 2..p
    <3>1. i - 1 \in 1..Len(l)
      BY <2>2
    <3>2. f[i] = l[i - 1]
      BY <2>2
    <3> QED BY <3>1, <3>2
  <2>3. CASE i # 1 /\ i \notin 2..p
    <3>1. i \in 1..Len(l)
      BY <2>3, <1>1
    <3>2. f[i] = l[i]
      BY <2>3
    <3> QED BY <3>1, <3>2
  <2> QED BY <2>1, <2>2, <2>3
<1>3. f \in Seq(EntryType) /\ Len(f) = n
  <2> HIDE DEF n
  <2>1. f \in [1..n -> EntryType]
    BY <1>2
  <2> HIDE DEF f
  <2> QED BY <1>1, <2>1
<1>4. f[1] = e
  BY <1>1
<1>5. \A i \in 2..p : f[i] = l[i - 1]
  BY <1>1
<1>6. \A i \in p + 1..Len(l) : f[i] = l[i]
  BY <1>1
<1>7. ToFront(l, e, p) = f
  BY DEF ToFront
<1> HIDE DEF f
<1> QED BY <1>3, <1>4, <1>5, <1>6, <1>7

\* The entry that comes to the front takes the place of the one of its URL, if any.
LEMMA ToFrontLru ==
    ASSUME NEW max \in Nat, NEW l, LruOK(l, max), NEW e \in EntryType, NEW p \in 1..(Len(l) + 1),
           p <= max,
           \A i \in 1..Len(l) : l[i].url = e.url => i = p
    PROVE  /\ LruOK(ToFront(l, e, p), max)
           /\ \A u, x : Holds(ToFront(l, e, p), u, x) =>
                  IF u = e.url THEN x = e.value ELSE Holds(l, u, x)
<1> DEFINE f == ToFront(l, e, p)
<1>1. l \in Seq(EntryType) /\ Len(l) <= max /\ Len(l) \in Nat
  BY DEF LruOK
<1>2. /\ f \in Seq(EntryType)
      /\ Len(f) = IF p > Len(l) THEN p ELSE Len(l)
      /\ f[1] = e
      /\ \A i \in 2..p : f[i] = l[i - 1]
      /\ \A i \in p + 1..Len(l) : f[i] = l[i]
  BY <1>1, ToFrontPlaces
<1> HIDE DEF f
\* Where an entry other than the first was.
<1> DEFINE old(i) == IF i <= p THEN i - 1 ELSE i
<1>3. ASSUME NEW i \in 2..Len(f)
      PROVE  old(i) \in 1..Len(l) /\ old(i) # p /\ f[i] = l[old(i)]
  <2>1. CASE i <= p
    BY <1>1, <1>2, <2>1
  <2>2. CASE i > p
    BY <1>1, <1>2, <2>2
  <2> QED
    BY <1>2, <2>1, <2>2
<1>4. ASSUME NEW i \in 2..Len(f), NEW j \in 2..Len(f), old(i) = old(j) PROVE i = j
  BY <1>4, <1>1, <1>2
<1>5. \A i \in 2..Len(f) : f[i].url # e.url
  BY <1>3
<1>6. ASSUME NEW i \in 1..Len(f), NEW j \in 1..Len(f), f[i].url = f[j].url PROVE i = j
  <2>1. CASE i = 1 \/ j = 1
    BY <2>1, <1>2, <1>5, <1>6
  <2>2. CASE i \in 2..Len(f) /\ j \in 2..Len(f)
    <3>1. l[old(i)].url = l[old(j)].url
      BY <1>3, <1>6, <2>2
    <3>2. old(i) = old(j)
      BY <1>3, <2>2, <3>1 DEF LruOK
    <3> QED BY <1>4, <2>2, <3>2
  <2> QED BY <1>2, <2>1, <2>2
<1>7. LruOK(f, max)
  BY <1>1, <1>2, <1>6 DEF LruOK
<1>8. ASSUME NEW u, NEW x, Holds(f, u, x)
      PROVE  IF u = e.url THEN x = e.value ELSE Holds(l, u, x)
  <2>1. PICK i \in 1..Len(f) : f[i].url = u /\ f[i].value = x
    BY <1>8 DEF Holds
  <2>2. CASE i = 1
    BY <1>2, <2>1, <2>2
  <2>3. CASE i \in 2..Len(f)
    BY <1>3, <1>5, <2>1, <2>3 DEF Holds
  <2> QED BY <1>2, <2>1, <2>2, <2>3
<1> QED BY <1>7, <1>8 DEF f

LEMMA PutLru ==
    ASSUME NEW max \in Nat \ {0}, NEW l, LruOK(l, max), NEW u \in Urls, NEW v \in Nat
    PROVE  /\ LruOK(Put(l, max, u, v), max)
           /\ \A w, x : Holds(Put(l, max, u, v), w, x) => IF w = u THEN x = v ELSE Holds(l, w, x)
<1> DEFINE e == [url |-> u, value |-> v]
           p == IF Cached(l, u) THEN Place(l, u) ELSE IF Len(l) < max THEN Len(l) + 1 ELSE max
<1>1. l \in Seq(EntryType) /\ Len(l) <= max /\ Len(l) \in Nat
  BY DEF LruOK
<1>2. e \in EntryType /\ e.url = u /\ e.value = v
  BY DEF EntryType
<1>3. p \in 1..(Len(l) + 1) /\ p <= max
  BY <1>1, PlaceOfCached
<1>4. \A i \in 1..Len(l) : l[i].url = u => i = p
  BY HeldIsCached, PlaceOfCached DEF LruOK
<1>5. Put(l, max, u, v) = ToFront(l, e, p)
  BY DEF Put
<1> HIDE DEF e, p
<1> QED BY <1>2, <1>3, <1>4, <1>5, ToFrontLru

LEMMA TouchLru ==
    ASSUME NEW max \in Nat \ {0}, NEW l, LruOK(l, max), NEW u, Cached(l, u)
    PROVE  /\ LruOK(Touch(l, u), max)
           /\ \A w, x : Holds(Touch(l, u), w, x) => Holds(l, w, x)
           /\ Get(l, u).value \in Nat
<1> DEFINE p == Place(l, u)
           e == l[p]
<1>1. l \in Seq(EntryType) /\ Len(l) <= max /\ Len(l) \in Nat
  BY DEF LruOK
<1>2. p \in 1..Len(l) /\ e \in EntryType /\ e.url = u
  BY <1>1, PlaceOfCached
<1>3. \A i \in 1..Len(l) : l[i].url = u => i = p
  BY <1>2 DEF LruOK
<1>4. Touch(l, u) = ToFront(l, e, p)
  BY DEF Touch, Get
<1>5. Holds(l, u, e.value) /\ e.value \in Nat
  BY <1>2 DEF Holds, EntryType
<1>6. Get(l, u).value \in Nat
  BY <1>5 DEF Get
<1> HIDE DEF e, p
<1>7. p \in 1..(Len(l) + 1) /\ p <= max
  BY <1>1, <1>2
<1> QED BY <1>2, <1>3, <1>4, <1>5, <1>6, <1>7, ToFrontLru

LEMMA EmptyLru ==
    ASSUME NEW max \in Nat
    PROVE  LruOK(<<>>, max) /\ \A u, x : ~Holds(<<>>, u, x)
    BY DEF LruOK, Holds

-------------------------------------------------------------------------------
(* A step of one call.                                                         *)

\* Whether x, held in memory for u, is in the files d or about to be written by call r.
Backed(r, u, x, d) ==
    IF r.pc \in WriteLabels /\ r.url = u THEN r.value = x ELSE \E copy \in d[u] : copy.value = x

Consistent(r, l, d) == \A u \in Urls, x \in Nat : Holds(l, u, x) => Backed(r, u, x, d)

Kept(r, d, u) == d[u] # {} \/ (r.pc \in WriteLabels /\ r.url = u)

InMemory(u) == \E x \in Nat : Holds(schemas, u, x) \/ Holds(validators, u, x)

\* What call c may become: r.
Continues(c, r) ==
    /\ c \in Active \/ (At(c, "none") /\ \A b \in 1..c - 1 : ~At(b, "none"))
    /\ r.pc # "none" /\ r.alone = call[c].alone /\ (r.overlaid => call[c].overlaid)
    /\ r.from # "aborted"
    /\ r.from = "failed" => r.pc = "done"
    /\ r.from = "failed" /\ cache_path =>
           c \in Active /\ call[c].pc \notin WriteLabels /\ r.url = call[c].url /\ disk[r.url] = {}

\* The step keeps the schemas of a call that is alone on disk.
KeepsFiles(c, r) ==
    cache_path /\ call[c].alone =>
        /\ Consistent(call[c], schemas, disk) => Consistent(r, schemas', disk')
        /\ \A u \in Urls : Kept(call[c], disk, u) => Kept(r, disk', u)
        /\ \A u \in Urls : InMemory(u)' => Kept(r, disk', u) \/ InMemory(u)
        /\ r.pc = "done" /\ r.value # NoValue => Kept(r, disk', r.url) \/ InMemory(r.url)

LEMMA ReplaceFacts ==
    ASSUME call \in [Calls -> CallType], NEW c \in Calls, NEW r \in CallType, NEW over,
           Replace(c, r, over)
    PROVE  /\ call' \in [Calls -> CallType]
           /\ call'[c] = [r EXCEPT !.alone = r.alone /\ Active \subseteq {c}]
           /\ \A b \in Calls \ {c} :
                  call'[b] = [call[b] EXCEPT !.alone = call[b].alone /\ b \notin Active,
                                             !.overlaid = call[b].overlaid \/ b \in over]
    BY DEF Replace, CallType

\* The same, field by field.
LEMMA ReplaceFields ==
    ASSUME call \in [Calls -> CallType], NEW c \in Calls, NEW r \in CallType, NEW over,
           Replace(c, r, over)
    PROVE  /\ call'[c].pc = r.pc /\ call'[c].url = r.url /\ call'[c].value = r.value
           /\ call'[c].from = r.from /\ call'[c].overlaid = r.overlaid
           /\ call'[c].alone <=> r.alone /\ Active \subseteq {c}
           /\ \A b \in Calls \ {c} :
                  /\ call'[b].pc = call[b].pc /\ call'[b].url = call[b].url
                  /\ call'[b].value = call[b].value /\ call'[b].from = call[b].from
                  /\ call'[b].alone <=> call[b].alone /\ b \notin Active
           /\ \A b \in Calls \ {c} : b \in Active' <=> b \in Active
           /\ c \in Active' <=> r.pc \notin {"none", "done"}
<1>1. /\ call'[c].pc = r.pc /\ call'[c].url = r.url /\ call'[c].value = r.value
      /\ call'[c].from = r.from /\ call'[c].overlaid = r.overlaid
      /\ call'[c].alone <=> r.alone /\ Active \subseteq {c}
  <2>1. call'[c] = [r EXCEPT !.alone = r.alone /\ Active \subseteq {c}]
    BY ReplaceFacts
  <2> QED BY <2>1 DEF CallType
<1>2. \A b \in Calls \ {c} :
          /\ call'[b].pc = call[b].pc /\ call'[b].url = call[b].url
          /\ call'[b].value = call[b].value /\ call'[b].from = call[b].from
          /\ call'[b].alone <=> call[b].alone /\ b \notin Active
  <2> TAKE b \in Calls \ {c}
  <2>1. call'[b] = [call[b] EXCEPT !.alone = call[b].alone /\ b \notin Active,
                                   !.overlaid = call[b].overlaid \/ b \in over]
    BY DEF Replace
  <2>2. call[b] \in CallType
    OBVIOUS
  <2> QED BY <2>1, <2>2 DEF CallType
<1> QED BY <1>1, <1>2 DEF Active

LEMMA StepKeepsCalls ==
    ASSUME TypeOK, CallsOK, NEW c \in Calls, NEW r \in CallType, NEW over, over \subseteq Active \ {c},
           Replace(c, r, over), Continues(c, r)
    PROVE  CallsOK'
<1>0. call \in [Calls -> CallType]
  BY DEF TypeOK
<1>1. /\ call'[c].pc = r.pc /\ call'[c].from = r.from /\ call'[c].overlaid = r.overlaid
      /\ call'[c].alone <=> r.alone /\ Active \subseteq {c}
      /\ \A b \in Calls \ {c} :
             /\ call'[b].pc = call[b].pc /\ call'[b].from = call[b].from
             /\ call'[b].alone <=> call[b].alone /\ b \notin Active
      /\ \A b \in Calls \ {c} : b \in Active' <=> b \in Active
      /\ c \in Active' <=> r.pc \notin {"none", "done"}
  BY <1>0, ReplaceFields
<1>2. ASSUME NEW b \in Calls, At(b, "none")' PROVE call'[b] = NoCall
  <2>1. b # c /\ At(b, "none") /\ b \notin Active
    BY <1>1, <1>2 DEF At, Continues, Active
  <2>2. call[b] = NoCall
    BY <2>1 DEF CallsOK
  <2>3. call'[b] = [call[b] EXCEPT !.alone = call[b].alone /\ b \notin Active,
                                   !.overlaid = call[b].overlaid \/ b \in over]
    BY <1>0, <2>1, ReplaceFacts
  <2>4. b \notin over
    BY <2>1
  <2>5. NoCall.alone = TRUE /\ NoCall.overlaid = FALSE
    BY DEF NoCall
  <2>6. call[b].alone /\ b \notin Active <=> TRUE
    BY <2>1, <2>2, <2>5
  <2>7. call[b].overlaid \/ b \in over <=> FALSE
    BY <2>2, <2>4, <2>5
  <2>8. call'[b] = [NoCall EXCEPT !.alone = TRUE, !.overlaid = FALSE]
    BY <2>2, <2>3, <2>6, <2>7
  <2> QED BY <2>8 DEF NoCall
<1>3. ASSUME NEW b \in Calls, NEW d \in Calls, b < d, At(b, "none")' PROVE At(d, "none")'
  <2>1. b # c /\ At(b, "none")
    BY <1>1, <1>3 DEF At, Continues
  <2>2. At(d, "none")
    BY <1>3, <2>1 DEF CallsOK
  <2>3. d # c
    BY <1>3, <2>1, <2>2 DEF Continues, At, Active, Calls
  <2> QED BY <1>1, <2>2, <2>3 DEF At
<1>4. ASSUME NEW b \in Calls, NEW d \in Calls, b \in Active', d \in Active', call'[b].alone PROVE b = d
  BY <1>1, <1>4
<1>5. ASSUME NEW b \in Calls, NEW d \in Calls, b \in Active', call'[b].alone, b < d PROVE At(d, "none")'
  <2>1. b = c /\ call[c].alone
    BY <1>1, <1>5 DEF Continues
  <2>2. At(d, "none")
    BY <1>5, <2>1 DEF Continues, CallsOK
  <2>3. d # c
    BY <1>5, <2>1 DEF Calls
  <2> QED BY <1>1, <2>2, <2>3 DEF At
<1>6. ASSUME NEW b \in Calls, b \in Active', call'[b].alone PROVE ~call'[b].overlaid
  <2>1. b = c /\ call[c].alone
    BY <1>1, <1>6 DEF Continues
  <2>2. ~call[c].overlaid
    <3>1. CASE c \in Active
      BY <2>1, <3>1 DEF CallsOK
    <3>2. CASE At(c, "none")
      <4>1. call[c] = NoCall
        BY <3>2 DEF CallsOK
      <4> QED BY <4>1 DEF NoCall
    <3> QED BY <3>1, <3>2 DEF Continues
  <2> QED BY <1>1, <2>1, <2>2 DEF Continues
<1>7. ASSUME NEW b \in Calls, b \in Active' PROVE call'[b].from \notin {"failed", "aborted"}
  BY <1>1, <1>7 DEF Continues, CallsOK
<1> QED BY <1>2, <1>3, <1>4, <1>5, <1>6, <1>7 DEF CallsOK

\* Where everybody is alone after the step, everybody was before, and c was the only one
\* that ran.
LEMMA AloneBefore ==
    ASSUME TypeOK, NEW c \in Calls, NEW r \in CallType, NEW over,
           Replace(c, r, over), Continues(c, r), Alone'
    PROVE  Alone /\ Active \subseteq {c}
<1>0. call \in [Calls -> CallType]
  BY DEF TypeOK
<1>1. /\ call'[c].alone <=> r.alone /\ Active \subseteq {c}
      /\ \A b \in Calls \ {c} : call'[b].alone <=> call[b].alone /\ b \notin Active
  BY <1>0, ReplaceFields
<1> QED BY <1>1 DEF Alone, Continues

LEMMA StepKeepsMemory ==
    ASSUME TypeOK, MemoryOK, NEW c \in Calls, NEW r \in CallType, NEW over,
           Replace(c, r, over), Continues(c, r), KeepsFiles(c, r), UNCHANGED cache_path
    PROVE  MemoryOK'
<1> SUFFICES ASSUME cache_path, Alone', NEW u \in Urls, NEW x \in Nat, Holds(schemas', u, x)
             PROVE  \/ \E d \in Calls : Saves(d, u)' /\ call'[d].value = x
                    \/ /\ \A d \in Calls : ~Saves(d, u)'
                       /\ \E copy \in disk'[u] : copy.value = x
  BY DEF MemoryOK
<1>0. call \in [Calls -> CallType]
  BY DEF TypeOK
<1>1. /\ call'[c].pc = r.pc /\ call'[c].url = r.url /\ call'[c].value = r.value
      /\ \A b \in Calls \ {c} : call'[b].pc = call[b].pc /\ call'[b].url = call[b].url
  BY <1>0, ReplaceFields
<1>2. Alone /\ Active \subseteq {c} /\ call[c].alone
  BY AloneBefore DEF Alone
<1>3. \A b \in Calls \ {c} : \A w \in Urls : ~Saves(b, w) /\ ~Saves(b, w)'
  BY <1>1, <1>2 DEF Saves, WriteLabels, Active
<1>4. Consistent(call[c], schemas, disk)
  <2> SUFFICES ASSUME NEW w \in Urls, NEW y \in Nat, Holds(schemas, w, y)
               PROVE  Backed(call[c], w, y, disk)
    BY DEF Consistent
  <2>1. \/ \E d \in Calls : Saves(d, w) /\ call[d].value = y
        \/ /\ \A d \in Calls : ~Saves(d, w)
           /\ \E copy \in disk[w] : copy.value = y
    BY <1>2 DEF MemoryOK
  <2>2. \/ Saves(c, w) /\ call[c].value = y
        \/ ~Saves(c, w) /\ \E copy \in disk[w] : copy.value = y
    BY <1>3, <2>1
  <2> QED BY <2>2 DEF Saves, Backed
<1>5. Backed(r, u, x, disk')
  BY <1>2, <1>4 DEF KeepsFiles, Consistent
<1>6. CASE r.pc \in WriteLabels /\ r.url = u
  BY <1>1, <1>5, <1>6 DEF Backed, Saves
<1>7. CASE ~(r.pc \in WriteLabels /\ r.url = u)
  <2>1. \A d \in Calls : ~Saves(d, u)'
    BY <1>1, <1>3, <1>7 DEF Saves
  <2> QED BY <1>5, <1>7, <2>1 DEF Backed
<1> QED BY <1>6, <1>7

LEMMA StepKeepsDisk ==
    ASSUME TypeOK, CallsOK, DiskOK, NEW c \in Calls, NEW r \in CallType, NEW over,
           Replace(c, r, over), Continues(c, r), KeepsFiles(c, r), UNCHANGED cache_path
    PROVE  DiskOK'
<1> SUFFICES ASSUME cache_path, Alone', \A b \in Calls : call'[b].from # "aborted",
                    NEW u \in Urls, Had(u)'
             PROVE  disk'[u] # {} \/ \E b \in Calls : Saves(b, u)'
  BY DEF DiskOK
<1>0. call \in [Calls -> CallType] /\ r.url \in Urls
  BY DEF TypeOK, CallType
<1>1. /\ call'[c].pc = r.pc /\ call'[c].url = r.url /\ call'[c].value = r.value
      /\ \A b \in Calls \ {c} :
             /\ call'[b].pc = call[b].pc /\ call'[b].url = call[b].url
             /\ call'[b].value = call[b].value /\ call'[b].from = call[b].from
  BY <1>0, ReplaceFields
<1>2. Alone /\ Active \subseteq {c} /\ call[c].alone
  BY AloneBefore DEF Alone
<1>3. \A b \in Calls : call[b].from # "aborted"
  <2>1. call[c].from # "aborted"
    <3>1. CASE c \in Active
      BY <3>1 DEF CallsOK
    <3>2. CASE At(c, "none")
      <4>1. call[c] = NoCall
        BY <3>2 DEF CallsOK
      <4> QED BY <4>1 DEF NoCall
    <3> QED BY <3>1, <3>2 DEF Continues
  <2> QED BY <1>1, <2>1
<1>4. ASSUME NEW w \in Urls, Had(w) PROVE Kept(call[c], disk, w)
  <2>1. disk[w] # {} \/ \E b \in Calls : Saves(b, w)
    BY <1>2, <1>3, <1>4 DEF DiskOK
  <2>2. \A b \in Calls \ {c} : ~Saves(b, w)
    BY <1>2 DEF Saves, WriteLabels, Active
  <2> QED BY <2>1, <2>2 DEF Saves, Kept
<1>5. ASSUME NEW w \in Urls, InMemory(w) PROVE Had(w)
  BY <1>5 DEF InMemory, Had
<1>6. Kept(r, disk', u)
  <2>1. CASE \E b \in Calls \ {c} : At(b, "done")' /\ call'[b].url = u /\ call'[b].value # NoValue
    <3>1. Had(u)
      BY <1>1, <2>1 DEF Had, At
    <3> QED BY <1>2, <1>4, <3>1 DEF KeepsFiles
  <2>2. CASE r.pc = "done" /\ r.url = u /\ r.value # NoValue
    BY <1>0, <1>2, <1>4, <1>5, <2>2 DEF KeepsFiles
  <2>3. CASE InMemory(u)'
    BY <1>2, <1>4, <1>5, <2>3 DEF KeepsFiles
  <2> QED BY <1>1, <2>1, <2>2, <2>3 DEF Had, InMemory, At
<1> QED BY <1>1, <1>6 DEF Kept, Saves

LEMMA StepKeepsUsable ==
    ASSUME TypeOK, CallsOK, DiskOK, SavedSchemasStayUsable, NEW c \in Calls, NEW r \in CallType,
           NEW over, Replace(c, r, over), Continues(c, r), UNCHANGED cache_path
    PROVE  SavedSchemasStayUsable'
<1> SUFFICES ASSUME NEW b \in Calls, NEW d \in Calls, b < d,
                    call'[b].url = call'[d].url, cache_path, At(b, "done")',
                    call'[b].value # NoValue, call'[d].from = "failed",
                    \A e \in 1..d : call'[e].alone /\ call'[e].from # "aborted"
             PROVE  FALSE
  BY DEF SavedSchemasStayUsable
<1>0. call \in [Calls -> CallType] /\ r.url \in Urls
  BY DEF TypeOK, CallType
<1>1. /\ call'[c].pc = r.pc /\ call'[c].url = r.url /\ call'[c].value = r.value /\ call'[c].from = r.from
      /\ call'[c].alone <=> r.alone /\ Active \subseteq {c}
      /\ \A e \in Calls \ {c} :
             /\ call'[e].pc = call[e].pc /\ call'[e].url = call[e].url
             /\ call'[e].value = call[e].value /\ call'[e].from = call[e].from
             /\ call'[e].alone <=> call[e].alone /\ e \notin Active
  BY <1>0, ReplaceFields
<1>2. 1..d \subseteq Calls /\ b \in 1..d /\ d \in 1..d
  BY CacheAssumption DEF Calls
<1>3. call[c].from # "aborted"
  <2>1. CASE c \in Active
    BY <2>1 DEF CallsOK
  <2>2. CASE At(c, "none")
    <3>1. call[c] = NoCall
      BY <2>2 DEF CallsOK
    <3> QED BY <3>1 DEF NoCall
  <2> QED BY <2>1, <2>2 DEF Continues
<1>4. \A e \in 1..d : call[e].alone /\ call[e].from # "aborted"
  BY <1>1, <1>2, <1>3 DEF Continues
<1>5. CASE d # c /\ b # c
  <2>1. At(b, "done") /\ call[b].value # NoValue /\ call[d].from = "failed" /\ call[b].url = call[d].url
    BY <1>1, <1>5 DEF At
  <2> QED BY <1>4, <2>1 DEF SavedSchemasStayUsable
<1>6. CASE d # c /\ b = c
  <2>1. call[d].from = "failed"
    BY <1>1, <1>6
  <2>2. ~At(d, "none")
    <3>1. ASSUME call[d] = NoCall PROVE FALSE
      BY <2>1, <3>1 DEF NoCall
    <3> QED BY <3>1 DEF CallsOK
  <2>3. c \in Active
    BY <1>6, <2>2 DEF Continues, CallsOK
  <2>4. call[c].alone
    BY <1>2, <1>4, <1>6
  <2> QED BY <1>6, <2>2, <2>3, <2>4 DEF CallsOK
<1>7. CASE d = c
  <2>1. /\ c \in Active /\ call[c].pc \notin WriteLabels /\ r.url = call[c].url /\ disk[r.url] = {}
        /\ call[c].alone /\ Active \subseteq {c}
    BY <1>1, <1>2, <1>4, <1>7 DEF Continues
  <2>2. ASSUME NEW e \in Calls PROVE call[e].alone /\ call[e].from # "aborted"
    <3>1. CASE e \in 1..d
      BY <1>4, <3>1
    <3>2. CASE c < e
      <4>1. call[e] = NoCall
        BY <2>1, <3>2 DEF CallsOK
      <4> QED BY <4>1 DEF NoCall
    <3> QED BY <1>7, <3>1, <3>2 DEF Calls
  <2>3. b # c
    BY <1>7 DEF Calls
  <2>4. Had(r.url)
    BY <1>1, <1>7, <2>3 DEF Had, At
  <2>5. \A e \in Calls : ~Saves(e, r.url)
    BY <2>1 DEF Saves, WriteLabels, Active
  <2> QED BY <1>0, <2>1, <2>2, <2>4, <2>5 DEF DiskOK, Alone
<1> QED BY <1>5, <1>6, <1>7

\* What is left to show of each step.
LEMMA CallStep ==
    ASSUME IInv, TypeOK', NEW c \in Calls, NEW r \in CallType, NEW over, over \subseteq Active \ {c},
           Replace(c, r, over), Continues(c, r), KeepsFiles(c, r), UNCHANGED cache_path
    PROVE  IInv'
    BY StepKeepsCalls, StepKeepsMemory, StepKeepsDisk, StepKeepsUsable DEF IInv

-------------------------------------------------------------------------------
(* Loading.                                                                    *)

LEMMA RecordTypes ==
    ASSUME TypeOK, NEW r \in CallType
    PROVE  /\ Done(r) \in CallType
           /\ \A label \in WriteLabels : Save(r, label) \in CallType
           /\ \A label \in Labels : [r EXCEPT !.pc = label] \in CallType
           /\ \A label \in Labels : [r EXCEPT !.pc = label, !.now = clock] \in CallType
           /\ \A v \in Nat, from \in Origins : Served(r, v, from) \in CallType
<1>1. clock + DiskTime \in Nat /\ clock \in Nat
  BY CacheAssumption DEF TypeOK
<1>2. Done(r) \in CallType
  BY DEF Done, CallType, Labels
<1>3. \A label \in WriteLabels : Save(r, label) \in CallType
  BY <1>1 DEF Save, CallType, Labels
<1>4. \A label \in Labels : [r EXCEPT !.pc = label] \in CallType
  BY DEF CallType
<1>5. \A label \in Labels : [r EXCEPT !.pc = label, !.now = clock] \in CallType
  BY <1>1 DEF CallType
<1>6. \A v \in Nat, from \in Origins : Served(r, v, from) \in CallType
  BY DEF CallType, Served
<1> QED BY <1>2, <1>3, <1>4, <1>5, <1>6

\* What a call becomes when load_schema returns r to it.
LoadedCall(r) == IF r.kind # "load" /\ cache_path THEN Save(r, "to_rewrite") ELSE Done(r)

LEMMA LoadedFacts ==
    ASSUME TypeOK, NEW c \in Calls, NEW r \in CallType, NEW ss, NEW vs,
           LruOK(ss, MaxSchemas), LruOK(vs, MaxValidators), Loaded(c, r, ss, vs)
    PROVE  /\ LoadedCall(r) \in CallType
           /\ Replace(c, LoadedCall(r), {})
           /\ LruOK(schemas', MaxSchemas) /\ LruOK(validators', MaxValidators)
           /\ \A u, x : Holds(schemas', u, x) =>
                  \/ Holds(ss, u, x) /\ (LoadedCall(r).pc = "to_rewrite" => u # r.url)
                  \/ u = r.url /\ x = r.value /\ r.kind # "load"
           /\ \A u, x : Holds(validators', u, x) => Holds(vs, u, x) \/ u = r.url
<1>0. /\ MaxSchemas \in Nat \ {0} /\ MaxValidators \in Nat \ {0}
      /\ r.url \in Urls /\ r.value \in Nat
  BY CacheAssumption DEF CallType
<1>1. LoadedCall(r) \in CallType
  BY RecordTypes DEF LoadedCall, WriteLabels
<1>2. /\ LruOK(Put(ss, MaxSchemas, r.url, r.value), MaxSchemas)
      /\ \A u, x : Holds(Put(ss, MaxSchemas, r.url, r.value), u, x) =>
             IF u = r.url THEN x = r.value ELSE Holds(ss, u, x)
  BY <1>0, PutLru
<1>3. /\ LruOK(Put(vs, MaxValidators, r.url, r.value), MaxValidators)
      /\ \A u, x : Holds(Put(vs, MaxValidators, r.url, r.value), u, x) =>
             IF u = r.url THEN x = r.value ELSE Holds(vs, u, x)
  BY <1>0, PutLru
<1>4. LoadedCall(r).pc = IF r.kind # "load" /\ cache_path THEN "to_rewrite" ELSE "done"
  BY DEF LoadedCall, Save, Done, CallType
<1>5. CASE r.kind = "load"
  <2>1. Replace(c, LoadedCall(r), {}) /\ schemas' = ss /\ validators' = vs
    BY <1>5 DEF Loaded, LoadedCall, Becomes
  <2> QED BY <1>1, <1>4, <1>5, <2>1
<1>6. CASE r.kind # "load" /\ cache_path
  <2>1. /\ Replace(c, LoadedCall(r), {}) /\ validators' = vs
        /\ schemas' = Put(ss, MaxSchemas, r.url, r.value)
    BY <1>6 DEF Loaded, LoadedCall, Becomes
  <2> QED BY <1>1, <1>2, <1>6, <2>1
<1>7. CASE r.kind # "load" /\ ~cache_path
  <2>1. /\ Replace(c, LoadedCall(r), {})
        /\ schemas' = Put(ss, MaxSchemas, r.url, r.value)
        /\ validators' = Put(vs, MaxValidators, r.url, r.value)
    BY <1>7 DEF Loaded, LoadedCall, Becomes
  <2> QED BY <1>1, <1>2, <1>3, <1>4, <1>7, <2>1
<1> QED BY <1>5, <1>6, <1>7

\* Call c runs, or is the next to start.
MayRun(c) == c \in Active \/ (At(c, "none") /\ \A b \in 1..c - 1 : ~At(b, "none"))

OtherTypes ==
    /\ clock \in Nat /\ version \in [Urls -> Nat] /\ lru_expires_by \in Nat
    /\ permits \in Nat /\ restarts \in Nat

OnDisk(u, x) == \E copy \in disk[u] : copy.value = x

\* load_schema returns what was in memory or in a file.
LEMMA LoadedStep ==
    ASSUME IInv, OtherTypes', UNCHANGED files, NEW c \in Calls, MayRun(c), call[c].pc \notin WriteLabels,
           NEW r \in CallType, r.alone = call[c].alone, r.overlaid => call[c].overlaid,
           r.from \notin {"failed", "aborted"},
           NEW ss, NEW vs, LruOK(ss, MaxSchemas), LruOK(vs, MaxValidators), Loaded(c, r, ss, vs),
           cache_path =>
               /\ \A u, x : Holds(ss, u, x) => Holds(schemas, u, x) \/ OnDisk(u, x)
               /\ \A u, x : Holds(vs, u, x) => Holds(validators, u, x)
               /\ Holds(schemas, r.url, r.value) \/ OnDisk(r.url, r.value)
    PROVE  IInv'
<1> DEFINE l == LoadedCall(r)
<1>0. TypeOK
  BY DEF IInv
<1>1. /\ l \in CallType /\ Replace(c, l, {})
      /\ LruOK(schemas', MaxSchemas) /\ LruOK(validators', MaxValidators)
      /\ \A u, x : Holds(schemas', u, x) =>
             \/ Holds(ss, u, x) /\ (l.pc = "to_rewrite" => u # r.url)
             \/ u = r.url /\ x = r.value /\ r.kind # "load"
      /\ \A u, x : Holds(validators', u, x) => Holds(vs, u, x) \/ u = r.url
  BY <1>0, LoadedFacts
<1>2. /\ l.pc = IF r.kind # "load" /\ cache_path THEN "to_rewrite" ELSE "done"
      /\ l.url = r.url /\ l.value = r.value /\ l.from = r.from
      /\ l.alone = r.alone
  BY DEF LoadedCall, Save, Done, CallType
<1>3. l.overlaid => r.overlaid
  BY DEF LoadedCall, Save, Done, CallType
<1>4. TypeOK'
  <2>1. call' \in [Calls -> CallType]
    BY <1>0, <1>1, ReplaceFacts DEF TypeOK
  <2> QED BY <1>0, <1>1, <2>1 DEF TypeOK, OtherTypes, files
<1>5. Continues(c, l)
  BY <1>2, <1>3 DEF Continues, MayRun
<1>6. ASSUME cache_path PROVE KeepsFiles(c, l)
  <2>1. ASSUME Consistent(call[c], schemas, disk) PROVE Consistent(l, schemas', disk')
    <3> SUFFICES ASSUME NEW u \in Urls, NEW x \in Nat, Holds(schemas', u, x)
                 PROVE  Backed(l, u, x, disk)
      BY DEF Consistent, files
    <3>1. ASSUME Holds(ss, u, x), l.pc = "to_rewrite" => u # r.url PROVE Backed(l, u, x, disk)
      <4>1. OnDisk(u, x)
        BY <1>6, <2>1, <3>1 DEF Consistent, Backed, OnDisk
      <4> QED BY <1>2, <3>1, <4>1 DEF Backed, OnDisk, WriteLabels
    <3>2. ASSUME u = r.url, x = r.value, r.kind # "load" PROVE Backed(l, u, x, disk)
      BY <1>2, <1>6, <3>2 DEF Backed, WriteLabels
    <3> QED BY <1>1, <3>1, <3>2
  <2>2. \A u \in Urls : Kept(call[c], disk, u) => Kept(l, disk', u)
    BY DEF Kept, files
  <2>3. \A u, x : OnDisk(u, x) => Kept(l, disk', u)
    BY DEF OnDisk, Kept, files
  <2>4. r.value \in Nat
    BY DEF CallType
  <2>5. Kept(l, disk', r.url) \/ InMemory(r.url)
    BY <1>6, <2>3, <2>4 DEF InMemory
  <2>6. ASSUME NEW u \in Urls, NEW x \in Nat, Holds(schemas', u, x) \/ Holds(validators', u, x)
        PROVE  Kept(l, disk', u) \/ InMemory(u)
    BY <1>1, <1>6, <2>3, <2>5, <2>6 DEF InMemory
  <2> QED BY <1>2, <2>1, <2>2, <2>5, <2>6 DEF KeepsFiles, InMemory
<1>7. KeepsFiles(c, l)
  BY <1>6 DEF KeepsFiles
<1> HIDE DEF l
<1> QED BY <1>1, <1>4, <1>5, <1>7, CallStep DEF files

\* A step that brings nothing new to memory or files.
LEMMA PlainStep ==
    ASSUME IInv, OtherTypes', UNCHANGED files, NEW c \in Calls, call[c].pc \notin WriteLabels,
           NEW r \in CallType, r.pc \notin WriteLabels, Continues(c, r), Becomes(c, r),
           LruOK(schemas', MaxSchemas), LruOK(validators', MaxValidators),
           \A u, x : Holds(schemas', u, x) => Holds(schemas, u, x),
           \A u, x : Holds(validators', u, x) => Holds(validators, u, x),
           r.pc = "done" /\ r.value # NoValue => InMemory(r.url)
    PROVE  IInv'
<1>1. Replace(c, r, {})
  BY DEF Becomes
<1>2. TypeOK'
  <2>1. call' \in [Calls -> CallType]
    BY <1>1, ReplaceFacts DEF IInv, TypeOK
  <2> QED BY <2>1 DEF IInv, TypeOK, OtherTypes, files
<1>3. Consistent(call[c], schemas, disk) => Consistent(r, schemas', disk')
  BY DEF Consistent, Backed, files
<1>4. \A u \in Urls : Kept(call[c], disk, u) => Kept(r, disk', u)
  BY DEF Kept, files
<1>5. \A u \in Urls : InMemory(u)' => InMemory(u)
  BY DEF InMemory
<1>6. KeepsFiles(c, r)
  BY <1>3, <1>4, <1>5 DEF KeepsFiles
<1> QED BY <1>1, <1>2, <1>6, CallStep DEF files

\* cache.load and what follows it, for a call that may run.
LEMMA LookUpStep ==
    ASSUME IInv, OtherTypes', UNCHANGED files, NEW c \in Calls, MayRun(c), call[c].pc \notin WriteLabels,
           NEW r \in CallType, r.alone = call[c].alone, r.overlaid => call[c].overlaid,
           r.from \notin {"failed", "aborted"},
           NEW ss, NEW vs, LruOK(ss, MaxSchemas), LruOK(vs, MaxValidators),
           \A u, x : Holds(ss, u, x) => Holds(schemas, u, x),
           \A u, x : Holds(vs, u, x) => Holds(validators, u, x),
           NEW file \in {"reading", "reading_expired"}, NEW otherwise \in CallType,
           ~cache_path => otherwise.pc \in {"waiting", "done"} /\ otherwise.value = NoValue
                          /\ Continues(c, otherwise),
           LookUp(c, r, ss, vs, file, otherwise)
    PROVE  IInv'
<1>0. TypeOK /\ MaxSchemas \in Nat \ {0}
  BY CacheAssumption DEF IInv
<1>1. CASE Cached(ss, r.url)
  <2> DEFINE s == Served(r, Get(ss, r.url).value, "memory")
             ts == Touch(ss, r.url)
  <2>1. /\ LruOK(ts, MaxSchemas)
        /\ \A w, x : Holds(ts, w, x) => Holds(ss, w, x)
        /\ Get(ss, r.url).value \in Nat
    BY <1>0, <1>1, TouchLru
  <2>2. s \in CallType
    BY <1>0, <2>1, RecordTypes DEF Origins
  <2>3. /\ s.alone = r.alone /\ s.overlaid = r.overlaid /\ s.from = "memory"
        /\ s.url = r.url /\ s.value = Get(ss, r.url).value
    BY DEF Served, CallType
  <2>4. Holds(ss, r.url, s.value)
    BY <1>1, <2>3, GetIsHeld
  <2>5. Loaded(c, s, ts, vs)
    BY <1>1 DEF LookUp
  <2> HIDE DEF s, ts
  <2> QED BY <2>1, <2>2, <2>3, <2>4, <2>5, LoadedStep
<1>2. CASE ~Cached(ss, r.url)
  <2>1. schemas' = ss /\ validators' = vs
    BY <1>2 DEF LookUp
  <2>2. CASE cache_path
    <3> DEFINE s == [r EXCEPT !.pc = file, !.now = clock]
    <3>1. s \in CallType
      BY <1>0, RecordTypes DEF Labels
    <3>2. /\ s.pc = file /\ s.alone = r.alone /\ s.overlaid = r.overlaid /\ s.from = r.from
      BY DEF CallType
    <3>3. Becomes(c, s)
      BY <1>2, <2>2 DEF LookUp
    <3> HIDE DEF s
    <3>4. Continues(c, s)
      BY <3>2 DEF Continues, MayRun
    <3>5. s.pc \notin WriteLabels /\ s.pc # "done"
      BY <3>2 DEF WriteLabels
    <3> QED BY <2>1, <3>1, <3>3, <3>4, <3>5, PlainStep
  <2>3. CASE ~cache_path
    <3>1. Becomes(c, otherwise)
      BY <1>2, <2>3 DEF LookUp
    <3>2. otherwise.pc \notin WriteLabels
      BY <2>3 DEF WriteLabels
    <3> QED BY <2>1, <2>3, <3>1, <3>2, PlainStep
  <2> QED BY <2>2, <2>3
<1> QED BY <1>1, <1>2

-------------------------------------------------------------------------------
(* The actions.                                                                *)

\* What the request of a new call is.
LEMMA RequestFacts ==
    ASSUME IInv, NEW c \in Calls, At(c, "none"), NEW kind \in {"load", "validate"}, NEW u \in Urls
    PROVE  /\ Request(kind, u) \in CallType
           /\ Request(kind, u).alone = call[c].alone /\ ~Request(kind, u).overlaid
           /\ Request(kind, u).from = "none" /\ Request(kind, u).value = NoValue
           /\ Request(kind, u).url = u
           /\ call[c].pc \notin WriteLabels
<1>1. call[c] = NoCall
  BY DEF IInv, CallsOK
<1>2. (CHOOSE w \in Urls : TRUE) \in Urls
  BY CacheAssumption
<1>3. NoCall \in CallType
  BY <1>2 DEF NoCall, CallType, Labels, Origins, NoValue
<1>4. /\ Request(kind, u) \in CallType /\ Request(kind, u).url = u
      /\ Request(kind, u).alone = NoCall.alone /\ ~Request(kind, u).overlaid
      /\ Request(kind, u).from = "none" /\ Request(kind, u).value = NoValue
  BY <1>3 DEF Request, NoCall, CallType
<1>5. call[c].pc \notin WriteLabels
  BY <1>1 DEF NoCall, WriteLabels
<1> QED BY <1>1, <1>4, <1>5

LEMMA TimerType == ASSUME TypeOK, ResetTimer PROVE lru_expires_by' \in Nat
    BY CacheAssumption DEF TypeOK, ResetTimer

LEMMA WaitingFacts ==
    ASSUME TypeOK, NEW c \in Calls, MayRun(c), NEW r \in CallType, r.alone = call[c].alone,
           r.overlaid => call[c].overlaid, r.from \notin {"failed", "aborted"},
           NEW label \in Labels \ {"none"}
    PROVE  /\ [r EXCEPT !.pc = label] \in CallType
           /\ [r EXCEPT !.pc = label].pc = label
           /\ [r EXCEPT !.pc = label].value = r.value
           /\ Continues(c, [r EXCEPT !.pc = label])
<1>1. [r EXCEPT !.pc = label] \in CallType
  BY RecordTypes
<1>2. /\ [r EXCEPT !.pc = label].pc = label /\ [r EXCEPT !.pc = label].value = r.value
      /\ [r EXCEPT !.pc = label].alone = r.alone /\ [r EXCEPT !.pc = label].overlaid = r.overlaid
      /\ [r EXCEPT !.pc = label].from = r.from
  BY DEF CallType
<1> QED BY <1>1, <1>2 DEF Continues, MayRun

LEMMA EmptyCaches ==
    /\ LruOK(<<>>, MaxSchemas) /\ LruOK(<<>>, MaxValidators)
    /\ \A u, x : ~Holds(<<>>, u, x)
    BY EmptyLru, CacheAssumption

LEMMA LoadStep == ASSUME IInv, NEW c \in Calls, NEW u \in Urls, Load(c, u) PROVE IInv'
<1> DEFINE q == Request("load", u)
           w == [q EXCEPT !.pc = "waiting"]
           ss == IF Expired THEN <<>> ELSE schemas
<1>1. /\ MayRun(c) /\ At(c, "none")
      /\ UNCHANGED <<origin, permits, files, restarts>>
      /\ lru_expires_by' \in Nat
      /\ LookUp(c, q, ss, validators, "reading", w)
  BY TimerType DEF Load, NewCall, MayRun, IInv
<1>2. /\ q \in CallType /\ q.alone = call[c].alone /\ ~q.overlaid
      /\ q.from = "none" /\ q.value = NoValue /\ call[c].pc \notin WriteLabels
  BY <1>1, RequestFacts
<1> HIDE DEF q
<1>3. OtherTypes' /\ UNCHANGED files
  BY <1>1 DEF OtherTypes, IInv, TypeOK, origin
<1>4. w \in CallType /\ w.pc = "waiting" /\ w.value = NoValue /\ Continues(c, w)
  BY <1>1, <1>2, WaitingFacts DEF Labels, IInv
<1>5. /\ LruOK(ss, MaxSchemas) /\ LruOK(validators, MaxValidators)
      /\ \A v, x : Holds(ss, v, x) => Holds(schemas, v, x)
  BY EmptyCaches DEF IInv, TypeOK
<1> HIDE DEF w, ss
<1> QED BY <1>1, <1>2, <1>3, <1>4, <1>5, LookUpStep

LEMMA ValidateStep == ASSUME IInv, NEW c \in Calls, NEW u \in Urls, Validate(c, u) PROVE IInv'
<1> DEFINE q == Request("validate", u)
           w == [q EXCEPT !.pc = "waiting"]
           vs == IF Expired THEN <<>> ELSE validators
<1>1. /\ MayRun(c) /\ At(c, "none")
      /\ UNCHANGED <<origin, permits, files, restarts>>
      /\ lru_expires_by' \in Nat
  BY TimerType DEF Validate, NewCall, MayRun, IInv
<1>2. /\ q \in CallType /\ q.alone = call[c].alone /\ ~q.overlaid
      /\ q.from = "none" /\ q.value = NoValue /\ q.url = u /\ call[c].pc \notin WriteLabels
  BY <1>1, RequestFacts
<1>3. OtherTypes' /\ UNCHANGED files
  BY <1>1 DEF OtherTypes, IInv, TypeOK, origin
<1>4. /\ LruOK(schemas, MaxSchemas) /\ LruOK(vs, MaxValidators)
      /\ \A v, x : Holds(vs, v, x) => Holds(validators, v, x)
  BY EmptyCaches DEF IInv, TypeOK
<1>5. CASE Cached(vs, u)
  <2> DEFINE s == Served(q, Get(vs, u).value, "validator")
             d == Done(s)
  <2>1. Becomes(c, d) /\ validators' = Touch(vs, u) /\ schemas' = schemas
    BY <1>5 DEF Validate
  <2>2. /\ LruOK(validators', MaxValidators)
        /\ \A v, x : Holds(validators', v, x) => Holds(vs, v, x)
        /\ Get(vs, u).value \in Nat
    BY <1>4, <1>5, <2>1, TouchLru, CacheAssumption
  <2>3. s \in CallType /\ d \in CallType
    BY <1>2, <2>2, RecordTypes DEF Origins, IInv
  <2>4. /\ d.pc = "done" /\ d.alone = q.alone /\ ~d.overlaid /\ d.from = "validator"
        /\ d.url = u /\ d.value = Get(vs, u).value
    BY <1>2 DEF Done, Served, CallType
  <2>5. Holds(validators, u, d.value)
    BY <1>4, <1>5, <2>4, GetIsHeld
  <2> HIDE DEF d, s, q
  <2>6. Continues(c, d)
    BY <1>1, <1>2, <2>4 DEF Continues, MayRun
  <2>7. InMemory(d.url)
    BY <2>2, <2>4, <2>5 DEF InMemory
  <2>8. d.pc \notin WriteLabels
    BY <2>4 DEF WriteLabels
  <2> HIDE DEF vs
  <2> QED BY <1>2, <1>3, <1>4, <2>1, <2>2, <2>3, <2>6, <2>7, <2>8, PlainStep
<1>6. CASE ~Cached(vs, u)
  <2>1. LookUp(c, q, schemas, vs, "reading", w)
    BY <1>6 DEF Validate
  <2> HIDE DEF q
  <2>2. w \in CallType /\ w.pc = "waiting" /\ w.value = NoValue /\ Continues(c, w)
    BY <1>1, <1>2, WaitingFacts DEF Labels, IInv
  <2> HIDE DEF w, vs
  <2> QED BY <1>1, <1>2, <1>3, <1>4, <2>1, <2>2, LookUpStep
<1> QED BY <1>5, <1>6

\* What a running call that does not write is.
LEMMA RunningFacts ==
    ASSUME IInv, NEW c \in Calls, NEW label \in {"reading", "reading_expired", "waiting", "fetching"},
           At(c, label)
    PROVE  /\ MayRun(c) /\ c \in Active /\ call[c] \in CallType /\ call[c].url \in Urls
           /\ call[c].pc \notin WriteLabels /\ call[c].from \notin {"failed", "aborted"}
<1>1. c \in Active
  BY DEF Active, At
<1>2. call[c] \in CallType
  BY DEF IInv, TypeOK
<1> QED BY <1>1, <1>2 DEF MayRun, At, WriteLabels, IInv, CallsOK, CallType

LEMMA StartFetchStep == ASSUME IInv, NEW c \in Calls, StartFetch(c) PROVE IInv'
<1> DEFINE r == [call[c] EXCEPT !.pc = "fetching"]
<1>1. /\ At(c, "waiting") /\ permits > 0 /\ permits' = permits - 1 /\ Becomes(c, r)
      /\ UNCHANGED <<origin, lru_expires_by, schemas, validators, files, restarts>>
  BY DEF StartFetch, Goto
<1>2. /\ MayRun(c) /\ call[c] \in CallType /\ call[c].pc \notin WriteLabels
      /\ call[c].from \notin {"failed", "aborted"}
  BY <1>1, RunningFacts
<1>3. r \in CallType /\ r.pc = "fetching" /\ Continues(c, r)
  BY <1>2, WaitingFacts DEF Labels, IInv
<1>4. OtherTypes' /\ UNCHANGED files
  BY <1>1 DEF OtherTypes, IInv, TypeOK, origin
<1>5. LruOK(schemas', MaxSchemas) /\ LruOK(validators', MaxValidators)
  BY <1>1 DEF IInv, TypeOK
<1>6. r.pc \notin WriteLabels /\ r.pc # "done"
  BY <1>3 DEF WriteLabels
<1> HIDE DEF r
<1> QED BY <1>1, <1>2, <1>3, <1>4, <1>5, <1>6, PlainStep

\* A call that fails when its file has nothing.
LEMMA FailedFacts ==
    ASSUME IInv, NEW c \in Calls, c \in Active, call[c].pc \notin WriteLabels,
           cache_path => disk[call[c].url] = {}
    PROVE  /\ Failed(call[c]) \in CallType /\ Failed(call[c]).pc = "done"
           /\ Failed(call[c]).value = NoValue /\ Continues(c, Failed(call[c]))
<1>1. call[c] \in CallType
  BY DEF IInv, TypeOK
<1>2. Served(call[c], NoValue, "failed") \in CallType
  BY <1>1, RecordTypes DEF IInv, Origins, NoValue
<1>3. Failed(call[c]) \in CallType
  BY <1>2, RecordTypes DEF IInv, Failed
<1>4. /\ Failed(call[c]).pc = "done" /\ Failed(call[c]).value = NoValue
      /\ Failed(call[c]).alone = call[c].alone /\ ~Failed(call[c]).overlaid
      /\ Failed(call[c]).from = "failed" /\ Failed(call[c]).url = call[c].url
  BY <1>1 DEF Failed, Done, Served, CallType
<1> QED BY <1>3, <1>4 DEF Continues

LEMMA ReadFileStep == ASSUME IInv, NEW c \in Calls, ReadFile(c) PROVE IInv'
<1>1. /\ At(c, "reading") \/ At(c, "reading_expired")
      /\ UNCHANGED <<origin, lru_expires_by, permits, files, restarts>>
  BY DEF ReadFile
<1>2. /\ MayRun(c) /\ c \in Active /\ call[c] \in CallType /\ call[c].url \in Urls
      /\ call[c].pc \notin WriteLabels /\ call[c].from \notin {"failed", "aborted"}
  BY <1>1, RunningFacts
<1>3. OtherTypes' /\ UNCHANGED files
  BY <1>1 DEF OtherTypes, IInv, TypeOK, origin
<1>4. LruOK(schemas, MaxSchemas) /\ LruOK(validators, MaxValidators) /\ TypeOK
  BY DEF IInv, TypeOK
<1>5. ASSUME NEW copy \in Usable(c),
             Loaded(c, Served(call[c], copy.value, "disk"),
                    Put(schemas, MaxSchemas, call[c].url, copy.value), validators)
      PROVE  IInv'
  <2> DEFINE s == Served(call[c], copy.value, "disk")
             ss == Put(schemas, MaxSchemas, call[c].url, copy.value)
  <2>1. copy \in disk[call[c].url] /\ copy \in CopyType /\ copy.value \in Nat
    BY <1>2, <1>4 DEF Usable, TypeOK, CopyType
  <2>2. s \in CallType
    BY <1>2, <1>4, <2>1, RecordTypes DEF Origins
  <2>3. /\ s.alone = call[c].alone /\ s.overlaid = call[c].overlaid /\ s.from = "disk"
        /\ s.url = call[c].url /\ s.value = copy.value
    BY <1>2 DEF Served, CallType
  <2>4. /\ LruOK(ss, MaxSchemas)
        /\ \A w, x : Holds(ss, w, x) => IF w = call[c].url THEN x = copy.value ELSE Holds(schemas, w, x)
    BY <1>2, <1>4, <2>1, PutLru, CacheAssumption, SMTT(30)
  <2>5. OnDisk(call[c].url, copy.value)
    BY <2>1 DEF OnDisk
  <2>6. \A w, x : Holds(ss, w, x) => Holds(schemas, w, x) \/ OnDisk(w, x)
    BY <2>4, <2>5
  <2>7. Loaded(c, s, ss, validators)
    BY <1>5
  <2> HIDE DEF s, ss
  <2> QED BY <1>2, <1>3, <1>4, <2>2, <2>3, <2>4, <2>5, <2>6, <2>7, LoadedStep
<1>6. ASSUME Usable(c) = {}, UNCHANGED <<schemas, validators>>, At(c, "reading"),
             Becomes(c, [call[c] EXCEPT !.pc = "waiting"])
      PROVE  IInv'
  <2> DEFINE r == [call[c] EXCEPT !.pc = "waiting"]
  <2>1. r \in CallType /\ r.pc = "waiting" /\ Continues(c, r)
    BY <1>2, <1>4, WaitingFacts DEF Labels
  <2>2. r.pc \notin WriteLabels /\ r.pc # "done"
    BY <2>1 DEF WriteLabels
  <2> HIDE DEF r
  <2>3. Becomes(c, r)
    BY <1>6 DEF r
  <2> QED BY <1>2, <1>3, <1>4, <1>6, <2>1, <2>2, <2>3, PlainStep
<1>7. ASSUME Usable(c) = {}, UNCHANGED <<schemas, validators>>, At(c, "reading_expired"),
             Becomes(c, Failed(call[c]))
      PROVE  IInv'
  <2>1. disk[call[c].url] = {}
    BY <1>7 DEF Usable
  <2>2. /\ Failed(call[c]) \in CallType /\ Failed(call[c]).pc = "done"
        /\ Failed(call[c]).value = NoValue /\ Continues(c, Failed(call[c]))
    BY <1>2, <2>1, FailedFacts
  <2>3. Failed(call[c]).pc \notin WriteLabels
    BY <2>2 DEF WriteLabels
  <2> QED BY <1>2, <1>3, <1>4, <1>7, <2>2, <2>3, PlainStep
<1> QED BY <1>1, <1>5, <1>6, <1>7 DEF ReadFile, At

LEMMA FetchFailsStep == ASSUME IInv, NEW c \in Calls, FetchFails(c) PROVE IInv'
<1> DEFINE ss == IF Expired THEN <<>> ELSE schemas
<1>1. /\ At(c, "fetching") /\ permits' = permits + 1 /\ lru_expires_by' \in Nat
      /\ LookUp(c, call[c], ss, validators, "reading_expired", Failed(call[c]))
      /\ UNCHANGED <<origin, files, restarts>>
  BY TimerType DEF FetchFails, PermitDropped, IInv
<1>2. /\ MayRun(c) /\ c \in Active /\ call[c] \in CallType
      /\ call[c].pc \notin WriteLabels /\ call[c].from \notin {"failed", "aborted"}
  BY <1>1, RunningFacts
<1>3. OtherTypes' /\ UNCHANGED files
  BY <1>1 DEF OtherTypes, IInv, TypeOK, origin
<1>4. /\ LruOK(ss, MaxSchemas) /\ LruOK(validators, MaxValidators)
      /\ \A v, x : Holds(ss, v, x) => Holds(schemas, v, x)
  BY EmptyCaches DEF IInv, TypeOK
<1>5. Failed(call[c]) \in CallType
  <2>1. Served(call[c], NoValue, "failed") \in CallType
    BY <1>2, RecordTypes DEF IInv, Origins, NoValue
  <2> QED BY <2>1, RecordTypes DEF IInv, Failed
<1>6. ~cache_path => /\ Failed(call[c]).pc \in {"waiting", "done"} /\ Failed(call[c]).value = NoValue
                     /\ Continues(c, Failed(call[c]))
  BY <1>2, FailedFacts
<1> HIDE DEF ss
<1> QED BY <1>1, <1>2, <1>3, <1>4, <1>5, <1>6, LookUpStep
LEMMA FetchSucceedsStep == ASSUME IInv, NEW c \in Calls, FetchSucceeds(c) PROVE IInv'
<1>1. PICK v \in 1..MaxVersion :
          /\ At(c, "fetching") /\ version' = [version EXCEPT ![call[c].url] = v]
          /\ permits' = permits + 1
          /\ Store(c, Served(call[c], v, "origin"))
          /\ UNCHANGED <<clock, lru_expires_by, files, restarts>>
  BY DEF FetchSucceeds, PermitDropped
<1> DEFINE s == Served(call[c], v, "origin")
           ss == Put(schemas, MaxSchemas, s.url, s.value)
<1>2. /\ MayRun(c) /\ c \in Active /\ call[c] \in CallType /\ call[c].url \in Urls
      /\ call[c].pc \notin WriteLabels /\ call[c].from \notin {"failed", "aborted"}
  BY <1>1, RunningFacts
<1>3. v \in Nat
  BY CacheAssumption
<1>4. OtherTypes' /\ UNCHANGED files
  <2>1. version \in [Urls -> Nat] /\ permits \in Nat
    BY DEF IInv, TypeOK
  <2>2. version' \in [Urls -> Nat] /\ permits' \in Nat
    <3>1. permits' = permits + 1
      BY <1>1
    <3>2. version' = [version EXCEPT ![call[c].url] = v]
      BY <1>1
    <3>3. version' \in [Urls -> Nat]
      BY <1>3, <2>1, <3>2
    <3> QED BY <2>1, <3>1, <3>3
  <2>3. /\ clock' = clock /\ lru_expires_by' = lru_expires_by /\ restarts' = restarts
        /\ UNCHANGED files
    BY <1>1
  <2> QED BY <2>2, <2>3 DEF OtherTypes, IInv, TypeOK
<1>5. TypeOK /\ LruOK(schemas, MaxSchemas) /\ LruOK(validators, MaxValidators)
  BY DEF IInv, TypeOK
<1>6. s \in CallType
  BY <1>2, <1>3, <1>5, RecordTypes DEF Origins
<1>7. /\ s.alone = call[c].alone /\ s.overlaid = call[c].overlaid /\ s.from = "origin"
      /\ s.url = call[c].url /\ s.value = v
  BY <1>2 DEF Served, CallType
<1>8. Store(c, s)
  BY <1>1
<1> HIDE DEF s
<1>9. /\ LruOK(ss, MaxSchemas)
      /\ \A w, x : Holds(ss, w, x) => IF w = s.url THEN x = s.value ELSE Holds(schemas, w, x)
  BY <1>2, <1>3, <1>5, <1>7, PutLru, CacheAssumption
<1>10. CASE ~cache_path
  <2>1. Loaded(c, s, ss, validators)
    BY <1>8, <1>10 DEF Store
  <2> HIDE DEF ss
  <2> QED BY <1>2, <1>4, <1>5, <1>6, <1>7, <1>9, <1>10, <2>1, LoadedStep
<1>11. CASE cache_path
  <2> DEFINE r == Save(s, "to_write")
  <2>1. Replace(c, r, {}) /\ schemas' = ss /\ validators' = validators
    BY <1>8, <1>11 DEF Store, Becomes
  <2>2. r \in CallType
    BY <1>5, <1>6, RecordTypes DEF WriteLabels
  <2>3. /\ r.pc = "to_write" /\ r.alone = s.alone /\ r.overlaid = s.overlaid /\ r.from = "origin"
        /\ r.url = s.url /\ r.value = s.value
    BY <1>6, <1>7 DEF Save, CallType
  <2> HIDE DEF r, ss
  <2>4. Continues(c, r)
    BY <1>2, <1>7, <2>3 DEF Continues
  <2>5. r.pc \in WriteLabels
    BY <2>3 DEF WriteLabels
  <2>6. ASSUME Consistent(call[c], schemas, disk) PROVE Consistent(r, schemas', disk')
    <3> SUFFICES ASSUME NEW u \in Urls, NEW x \in Nat, Holds(ss, u, x)
                 PROVE  Backed(r, u, x, disk)
      BY <1>4, <2>1 DEF Consistent, files
    <3>1. CASE u = s.url
      BY <1>9, <2>3, <2>5, <3>1 DEF Backed
    <3>2. CASE u # s.url
      <4>1. Backed(call[c], u, x, disk)
        BY <1>9, <2>6, <3>2 DEF Consistent
      <4> QED BY <1>2, <2>3, <3>2, <4>1 DEF Backed
    <3> QED BY <3>1, <3>2
  <2>7. \A u \in Urls : Kept(call[c], disk, u) => Kept(r, disk', u)
    BY <1>2, <1>4 DEF Kept, files
  <2>8. \A u \in Urls : InMemory(u)' => Kept(r, disk', u) \/ InMemory(u)
    BY <1>9, <2>1, <2>3, <2>5 DEF InMemory, Kept
  <2>9. KeepsFiles(c, r)
    BY <2>3, <2>6, <2>7, <2>8 DEF KeepsFiles
  <2>10. TypeOK'
    <3>1. call' \in [Calls -> CallType]
      BY <1>5, <2>1, <2>2, ReplaceFacts DEF TypeOK
    <3> QED BY <1>4, <1>5, <1>9, <2>1, <3>1 DEF TypeOK, OtherTypes, files
  <2> QED BY <1>4, <2>1, <2>2, <2>4, <2>9, <2>10, CallStep DEF files
<1> QED BY <1>10, <1>11

\* What a call that writes is.
LEMMA WriterFacts ==
    ASSUME IInv, NEW c \in Calls, call[c].pc \in WriteLabels
    PROVE  /\ c \in Active /\ call[c] \in CallType /\ call[c].url \in Urls /\ call[c].value \in Nat
           /\ call[c].from \notin {"failed", "aborted"}
           /\ call[c].alone => ~call[c].overlaid
<1>1. c \in Active
  BY DEF Active, WriteLabels
<1>2. call[c] \in CallType
  BY DEF IInv, TypeOK
<1> QED BY <1>1, <1>2 DEF IInv, CallsOK, CallType

LEMMA TruncateFileStep == ASSUME IInv, NEW c \in Calls, TruncateFile(c) PROVE IInv'
<1> DEFINE label == Writing[call[c].pc]
           r == [call[c] EXCEPT !.pc = label]
<1>1. /\ call[c].pc \in {"to_write", "to_rewrite"}
      /\ label \in {"writing", "rewriting"}
      /\ disk' = [disk EXCEPT ![call[c].url] = {}]
      /\ Replace(c, r, {})
      /\ UNCHANGED <<origin, memory, cache_path, restarts>>
  BY DEF TruncateFile, Writing, Goto, Becomes
<1> HIDE DEF label
<1>2. call[c].pc \in WriteLabels
  BY <1>1 DEF WriteLabels
<1>3. /\ c \in Active /\ call[c] \in CallType /\ call[c].url \in Urls
      /\ call[c].from \notin {"failed", "aborted"}
  BY <1>2, WriterFacts
<1>4. label \in WriteLabels /\ label \in Labels /\ label \notin {"none", "done"}
  BY <1>1 DEF WriteLabels, Labels
<1>5. r \in CallType
  BY <1>3, <1>4, RecordTypes DEF IInv
<1>6. /\ r.pc = label /\ r.url = call[c].url /\ r.value = call[c].value /\ r.from = call[c].from
      /\ r.alone = call[c].alone /\ r.overlaid = call[c].overlaid
  BY <1>3 DEF CallType
<1> HIDE DEF r
<1>7. Continues(c, r)
  BY <1>3, <1>4, <1>6 DEF Continues
<1>8. disk \in [Urls -> SUBSET CopyType]
  BY DEF IInv, TypeOK
<1>9. \A u \in Urls : u # call[c].url => disk'[u] = disk[u]
  BY <1>1, <1>8
<1>10. ASSUME Consistent(call[c], schemas, disk) PROVE Consistent(r, schemas', disk')
  <2> SUFFICES ASSUME NEW u \in Urls, NEW x \in Nat, Holds(schemas, u, x) PROVE Backed(r, u, x, disk')
    BY <1>1 DEF Consistent, memory
  <2>1. Backed(call[c], u, x, disk)
    BY <1>10 DEF Consistent
  <2> QED BY <1>2, <1>4, <1>6, <1>9, <2>1 DEF Backed
<1>11. \A u \in Urls : Kept(call[c], disk, u) => Kept(r, disk', u)
  BY <1>4, <1>6, <1>9 DEF Kept
<1>12. \A u \in Urls : InMemory(u)' => InMemory(u)
  BY <1>1 DEF InMemory, memory
<1>13. KeepsFiles(c, r)
  BY <1>4, <1>6, <1>10, <1>11, <1>12 DEF KeepsFiles
<1>14. TypeOK'
  <2>1. call' \in [Calls -> CallType]
    BY <1>1, <1>5, ReplaceFacts DEF IInv, TypeOK
  <2>2. disk' \in [Urls -> SUBSET CopyType]
    BY <1>1, <1>8
  <2> QED BY <1>1, <2>1, <2>2 DEF IInv, TypeOK, origin, memory
<1> QED BY <1>1, <1>5, <1>7, <1>13, <1>14, CallStep
\* The file of call c is written; the call goes on to write it again, or ends.
LEMMA WrittenStep ==
    ASSUME IInv, NEW c \in Calls, call[c].pc \in WriteLabels,
           disk' \in [Urls -> SUBSET CopyType],
           \A u \in Urls : u # call[c].url => disk'[u] = disk[u],
           call[c].alone => \E copy \in disk'[call[c].url] : copy.value = call[c].value,
           UNCHANGED <<origin, lru_expires_by, permits, cache_path, restarts>>,
           NEW r \in CallType, r.pc \in {"to_rewrite", "done"}, r.url = call[c].url,
           r.value = call[c].value, r.from = call[c].from, r.alone = call[c].alone, ~r.overlaid,
           NEW over, over \subseteq Active \ {c}, Replace(c, r, over),
           LruOK(schemas', MaxSchemas), LruOK(validators', MaxValidators),
           \A u, x : Holds(schemas', u, x) =>
               (u = call[c].url /\ x = call[c].value) \/ Holds(schemas, u, x),
           \A u, x : Holds(validators', u, x) => u = call[c].url \/ Holds(validators, u, x)
    PROVE  IInv'
<1>1. /\ c \in Active /\ call[c].from \notin {"failed", "aborted"} /\ call[c].url \in Urls
  BY WriterFacts
<1>2. Continues(c, r)
  BY <1>1 DEF Continues
<1>3. ASSUME call[c].alone, Consistent(call[c], schemas, disk) PROVE Consistent(r, schemas', disk')
  <2> SUFFICES ASSUME NEW u \in Urls, NEW x \in Nat, Holds(schemas', u, x) PROVE Backed(r, u, x, disk')
    BY DEF Consistent
  <2>1. CASE u = call[c].url
    <3>1. x = call[c].value
      <4>1. Holds(schemas, u, x) => Backed(call[c], u, x, disk)
        BY <1>3 DEF Consistent
      <4> QED BY <2>1, <4>1 DEF Backed
    <3> QED BY <1>3, <2>1, <3>1 DEF Backed
  <2>2. CASE u # call[c].url
    <3>1. Backed(call[c], u, x, disk)
      BY <1>3, <2>2 DEF Consistent
    <3> QED BY <2>2, <3>1 DEF Backed
  <2> QED BY <2>1, <2>2
<1>4. ASSUME call[c].alone PROVE Kept(r, disk', call[c].url)
  BY <1>4 DEF Kept
<1>5. ASSUME call[c].alone, NEW u \in Urls, Kept(call[c], disk, u) PROVE Kept(r, disk', u)
  BY <1>4, <1>5 DEF Kept
<1>6. ASSUME call[c].alone, NEW u \in Urls, InMemory(u)' PROVE Kept(r, disk', u) \/ InMemory(u)
  BY <1>4, <1>6 DEF InMemory
<1>7. KeepsFiles(c, r)
  BY <1>3, <1>4, <1>5, <1>6 DEF KeepsFiles
<1>8. TypeOK'
  <2>1. call' \in [Calls -> CallType]
    BY ReplaceFacts DEF IInv, TypeOK
  <2> QED BY <2>1 DEF IInv, TypeOK, origin
<1> QED BY <1>2, <1>7, <1>8, CallStep

LEMMA WriteFileStep == ASSUME IInv, NEW c \in Calls, WriteFile(c) PROVE IInv'
<1> DEFINE s == call[c]
           copy == [value |-> s.value, expires_by |-> s.expires_by]
           others == {d \in Active \ {c} : call[d].url = s.url /\ call[d].pc \in {"writing", "rewriting"}}
<1>1. s.pc \in {"writing", "rewriting"} /\ UNCHANGED <<origin, lru_expires_by, permits, cache_path, restarts>>
  BY DEF WriteFile, At
<1>2. s.pc \in WriteLabels
  BY <1>1 DEF WriteLabels
<1>3. /\ c \in Active /\ s \in CallType /\ s.url \in Urls /\ s.value \in Nat
      /\ s.from \notin {"failed", "aborted"} /\ (s.alone => ~s.overlaid)
  BY <1>2, WriterFacts
<1>4. TypeOK /\ disk \in [Urls -> SUBSET CopyType]
      /\ LruOK(schemas, MaxSchemas) /\ LruOK(validators, MaxValidators)
  BY DEF IInv, TypeOK
<1>5. copy \in CopyType /\ copy.value = s.value
  BY <1>3 DEF CopyType, CallType
<1>6. \/ disk' = [disk EXCEPT ![s.url] = {copy}]
      \/ s.overlaid /\ disk' = [disk EXCEPT ![s.url] = {}]
  BY DEF WriteFile
<1>7. /\ disk' \in [Urls -> SUBSET CopyType]
      /\ \A u \in Urls : u # s.url => disk'[u] = disk[u]
      /\ s.alone => \E x \in disk'[s.url] : x.value = s.value
  <2> HIDE DEF copy
  <2> QED BY <1>3, <1>4, <1>5, <1>6
<1>8. others \subseteq Active \ {c}
  OBVIOUS
<1>9. Done(s) \in CallType /\ Save(s, "to_rewrite") \in CallType
  BY <1>3, <1>4, RecordTypes DEF WriteLabels
<1>10. /\ Done(s).pc = "done" /\ Done(s).url = s.url /\ Done(s).value = s.value
       /\ Done(s).from = s.from /\ Done(s).alone = s.alone /\ ~Done(s).overlaid
  BY <1>3 DEF Done, CallType
<1>11. /\ LruOK(Put(schemas, MaxSchemas, s.url, s.value), MaxSchemas)
       /\ \A u, x : Holds(Put(schemas, MaxSchemas, s.url, s.value), u, x) =>
              IF u = s.url THEN x = s.value ELSE Holds(schemas, u, x)
  BY <1>3, <1>4, PutLru, CacheAssumption, SMTT(30)
<1>12. /\ LruOK(Put(validators, MaxValidators, s.url, s.value), MaxValidators)
       /\ \A u, x : Holds(Put(validators, MaxValidators, s.url, s.value), u, x) =>
              IF u = s.url THEN x = s.value ELSE Holds(validators, u, x)
  BY <1>3, <1>4, PutLru, CacheAssumption
<1>13. CASE At(c, "writing") /\ s.kind = "validate"
  <2> DEFINE r == [Save(s, "to_rewrite") EXCEPT !.overlaid = FALSE]
  <2>1. /\ Replace(c, r, others) /\ validators' = validators
        /\ schemas' = Put(schemas, MaxSchemas, s.url, s.value)
    BY <1>13 DEF WriteFile, At
  <2>2. /\ r \in CallType /\ r.pc = "to_rewrite" /\ r.url = s.url /\ r.value = s.value
        /\ r.from = s.from /\ r.alone = s.alone /\ ~r.overlaid
    BY <1>3, <1>9 DEF Save, CallType
  <2> HIDE DEF r, others, copy
  <2> QED BY <1>1, <1>2, <1>4, <1>7, <1>8, <1>11, <2>1, <2>2, WrittenStep
<1>14. CASE At(c, "writing") /\ s.kind = "load"
  <2>1. Replace(c, Done(s), others) /\ UNCHANGED <<schemas, validators>>
    BY <1>14 DEF WriteFile, At
  <2> HIDE DEF others, copy
  <2> QED BY <1>1, <1>2, <1>4, <1>7, <1>8, <1>9, <1>10, <2>1, WrittenStep
<1>15. CASE At(c, "rewriting")
  <2>1. /\ Replace(c, Done(s), others) /\ schemas' = schemas
        /\ validators' = Put(validators, MaxValidators, s.url, s.value)
    BY <1>15 DEF WriteFile, At
  <2> HIDE DEF others, copy
  <2> QED BY <1>1, <1>2, <1>4, <1>7, <1>8, <1>9, <1>10, <1>12, <2>1, WrittenStep
<1> QED BY <1>13, <1>14, <1>15 DEF WriteFile

-------------------------------------------------------------------------------
(* The world outside.                                                          *)

LEMMA TickStep == ASSUME IInv, Tick PROVE IInv'
<1>1. clock' \in Nat /\ UNCHANGED <<version, memory, files, call, restarts>>
  BY DEF IInv, TypeOK, Tick
<1>2. TypeOK'
  BY <1>1 DEF IInv, TypeOK, memory, files
<1>3. CallsOK' /\ SavedSchemasStayUsable'
  BY <1>1 DEF IInv, CallsOK, SavedSchemasStayUsable, At, Active, files
<1>4. MemoryOK' /\ DiskOK'
  BY <1>1 DEF IInv, MemoryOK, DiskOK, Alone, Saves, Had, At, memory, files
<1> QED BY <1>2, <1>3, <1>4 DEF IInv

LEMMA RestartStep == ASSUME IInv, Restart PROVE IInv'
<1> DEFINE ended(c) == Done(Served(call[c], NoValue, "aborted"))
<1>1. /\ lru_expires_by' = clock + MemoryTime /\ schemas' = <<>> /\ validators' = <<>>
      /\ permits' = MaxPermits /\ restarts' = restarts + 1
      /\ call' = [c \in Calls |-> IF c \in Active THEN ended(c) ELSE call[c]]
      /\ UNCHANGED <<origin, files>>
  BY DEF Restart, FreshMemory
<1>2. call \in [Calls -> CallType] /\ TypeOK
  BY DEF IInv, TypeOK
<1>3. ASSUME NEW c \in Calls
      PROVE  /\ ended(c) \in CallType /\ ended(c).pc = "done" /\ ended(c).value = NoValue
             /\ ended(c).from = "aborted" /\ ended(c).url = call[c].url
  <2>1. call[c] \in CallType
    BY <1>2
  <2>2. Served(call[c], NoValue, "aborted") \in CallType
    BY <1>2, <2>1, RecordTypes DEF Origins, NoValue
  <2>3. ended(c) \in CallType
    BY <1>2, <2>2, RecordTypes
  <2> QED BY <2>1, <2>3 DEF Done, Served, CallType
<1>4. \A c \in Calls : c \in Active => call'[c] = ended(c)
  BY <1>1
<1>5. \A c \in Calls : c \notin Active => call'[c] = call[c]
  BY <1>1
<1>6. call' \in [Calls -> CallType]
  BY <1>1, <1>2, <1>3
<1> HIDE DEF ended
<1>7. TypeOK'
  <2>1. /\ clock + MemoryTime \in Nat /\ MaxPermits \in Nat /\ restarts + 1 \in Nat
    BY <1>2, CacheAssumption DEF TypeOK
  <2> QED BY <1>1, <1>2, <1>6, <2>1, EmptyCaches DEF TypeOK, origin, files
<1>8. Active' = {}
  BY <1>3, <1>4, <1>5 DEF Active
<1>9. \A c \in Calls : At(c, "none")' <=> At(c, "none")
  BY <1>3, <1>4, <1>5 DEF At, Active
<1>10. CallsOK'
  <2>1. \A c \in Calls : At(c, "none") => call'[c] = call[c]
    BY <1>5 DEF At, Active
  <2> QED BY <1>8, <1>9, <2>1 DEF IInv, CallsOK
<1>11. MemoryOK'
  BY <1>1, EmptyCaches DEF MemoryOK
<1>12. ASSUME \A c \in Calls : call'[c].from # "aborted" PROVE Active = {}
  BY <1>3, <1>4, <1>12 DEF Active
<1>13. DiskOK'
  <2> SUFFICES ASSUME cache_path, Alone', \A c \in Calls : call'[c].from # "aborted",
                      NEW u \in Urls, Had(u)'
               PROVE  disk[u] # {}
    BY <1>1 DEF DiskOK, files
  <2>1. Active = {}
    BY <1>12
  <2>2. \A c \in Calls : call'[c] = call[c]
    BY <1>5, <2>1
  <2>3. Had(u)
    BY <1>1, <2>2, EmptyCaches DEF Had, At
  <2>4. disk[u] # {} \/ \E c \in Calls : Saves(c, u)
    BY <1>1, <2>2, <2>3 DEF IInv, DiskOK, Alone, files
  <2>5. \A c \in Calls : ~Saves(c, u)
    BY <2>1 DEF Saves, Active, WriteLabels
  <2> QED BY <2>4, <2>5
<1>14. SavedSchemasStayUsable'
  <2> SUFFICES ASSUME NEW b \in Calls, NEW c \in Calls, b < c, call'[b].url = call'[c].url,
                      cache_path, At(b, "done")', call'[b].value # NoValue, call'[c].from = "failed"
               PROVE  \E d \in 1..c : ~call'[d].alone \/ call'[d].from = "aborted"
    BY <1>1 DEF SavedSchemasStayUsable, files
  <2>1. b \notin Active /\ c \notin Active
    BY <1>3, <1>4
  <2>2. call'[b] = call[b] /\ call'[c] = call[c]
    BY <1>5, <2>1
  <2>3. PICK d \in 1..c : ~call[d].alone \/ call[d].from = "aborted"
    BY <2>2 DEF IInv, SavedSchemasStayUsable, At
  <2>4. d \in Calls
    BY CacheAssumption DEF Calls
  <2>5. CASE d \in Active
    BY <1>3, <1>4, <2>4, <2>5
  <2>6. CASE d \notin Active
    BY <1>5, <2>3, <2>4, <2>6
  <2> QED BY <2>5, <2>6
<1> QED BY <1>7, <1>10, <1>11, <1>13, <1>14 DEF IInv

LEMMA IdleStep == ASSUME IInv, UNCHANGED vars PROVE IInv'
<1>1. UNCHANGED <<clock, version, lru_expires_by, schemas, validators, permits, cache_path, disk, call, restarts>>
  BY DEF vars, origin, memory, files
<1>2. TypeOK' /\ CallsOK' /\ SavedSchemasStayUsable'
  BY <1>1 DEF IInv, TypeOK, CallsOK, SavedSchemasStayUsable, At, Active
<1>3. MemoryOK' /\ DiskOK'
  BY <1>1 DEF IInv, MemoryOK, DiskOK, Alone, Saves, Had, At
<1> QED BY <1>2, <1>3 DEF IInv

LEMMA InitInvariant == ASSUME Init PROVE IInv
<1>1. \A c \in Calls : call[c] = NoCall
  BY DEF Init
<1>2. NoCall \in CallType
  <2>1. (CHOOSE w \in Urls : TRUE) \in Urls
    BY CacheAssumption
  <2> QED BY <2>1 DEF NoCall, CallType, Labels, Origins, NoValue
<1>3. /\ NoCall.pc = "none" /\ NoCall.from = "none" /\ NoCall.value = NoValue
  BY DEF NoCall
<1>4. TypeOK
  <2>1. call \in [Calls -> CallType]
    BY <1>2 DEF Init
  <2>2. cache_path \in BOOLEAN
    BY CacheAssumption DEF Init
  <2>3. /\ version \in [Urls -> Nat] /\ disk \in [Urls -> SUBSET CopyType]
        /\ clock \in Nat /\ lru_expires_by \in Nat /\ permits \in Nat /\ restarts \in Nat
    BY CacheAssumption DEF Init, NoValue
  <2> QED BY <2>1, <2>2, <2>3, EmptyCaches DEF TypeOK, Init
<1>5. Active = {}
  BY <1>1, <1>3 DEF Active
<1>6. CallsOK
  BY <1>1, <1>3, <1>5 DEF CallsOK, At
<1>7. MemoryOK /\ DiskOK
  BY <1>1, <1>3, EmptyCaches DEF MemoryOK, DiskOK, Init, Had, At
<1>8. SavedSchemasStayUsable
  BY <1>1, <1>3 DEF SavedSchemasStayUsable
<1> QED BY <1>4, <1>6, <1>7, <1>8 DEF IInv

LEMMA NextInvariant == ASSUME IInv, [Next]_vars PROVE IInv'
<1>1. CASE Begin
  BY <1>1, ValidateStep, LoadStep DEF Begin
<1>2. ASSUME NEW c \in Calls, Step(c) PROVE IInv'
  BY <1>2, ReadFileStep, StartFetchStep, FetchSucceedsStep, FetchFailsStep, TruncateFileStep,
     WriteFileStep DEF Step
<1>3. CASE Tick
  BY <1>3, TickStep
<1>4. CASE Restart
  BY <1>4, RestartStep
<1>5. CASE Idle \/ UNCHANGED vars
  BY <1>5, IdleStep DEF Idle
<1> QED BY <1>1, <1>2, <1>3, <1>4, <1>5 DEF Next

THEOREM Invariant == Spec => []IInv
<1>1. Init => IInv
  BY InitInvariant
<1>2. IInv /\ [Next]_vars => IInv'
  BY NextInvariant
<1> QED BY <1>1, <1>2, PTL DEF Spec

-------------------------------------------------------------------------------
(* What follows.                                                               *)

\* With any schemas, capacities and expirations, and however often the process ends
\* between calls or a fetch fails: who calls alone for a schema that somebody was given
\* before is given one (store and load of cache.rs, load_schema).
THEOREM SavedSchemasUsable == Spec => []SavedSchemasStayUsable
<1>1. IInv => SavedSchemasStayUsable
  BY DEF IInv
<1> QED BY <1>1, Invariant, PTL

\* Whatever is in memory when no call runs is in its file too, in the same version, if
\* no two calls ever ran beside each other: what store leaves behind in both places
\* does not come apart later.
THEOREM MemoryOnDisk == Spec => []MemoryIsOnDisk
<1>1. ASSUME IInv PROVE MemoryIsOnDisk
  <2> SUFFICES ASSUME NEW u \in Urls, cache_path, Active = {}, Alone, Cached(schemas, u)
               PROVE  \E copy \in disk[u] : copy.value = Get(schemas, u).value
    BY DEF MemoryIsOnDisk, Alone
  <2>1. Holds(schemas, u, Get(schemas, u).value)
    BY GetIsHeld
  <2>2. Get(schemas, u).value \in Nat
    BY <1>1, TouchLru, CacheAssumption DEF IInv, TypeOK
  <2>3. \A c \in Calls : ~Saves(c, u)
    BY DEF Saves, Active, WriteLabels
  <2> QED BY <1>1, <2>1, <2>2, <2>3 DEF IInv, MemoryOK
<1> QED BY <1>1, Invariant, PTL
===============================================================================
