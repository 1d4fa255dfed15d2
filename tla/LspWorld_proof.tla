----------------------------- MODULE LspWorld_proof -----------------------------
(* What holds for every number of messages, documents and folders, in three    *)
(* parts: who may write, in what order handlers are served, and what is shown. *)
(*                                                                             *)
(* The first part: the variables keep their types, every section of a handler  *)
(* runs or waits under the guard it needs, and a section that writes is alone. *)
(*                                                                             *)
(* TypeOK is inductive only together with the kinds of the messages whose      *)
(* handlers stand at a label, and exclusion only together with the guards of   *)
(* the sections: IInv is the three.  Of the executor nothing is needed but     *)
(* that its tasks handle messages sent.                                        *)
(*                                                                             *)
(* First what the readers-writer lock promises: a call of read() or write(),   *)
(* or the drop of a guard, keeps the lock well formed, and costs nobody else   *)
(* the guard held or the place in the queue.                                   *)
EXTENDS LspWorld, SequenceTheorems, WellFoundedInduction, TLAPS

\* A set of numbers that is not empty has a least member (what FrontReaders and
\* the choice of the longest folder rest on).
LEMMA LeastMember ==
    ASSUME NEW T, T \subseteq Nat, T # {}
    PROVE  \E m \in T : \A k \in T : m <= k
<1> DEFINE R == OpToRel(<, Nat)
<1>1. \E m \in T : \A k \in T : ~(<<k, m>> \in R)
  <2>1. IsWellFoundedOn(R, Nat)
    BY NatLessThanWellFounded
  <2> QED
    BY <2>1, WFMin
<1>2. \A k, m \in T : <<k, m>> \in R <=> k < m
  BY DEF OpToRel
<1> HIDE DEF R
<1>3. \A k, m \in T : k < m \/ m <= k
  OBVIOUS
<1> QED
  BY <1>1, <1>2, <1>3

Waiters(G) == [guard : G, mode : Modes]

\* FrontReaders is the length of the longest prefix of readers.
LEMMA FrontReadersArePrefix ==
    ASSUME NEW G, NEW q \in Seq(Waiters(G))
    PROVE  /\ FrontReaders(q) \in 0..Len(q)
           /\ \A i \in 1..FrontReaders(q) : q[i].mode = "read"
           /\ FrontReaders(q) < Len(q) => q[FrontReaders(q) + 1].mode = "write"
<1> DEFINE Writers == {i \in 1..Len(q) : q[i].mode = "write"}
           IsPrefix(n) == /\ \A i \in 1..n : q[i].mode = "read"
                          /\ n < Len(q) => q[n + 1].mode = "write"
<1>1. \A i \in 1..Len(q) : q[i].mode \in {"read", "write"}
  <2>1. \A i \in 1..Len(q) : q[i] \in Waiters(G)
    BY ElementOfSeq
  <2> QED
    BY <2>1 DEF Waiters, Modes
<1>2. Len(q) \in Nat
  BY LenProperties
<1>3. \E n \in 0..Len(q) : IsPrefix(n)
  <2>1. CASE Writers = {}
    <3>1. IsPrefix(Len(q))
      BY <1>1, <1>2, <2>1
    <3> QED
      BY <1>2, <3>1
  <2>2. CASE Writers # {}
    <3>1. PICK m \in Writers : \A k \in Writers : m <= k
      <4>1. Writers \subseteq Nat
        BY <1>2
      <4> QED
        BY <2>2, <4>1, LeastMember
    <3>2. \A i \in 1..(m - 1) : i \in 1..Len(q) /\ i \notin Writers
      BY <1>2, <3>1
    <3>3. IsPrefix(m - 1)
      BY <1>1, <1>2, <3>1, <3>2
    <3>4. m - 1 \in 0..Len(q)
      BY <1>2, <3>1
    <3> QED
      BY <3>3, <3>4
  <2> QED
    BY <2>1, <2>2
<1>4. FrontReaders(q) = CHOOSE n \in 0..Len(q) : IsPrefix(n)
  BY DEF FrontReaders
<1> QED
  BY <1>3, <1>4

\* A call of read() or write(): the lock stays well formed, the caller holds the
\* guard or waits for it, and nobody loses what it had.
THEOREM AcquireKeepsLock ==
    ASSUME NEW G, NEW l \in Locks(G), WellFormed(l), NEW g \in G, NEW mode \in Modes
    PROVE  /\ Acquire(l, g, mode) \in Locks(G)
           /\ WellFormed(Acquire(l, g, mode))
           /\ Asked(Acquire(l, g, mode), g, mode)
           /\ \A h \in G, m \in Modes : Asked(l, h, m) => Asked(Acquire(l, g, mode), h, m)
<1> USE DEF Locks, Modes
<1>1. CASE Compatible(l, mode) /\ l.queue = <<>>
  <2>1. Acquire(l, g, mode) = [l EXCEPT ![mode] = l[mode] \cup {g}]
    BY <1>1 DEF Acquire, Grant
  <2> QED
    BY <1>1, <2>1 DEF Compatible, Free, WellFormed, Asked
<1>2. CASE ~(Compatible(l, mode) /\ l.queue = <<>>)
  <2> DEFINE w == [guard |-> g, mode |-> mode]
             a == Acquire(l, g, mode)
  <2>1. a = [l EXCEPT !.queue = Append(l.queue, w)]
    BY <1>2 DEF Acquire, Enqueue
  <2>2. /\ a.queue \in Seq([guard : G, mode : Modes])
        /\ Len(a.queue) = Len(l.queue) + 1
        /\ \A i \in 1..Len(l.queue) : a.queue[i] = l.queue[i]
        /\ a.queue[Len(l.queue) + 1] = w
    BY <2>1, AppendProperties
  <2>3. a.write = l.write /\ a.read = l.read /\ a \in Locks(G)
    BY <2>1, <2>2
  <2>4. ~Free(l)
    BY <1>2 DEF Compatible, Free, WellFormed
  <2>5. WellFormed(a)
    BY <2>3, <2>4 DEF WellFormed, Free
  <2>6. Len(l.queue) \in Nat
    BY LenProperties
  <2>7. Asked(a, g, mode)
    BY <2>2, <2>6 DEF Asked
  <2>8. ASSUME NEW h \in G, NEW m \in Modes, Asked(l, h, m)
        PROVE  Asked(a, h, m)
    <3>1. a[m] = l[m]
      BY <2>3
    <3>2. 1..Len(l.queue) \subseteq 1..Len(a.queue)
      BY <2>2, <2>6
    <3> QED
      BY <2>2, <2>8, <3>1, <3>2 DEF Asked
  <2> QED
    BY <2>3, <2>5, <2>7, <2>8
<1> QED
  BY <1>1, <1>2

\* A lock that nobody holds is given to those who wait, and nobody is forgotten.
LEMMA WakeKeepsLock ==
    ASSUME NEW G, NEW l \in Locks(G), Free(l)
    PROVE  /\ Wake(l) \in Locks(G)
           /\ WellFormed(Wake(l))
           /\ Len(Wake(l).queue) <= Len(l.queue)
           /\ \A h \in G, m \in Modes : Asked(l, h, m) => Asked(Wake(l), h, m)
<1> DEFINE q == l.queue
<1>0. q \in Seq(Waiters(G)) /\ Len(q) \in Nat
  BY LenProperties DEF Locks, Waiters
<1>1. CASE q = <<>>
  BY <1>0, <1>1 DEF Wake, WellFormed, Free, Locks
<1>2. CASE q # <<>> /\ Head(q).mode = "write"
  <2>1. Wake(l) = [write |-> {Head(q).guard}, read |-> {}, queue |-> Tail(q)]
    BY <1>2 DEF Wake
  <2>2. /\ Head(q) \in Waiters(G)
        /\ Tail(q) \in Seq(Waiters(G))
        /\ Len(Tail(q)) = Len(q) - 1
        /\ \A i \in 1..Len(Tail(q)) : Tail(q)[i] = q[i + 1]
    BY <1>0, <1>2, HeadTailProperties
  <2>3. Wake(l) \in Locks(G)
    BY <2>1, <2>2 DEF Locks, Waiters
  <2>4. WellFormed(Wake(l))
    <3>1. Wake(l).write = {Head(q).guard} /\ Wake(l).read = {}
      BY <2>1
    <3> QED
      BY <3>1 DEF WellFormed, Free
  <2>5. ASSUME NEW h \in G, NEW m \in Modes, Asked(l, h, m)
        PROVE  Asked(Wake(l), h, m)
    <3>1. PICK i \in 1..Len(q) : q[i] = [guard |-> h, mode |-> m]
      BY <2>5 DEF Asked, Free, Modes
    <3>2. CASE i = 1
      <4>1. Head(q) = [guard |-> h, mode |-> m]
        BY <1>0, <1>2, <3>1, <3>2
      <4>2. m = "write" /\ h \in Wake(l)[m]
        BY <1>2, <2>1, <4>1
      <4> QED
        BY <4>2 DEF Asked
    <3>3. CASE i # 1
      <4>1. i - 1 \in 1..Len(Tail(q)) /\ Tail(q)[i - 1] = q[i]
        BY <1>0, <2>2, <3>1, <3>3
      <4>2. Wake(l).queue = Tail(q)
        BY <2>1
      <4> QED
        BY <3>1, <4>1, <4>2 DEF Asked
    <3> QED
      BY <1>0, <3>2, <3>3
  <2>6. Len(Wake(l).queue) <= Len(q)
    BY <1>0, <1>2, <2>1, <2>2
  <2> QED
    BY <2>3, <2>4, <2>5, <2>6
<1>3. CASE q # <<>> /\ Head(q).mode # "write"
  <2> DEFINE n == FrontReaders(q)
             s == SubSeq(q, n + 1, Len(q))
  <2>1. Wake(l) = [write |-> {}, read |-> {q[i].guard : i \in 1..n}, queue |-> s]
    BY <1>3 DEF Wake
  <2>2. /\ n \in 0..Len(q)
        /\ \A i \in 1..n : q[i].mode = "read"
        /\ n < Len(q) => q[n + 1].mode = "write"
    BY <1>0, FrontReadersArePrefix
  <2> HIDE DEF n
  <2>3. \A i \in 1..Len(q) : q[i] \in Waiters(G)
    BY <1>0, ElementOfSeq
  <2>4. /\ s \in Seq(Waiters(G))
        /\ Len(s) = Len(q) - n
        /\ \A i \in 1..(Len(q) - n) : s[i] = q[i + n]
    <3>1. \A i \in (n + 1)..Len(q) : q[i] \in Waiters(G)
      BY <1>0, <2>2, <2>3
    <3>2. n + 1 \in Int /\ Len(q) \in Int
      BY <1>0, <2>2
    <3>3. /\ s \in Seq(Waiters(G))
          /\ Len(s) = IF n + 1 <= Len(q) THEN Len(q) - (n + 1) + 1 ELSE 0
          /\ \A i \in 1..(Len(q) - (n + 1) + 1) : s[i] = q[(n + 1) + i - 1]
      BY <3>1, <3>2, SubSeqProperties
    <3> QED
      BY <1>0, <2>2, <3>3
  <2> HIDE DEF s
  <2>5. Wake(l) \in Locks(G)
    BY <1>0, <2>1, <2>2, <2>3, <2>4, SMTT(30) DEF Locks, Waiters
  <2>6. n # 0
    <3>1. 1 \in 1..Len(q) /\ q[1] = Head(q)
      BY <1>0, <1>3
    <3> QED
      BY <1>3, <2>2, <3>1
  <2>7. WellFormed(Wake(l))
    <3>1. Wake(l).write = {} /\ Wake(l).read = {q[i].guard : i \in 1..n}
      BY <2>1
    <3>2. q[1].guard \in {q[i].guard : i \in 1..n}
      BY <2>2, <2>6
    <3> QED
      BY <3>1, <3>2 DEF WellFormed, Free
  <2>8. ASSUME NEW h \in G, NEW m \in Modes, Asked(l, h, m)
        PROVE  Asked(Wake(l), h, m)
    <3>1. PICK i \in 1..Len(q) : q[i] = [guard |-> h, mode |-> m]
      BY <2>8 DEF Asked, Free, Modes
    <3>2. CASE i <= n
      <4>1. m = "read" /\ q[i].guard = h /\ i \in 1..n
        BY <1>0, <2>2, <3>1, <3>2
      <4>2. h \in Wake(l)[m]
        BY <2>1, <4>1
      <4> QED
        BY <4>2 DEF Asked
    <3>3. CASE ~(i <= n)
      <4>1. i - n \in 1..Len(s) /\ s[i - n] = q[i]
        BY <1>0, <2>2, <2>4, <3>1, <3>3
      <4> QED
        BY <2>1, <3>1, <4>1 DEF Asked
    <3> QED
      BY <3>2, <3>3
  <2>9. Len(Wake(l).queue) <= Len(q)
    BY <1>0, <2>1, <2>2, <2>4
  <2> QED
    BY <2>5, <2>7, <2>8, <2>9
<1> QED
  BY <1>1, <1>2, <1>3

\* The drop of a guard: the lock stays well formed, and every other guard is
\* held or waited for as before, or held at last.
THEOREM ReleaseKeepsLock ==
    ASSUME NEW G, NEW l \in Locks(G), WellFormed(l), NEW g \in G
    PROVE  /\ Release(l, g) \in Locks(G)
           /\ WellFormed(Release(l, g))
           /\ Len(Release(l, g).queue) <= Len(l.queue)
           /\ \A h \in G, m \in Modes : h # g /\ Asked(l, h, m) => Asked(Release(l, g), h, m)
<1> DEFINE rest == [l EXCEPT !.write = l.write \ {g}, !.read = l.read \ {g}]
<1>1. Release(l, g) = IF Free(rest) THEN Wake(rest) ELSE rest
  BY DEF Release
<1>2. /\ rest \in Locks(G)
      /\ rest.queue = l.queue
      /\ rest.write = l.write \ {g} /\ rest.read = l.read \ {g}
  BY DEF Locks
<1> HIDE DEF rest
<1>3. \A h \in G, m \in Modes : h # g /\ Asked(l, h, m) => Asked(rest, h, m)
  BY <1>2 DEF Asked, Modes
<1>0. Len(l.queue) \in Nat
  BY LenProperties DEF Locks
<1>4. CASE Free(rest)
  BY <1>1, <1>2, <1>3, <1>4, WakeKeepsLock
<1>5. CASE ~Free(rest)
  <2>1. WellFormed(rest)
    BY <1>2, <1>5 DEF WellFormed
  <2> QED
    BY <1>0, <1>1, <1>2, <1>3, <1>5, <2>1
<1> QED
  BY <1>4, <1>5
-------------------------------------------------------------------------------
(* The world.                                                                  *)

DocKinds == {"open", "change", "close", "query", "associate"}

DocSections == {"store", "remove", "clear", "syntax", "dom", "schema", "validate",
                "answer", "reply", "associate", "associate_next"}

SectionKind(t) ==
    /\ pc[t] # "unborn" => t \in Sent
    /\ pc[t] \in DocSections => Kind(t) \in DocKinds
    /\ pc[t] = "change_folders" => Kind(t) = "folders"

KindsOfSections == \A t \in Tasks : SectionKind(t)

IInv == TypeOK /\ KindsOfSections /\ SectionsAreGuarded

\* What a message carries, by its kind.
LEMMA MessageFields ==
    ASSUME NEW m \in Messages
    PROVE  /\ m.kind \in Kinds
           /\ m.kind \in DocKinds => m.doc \in Docs
           /\ m.kind = "folders" => m.added \subseteq Folders /\ m.removed \subseteq Folders
BY DEF Messages, Kinds, DocKinds

\* The workspace that answers for a document is one there is.
LEMMA ByDocumentPresent ==
    ASSUME NEW d \in Docs, folders \subseteq Folders
    PROVE  ByDocument(d) \in Present /\ ByDocument(d) \in Workspaces
<1> DEFINE p == PrefixFolders[d]
           known == {i \in DOMAIN p : p[i] \in folders}
<1>1. p \in Seq(Folders)
  BY WorldAssumption
<1>2. CASE known = {}
  BY <1>2 DEF ByDocument, Present, Workspaces
<1>3. CASE known # {}
  <2>1. known \subseteq Nat
    BY <1>1, LenProperties
  <2>2. \E i \in known : \A j \in known : i <= j
    BY <1>3, <2>1, LeastMember
  <2>3. PICK i \in known : ByDocument(d) = p[i]
    BY <1>3, <2>2 DEF ByDocument
  <2> QED
    BY <2>3 DEF Present, Workspaces
<1> QED
  BY <1>2, <1>3

\* What a step of task t does to the executor and the lock: it goes to label, and
\* only the guards in dropped are lost.
StepOf(t, label, dropped) ==
    /\ pc' = [pc EXCEPT ![t] = label]
    /\ label \in Labels
    /\ ready' \in Seq(Sent)
    /\ lock' \in Locks(Guards(Sent)) /\ WellFormed(lock')
    /\ \A h \in Guards(Sent) \ dropped, m \in Modes : Asked(lock, h, m) => Asked(lock', h, m)

OwnGuards(t) == {HandlerGuard(t), PublishGuard(t)}

\* A step of task t keeps the kinds and guards of every other task's section.
LEMMA OthersKeepTheirSection ==
    ASSUME IInv, NEW t \in Sent, NEW label, NEW dropped,
           dropped \subseteq OwnGuards(t), StepOf(t, label, dropped), inbox' = inbox,
           SectionKind(t)', SectionGuard(t)'
    PROVE  KindsOfSections' /\ SectionsAreGuarded'
<1>0. Len(inbox) \in Nat /\ Sent \subseteq Tasks
  BY LenProperties, WorldAssumption DEF IInv, TypeOK, ClientOK, Sent, Tasks
<1>1. SUFFICES ASSUME NEW u \in Tasks, u # t
               PROVE  SectionKind(u)' /\ SectionGuard(u)'
  BY DEF KindsOfSections, SectionsAreGuarded
<1>2. pc'[u] = pc[u] /\ Kind(u)' = Kind(u) /\ Sent' = Sent
  BY <1>0, <1>1 DEF StepOf, IInv, TypeOK, ExecutorOK, Kind, Sent
<1>3. SectionKind(u)'
  BY <1>2 DEF IInv, KindsOfSections, SectionKind
<1>4. CASE pc[u] = "unborn"
  BY <1>2, <1>3, <1>4 DEF SectionGuard, WriteSections, ReadSections, PublishSections
<1>5. CASE pc[u] # "unborn"
  <2>1. u \in Sent
    BY <1>5 DEF IInv, KindsOfSections, SectionKind
  <2>2. OwnGuards(u) \subseteq Guards(Sent) \ dropped
    BY <1>1, <2>1 DEF OwnGuards, HandlerGuard, PublishGuard, Guards
  <2>3. \A h \in OwnGuards(u), m \in Modes : Asked(lock, h, m) => Asked(lock, h, m)'
    BY <2>2 DEF StepOf, Asked
  <2>4. /\ HandlerGuard(u)' = HandlerGuard(u) /\ PublishGuard(u)' = PublishGuard(u)
        /\ HandlerGuard(u) \in OwnGuards(u) /\ PublishGuard(u) \in OwnGuards(u)
    BY DEF HandlerGuard, PublishGuard, OwnGuards
  <2>5. SectionGuard(u)
    BY DEF IInv, SectionsAreGuarded
  <2> QED
    BY <1>2, <1>3, <2>3, <2>4, <2>5 DEF SectionGuard, Modes
<1> QED
  BY <1>3, <1>4, <1>5
-------------------------------------------------------------------------------
(* The steps handlers are made of.                                             *)

\* The running task handles a message sent.
LEMMA RunningTask ==
    ASSUME IInv, NEW t \in Tasks, NEW label, Runs(t, label)
    PROVE  t \in Sent /\ pc[t] = label /\ ready # <<>> /\ Tail(ready) \in Seq(Sent)
BY HeadTailProperties DEF IInv, TypeOK, ExecutorOK, Runs

\* The task keeps its guards: it runs on, waits, or is polled later.
LEMMA KeepingGuards ==
    ASSUME IInv, NEW t \in Sent, NEW label \in Labels, Goto(t, label),
           \/ ready' \in {ready, Append(ready, t)}
           \/ ready # <<>> /\ ready' = Tail(ready)
           \/ ready # <<>> /\ ready' = Append(Tail(ready) \o <<>>, t),
           UNCHANGED lock
    PROVE  StepOf(t, label, {})
<1>1. ready \in Seq(Sent)
  BY DEF IInv, TypeOK, ExecutorOK
<1>2. CASE ready' \in {ready, Append(ready, t)}
  BY <1>1, <1>2, AppendProperties DEF StepOf, Goto, IInv, TypeOK, WorldOK
<1>3. CASE ready # <<>> /\ ready' \in {Tail(ready), Append(Tail(ready) \o <<>>, t)}
  <2>1. Tail(ready) \in Seq(Sent)
    BY <1>1, <1>3, HeadTailProperties
  <2>2. Tail(ready) \o <<>> = Tail(ready)
    BY <2>1, ConcatEmptySeq
  <2>3. ready' \in Seq(Sent)
    BY <1>3, <2>1, <2>2, AppendProperties
  <2> QED
    BY <2>3 DEF StepOf, Goto, IInv, TypeOK, WorldOK
<1> QED
  BY <1>2, <1>3

\* A function on 1..n is a sequence.
LEMMA IsSequence ==
    ASSUME NEW S, NEW n \in Nat, NEW f \in [1..n -> S]
    PROVE  f \in Seq(S)
OBVIOUS

\* The tasks woken by the drop of a guard handle messages sent.
LEMMA WokenTasks ==
    ASSUME IInv, NEW g \in Guards(Sent)
    PROVE  Woken(g) \in Seq(Sent)
<1> DEFINE q == lock.queue
           n == Len(q) - Len(Release(lock, g).queue)
           G == Guards(Sent)
<1>1. lock \in Locks(G) /\ WellFormed(lock)
  BY DEF IInv, TypeOK, WorldOK
<1>2. Release(lock, g) \in Locks(G) /\ Len(Release(lock, g).queue) <= Len(q)
  BY <1>1, ReleaseKeepsLock
<1>3. q \in Seq(Waiters(G)) /\ Len(q) \in Nat /\ Len(Release(lock, g).queue) \in Nat
  BY <1>1, <1>2, LenProperties DEF Locks, Waiters
<1>4. n \in 0..Len(q)
  <2> DEFINE r == Len(Release(lock, g).queue)
  <2>1. r \in Nat /\ Len(q) \in Nat /\ r <= Len(q)
    BY <1>2, <1>3
  <2> HIDE DEF r, q
  <2>2. Len(q) - r \in 0..Len(q)
    BY <2>1
  <2> QED
    BY <2>2 DEF r
<1>5. \A i \in 1..n : q[i].guard.task \in Sent
  <2>1. \A i \in 1..Len(q) : q[i] \in Waiters(G)
    BY <1>3, ElementOfSeq
  <2> HIDE DEF n, q
  <2>2. ASSUME NEW i \in 1..n
        PROVE  q[i].guard.task \in Sent
    <3>1. q[i] \in Waiters(G)
      BY <1>3, <1>4, <2>1
    <3> QED
      BY <3>1 DEF Waiters, Guards
  <2> QED
    BY <2>2
<1>6. Woken(g) = [i \in 1..n |-> q[i].guard.task]
  BY DEF Woken
<1> HIDE DEF n, q
<1>7. Woken(g) \in [1..n -> Sent]
  BY <1>5, <1>6
<1> QED
  BY <1>3, <1>4, <1>7, IsSequence

\* The task takes a guard, after it dropped those in dropped if any.
LEMMA TakingGuard ==
    ASSUME IInv, NEW t \in Sent, ready # <<>>,
           NEW l \in Locks(Guards(Sent)), WellFormed(l), NEW woken \in Seq(Sent),
           NEW dropped,
           \A h \in Guards(Sent) \ dropped, m \in Modes : Asked(lock, h, m) => Asked(l, h, m),
           NEW g \in Guards(Sent), NEW mode \in Modes, NEW label \in Labels,
           TakeLock(l, woken, t, g, mode, label)
    PROVE  StepOf(t, label, dropped) /\ Asked(lock', g, mode)
<1>1. /\ lock' \in Locks(Guards(Sent)) /\ WellFormed(lock') /\ Asked(lock', g, mode)
      /\ \A h \in Guards(Sent), m \in Modes : Asked(l, h, m) => Asked(lock', h, m)
  BY AcquireKeepsLock DEF TakeLock
<1>2. ready \in Seq(Sent) /\ Tail(ready) \in Seq(Sent)
  BY HeadTailProperties DEF IInv, TypeOK, ExecutorOK
<1>3. ready' \in Seq(Sent)
  BY <1>2, ConcatProperties DEF TakeLock
<1>4. pc' = [pc EXCEPT ![t] = label]
  BY DEF TakeLock, Goto
<1> QED
  BY <1>1, <1>3, <1>4 DEF StepOf

\* The task takes a guard and drops none.
LEMMA TakingFirstGuard ==
    ASSUME IInv, NEW t \in Sent, ready # <<>>,
           NEW g \in Guards(Sent), NEW mode \in Modes, NEW label \in Labels,
           TakeLock(lock, <<>>, t, g, mode, label)
    PROVE  StepOf(t, label, {}) /\ Asked(lock', g, mode)
<1>1. lock \in Locks(Guards(Sent)) /\ WellFormed(lock) /\ <<>> \in Seq(Sent)
  BY EmptySeq DEF IInv, TypeOK, WorldOK
<1>2. \A h \in Guards(Sent) \ {}, m \in Modes : Asked(lock, h, m) => Asked(lock, h, m)
  OBVIOUS
<1> QED
  BY <1>1, <1>2, TakingGuard

\* The task drops one guard and takes another.
LEMMA ExchangingGuards ==
    ASSUME IInv, NEW t \in Sent, ready # <<>>, NEW g \in Guards(Sent), NEW h \in Guards(Sent),
           NEW mode \in Modes, NEW label \in Labels, DropAndTake(t, g, h, mode, label)
    PROVE  StepOf(t, label, {g}) /\ Asked(lock', h, mode)
<1> DEFINE l == Release(lock, g)
<1>1. lock \in Locks(Guards(Sent)) /\ WellFormed(lock)
  BY DEF IInv, TypeOK, WorldOK
<1>2. /\ l \in Locks(Guards(Sent)) /\ WellFormed(l)
      /\ \A k \in Guards(Sent) \ {g}, m \in Modes : Asked(lock, k, m) => Asked(l, k, m)
  BY <1>1, ReleaseKeepsLock
<1>3. Woken(g) \in Seq(Sent)
  BY WokenTasks
<1>4. TakeLock(l, Woken(g), t, h, mode, label)
  BY DEF DropAndTake
<1> HIDE DEF l
<1> QED
  BY <1>2, <1>3, <1>4, TakingGuard

\* The task drops a guard, and goes on, ends, or leaves its work to another.
LEMMA DroppingGuard ==
    ASSUME IInv, NEW t \in Sent, ready # <<>>, NEW g \in Guards(Sent), NEW label \in Labels,
           lock' = Release(lock, g), Goto(t, label),
           \/ ready' = ready \o Woken(g)
           \/ ready' = Tail(ready) \o Woken(g)
           \/ ready' = Append(Tail(ready) \o Woken(g), t)
    PROVE  StepOf(t, label, {g})
<1>1. lock \in Locks(Guards(Sent)) /\ WellFormed(lock)
  BY DEF IInv, TypeOK, WorldOK
<1>2. /\ lock' \in Locks(Guards(Sent)) /\ WellFormed(lock')
      /\ \A k \in Guards(Sent) \ {g}, m \in Modes : Asked(lock, k, m) => Asked(lock', k, m)
  BY <1>1, ReleaseKeepsLock
<1>3. /\ Woken(g) \in Seq(Sent)
      /\ ready \in Seq(Sent) /\ Tail(ready) \in Seq(Sent)
  BY WokenTasks, HeadTailProperties DEF IInv, TypeOK, ExecutorOK
<1>4. /\ ready \o Woken(g) \in Seq(Sent)
      /\ Tail(ready) \o Woken(g) \in Seq(Sent)
  BY <1>3, ConcatProperties
<1>5. ready' \in Seq(Sent)
  <2> DEFINE rest == Tail(ready) \o Woken(g)
  <2>1. rest \in Seq(Sent)
    BY <1>4
  <2> HIDE DEF rest
  <2>2. Append(rest, t) \in Seq(Sent)
    BY <2>1, AppendProperties
  <2> QED
    BY <1>4, <2>2 DEF rest
<1> QED
  BY <1>2, <1>5 DEF StepOf, Goto
-------------------------------------------------------------------------------
(* The steps of a task.                                                        *)

DataOK ==
    /\ shown \in [Docs -> Diagnostics]
    /\ local \in [Tasks -> LocalState]
    /\ folders \subseteq Folders
    /\ docs \in [Workspaces -> [Docs -> 0..Len(inbox)]]
    /\ included \in [Workspaces -> SUBSET Docs]

\* What a task needs to be at a label when its step is over.
MayStandAt(t, label) ==
    /\ label \in DocSections => Kind(t) \in DocKinds
    /\ label = "change_folders" => Kind(t) = "folders"
    /\ label \in WriteSections => Asked(lock', HandlerGuard(t), "write")
    /\ label \in ReadSections => Asked(lock', HandlerGuard(t), "read")
    /\ label \in PublishSections =>
           /\ Asked(lock', PublishGuard(t), "read")
           /\ Kind(t) = "associate" => Asked(lock', HandlerGuard(t), "read")

LEMMA SentAreTasks ==
    ASSUME TypeOK
    PROVE  Sent \subseteq Tasks /\ Len(inbox) \in Nat
BY LenProperties, WorldAssumption DEF TypeOK, ClientOK, Sent, Tasks

\* A task that steps to a label where it may stand keeps the invariant.
LEMMA StepKeepsInvariant ==
    ASSUME IInv, NEW t \in Sent, NEW label, NEW dropped, dropped \subseteq OwnGuards(t),
           StepOf(t, label, dropped), MayStandAt(t, label), UNCHANGED client, DataOK'
    PROVE  IInv'
<1>1. inbox' = inbox /\ Sent' = Sent /\ t \in Tasks /\ Kind(t)' = Kind(t) /\ pc'[t] = label
  BY SentAreTasks DEF client, Sent, Kind, StepOf, IInv, TypeOK, ExecutorOK
<1>2. TypeOK'
  <2>1. ClientOK'
    BY <1>1 DEF client, DataOK, IInv, TypeOK, ClientOK, Messages
  <2>2. ExecutorOK'
    BY <1>1 DEF StepOf, DataOK, IInv, TypeOK, ExecutorOK
  <2>3. WorldOK'
    BY <1>1 DEF StepOf, DataOK, WorldOK, Guards
  <2> QED
    BY <2>1, <2>2, <2>3 DEF TypeOK
<1>3. SectionKind(t)'
  BY <1>1 DEF SectionKind, MayStandAt
<1>4. SectionGuard(t)'
  BY <1>1 DEF SectionGuard, MayStandAt, HandlerGuard, PublishGuard
<1>5. KindsOfSections' /\ SectionsAreGuarded'
  BY <1>1, <1>3, <1>4, OthersKeepTheirSection
<1> QED
  BY <1>2, <1>5 DEF IInv

LEMMA UnchangedData ==
    ASSUME IInv, UNCHANGED <<client, shown, local, world>>
    PROVE  DataOK'
BY DEF IInv, TypeOK, ClientOK, ExecutorOK, WorldOK, DataOK, client, world

\* The guards of the running task.
LEMMA OwnGuardsOfSent ==
    ASSUME NEW t \in Sent
    PROVE  /\ HandlerGuard(t) \in Guards(Sent) /\ PublishGuard(t) \in Guards(Sent)
           /\ HandlerGuard(t) # PublishGuard(t)
           /\ HandlerGuard(t) \in OwnGuards(t) /\ PublishGuard(t) \in OwnGuards(t)
BY DEF HandlerGuard, PublishGuard, Guards, OwnGuards

LEMMA FirstPollStep ==
    ASSUME IInv, NEW t \in Tasks, FirstPoll(t)
    PROVE  IInv'
<1>1. t \in Sent /\ ready # <<>>
  BY RunningTask DEF FirstPoll
<1>2. DataOK' /\ UNCHANGED client
  BY UnchangedData DEF FirstPoll
<1>3. Kind(t) \in Kinds
  BY <1>1, MessageFields, ElementOfSeq DEF IInv, TypeOK, ClientOK, Kind, Sent
<1>4. CASE Kind(t) = "initialized"
  <2>1. StepOf(t, "update", {})
    BY <1>1, <1>4, KeepingGuards DEF FirstPoll, SpawnAndFinish, Labels
  <2>2. MayStandAt(t, "update")
    BY DEF MayStandAt, DocSections, WriteSections, ReadSections, PublishSections
  <2> QED
    BY <1>1, <1>2, <2>1, <2>2, StepKeepsInvariant
<1>5. CASE Kind(t) # "initialized"
  <2> DEFINE mode == HandlerLock[Kind(t)]
             body == HandlerBody[Kind(t)]
  <2>1. TakeLock(lock, <<>>, t, HandlerGuard(t), mode, body)
    BY <1>5 DEF FirstPoll
  <2>2. /\ mode \in Modes /\ body \in Labels
        /\ body \in DocSections => Kind(t) \in DocKinds
        /\ body = "change_folders" => Kind(t) = "folders"
        /\ body \in WriteSections => mode = "write"
        /\ body \in ReadSections => mode = "read"
        /\ body \notin PublishSections
    BY <1>3, <1>5 DEF Kinds, HandlerLock, HandlerBody, Modes, Labels, DocSections, DocKinds,
                      WriteSections, ReadSections, PublishSections
  <2> HIDE DEF mode, body
  <2>3. StepOf(t, body, {}) /\ Asked(lock', HandlerGuard(t), mode)
    BY <1>1, <2>1, <2>2, OwnGuardsOfSent, TakingFirstGuard
  <2>4. MayStandAt(t, body)
    BY <2>2, <2>3 DEF MayStandAt
  <2> QED
    BY <1>1, <1>2, <2>3, <2>4, StepKeepsInvariant
<1> QED
  BY <1>4, <1>5

\* What is known of the running task: its message, and the guards it asked for.
LEMMA RunningSection ==
    ASSUME IInv, NEW t \in Tasks, NEW label, Runs(t, label)
    PROVE  /\ t \in Sent /\ ready # <<>>
           /\ local[t] \in LocalState
           /\ label \in DocSections => Kind(t) \in DocKinds /\ Doc(t) \in Docs
           /\ label = "change_folders" => /\ inbox[t].added \subseteq Folders
                                          /\ inbox[t].removed \subseteq Folders
           /\ label \in WriteSections => Asked(lock, HandlerGuard(t), "write")
           /\ label \in ReadSections => Asked(lock, HandlerGuard(t), "read")
           /\ label \in PublishSections =>
                  /\ Asked(lock, PublishGuard(t), "read")
                  /\ Kind(t) = "associate" => Asked(lock, HandlerGuard(t), "read")
<1>1. t \in Sent /\ pc[t] = label /\ ready # <<>>
  BY RunningTask
<1>2. inbox[t] \in Messages
  BY <1>1, ElementOfSeq DEF IInv, TypeOK, ClientOK, Sent
<1>3. SectionKind(t) /\ SectionGuard(t) /\ local[t] \in LocalState
  BY DEF IInv, TypeOK, ExecutorOK, KindsOfSections, SectionsAreGuarded
<1> QED
  BY <1>1, <1>2, <1>3, MessageFields DEF SectionKind, SectionGuard, Kind, Doc

\* publish_diagnostics gives its guard back.
LEMMA ReturnStep ==
    ASSUME IInv, NEW t \in Tasks, NEW label \in PublishSections, Runs(t, label),
           ReturnFromPublish(t), UNCHANGED client, DataOK'
    PROVE  IInv'
<1>1. /\ t \in Sent /\ ready # <<>>
      /\ Kind(t) = "associate" => Asked(lock, HandlerGuard(t), "read")
  BY RunningSection
<1>2. /\ HandlerGuard(t) \in Guards(Sent) /\ PublishGuard(t) \in Guards(Sent)
      /\ HandlerGuard(t) # PublishGuard(t) /\ {PublishGuard(t)} \subseteq OwnGuards(t)
  BY <1>1, OwnGuardsOfSent
<1>3. CASE Kind(t) = "associate"
  <2>1. StepOf(t, "associate_next", {PublishGuard(t)})
    BY <1>1, <1>2, <1>3, DroppingGuard DEF ReturnFromPublish, DropAndContinue, Labels
  <2>2. Asked(lock', HandlerGuard(t), "read")
    BY <1>1, <1>2, <1>3, <2>1 DEF StepOf, Modes
  <2>3. MayStandAt(t, "associate_next")
    BY <1>3, <2>2 DEF MayStandAt, DocSections, DocKinds, WriteSections, ReadSections,
                      PublishSections
  <2> QED
    BY <1>1, <1>2, <2>1, <2>3, StepKeepsInvariant
<1>4. CASE Kind(t) # "associate"
  <2>1. StepOf(t, "done", {PublishGuard(t)})
    BY <1>1, <1>2, <1>4, DroppingGuard DEF ReturnFromPublish, DropAndFinish, Labels
  <2>2. MayStandAt(t, "done")
    BY DEF MayStandAt, DocSections, WriteSections, ReadSections, PublishSections
  <2> QED
    BY <1>1, <1>2, <2>1, <2>2, StepKeepsInvariant
<1> QED
  BY <1>3, <1>4

LEMMA NothingToPublishStep ==
    ASSUME IInv, NEW t \in Tasks, NEW label \in PublishSections, NothingToPublish(t, label)
    PROVE  IInv'
<1>1. DataOK' /\ UNCHANGED client
  BY UnchangedData DEF NothingToPublish
<1> QED
  BY <1>1, ReturnStep DEF NothingToPublish

\* The text a task reads of its document is one sent, and shown is well typed
\* whatever is published of it.
LEMMA PublishedDiagnostics ==
    ASSUME IInv, NEW d \in Docs, NEW text \in 0..MaxMessages, NEW dom \in 0..MaxMessages,
           NEW errors \in {"none", "syntax", "dom", "schema", "excluded"},
           Publish(d, text, dom, errors)
    PROVE  shown' \in [Docs -> Diagnostics]
BY DEF IInv, TypeOK, ClientOK, Publish, Diagnostics

LEMMA DocumentTexts ==
    ASSUME IInv, NEW w \in Workspaces, NEW d \in Docs
    PROVE  docs[w][d] \in 0..Len(inbox) /\ docs[w][d] \in 0..MaxMessages
BY WorldAssumption, LenProperties DEF IInv, TypeOK, ClientOK, WorldOK

LEMMA PublishStageStep ==
    ASSUME IInv, NEW t \in Tasks, NEW label \in {"syntax", "dom"}, NEW next \in {"dom", "schema"},
           PublishStage(t, label, next)
    PROVE  IInv'
<1> DEFINE d == Doc(t)
           text == docs[local[t].ws][d]
           errors == ErrorsOf(text, label)
<1>1. Runs(t, label) /\ label \in PublishSections /\ label \in DocSections
  BY DEF PublishStage, PublishSections, DocSections
<1>2. /\ t \in Sent /\ ready # <<>> /\ d \in Docs /\ local[t].ws \in Workspaces
      /\ Kind(t) \in DocKinds
      /\ Kind(t) = "associate" => Asked(lock, HandlerGuard(t), "read")
  BY <1>1, RunningSection DEF LocalState
<1>3. text \in 0..MaxMessages
  BY <1>2, DocumentTexts
<1>4. errors \in {"none", "syntax", "dom", "schema", "excluded"}
  BY DEF ErrorsOf
<1>5. shown' \in [Docs -> Diagnostics]
  BY <1>2, <1>3, <1>4, PublishedDiagnostics DEF PublishStage
<1>6. DataOK' /\ UNCHANGED client
  <2>1. local' = [local EXCEPT ![t].dom = text]
    BY DEF PublishStage
  <2>2. local' \in [Tasks -> LocalState]
    BY <1>3, <2>1 DEF IInv, TypeOK, ExecutorOK, LocalState
  <2>3. UNCHANGED <<client, world>>
    BY DEF PublishStage
  <2> QED
    BY <1>5, <2>2, <2>3 DEF DataOK, IInv, TypeOK, WorldOK, client, world
<1>7. CASE errors # "none"
  <2>1. ReturnFromPublish(t)
    BY <1>7 DEF PublishStage
  <2> QED
    BY <1>1, <1>6, <2>1, ReturnStep
<1>8. CASE errors = "none"
  <2>1. DropAndTake(t, PublishGuard(t), PublishGuard(t), "read", next)
    BY <1>8 DEF PublishStage
  <2>2. /\ HandlerGuard(t) \in Guards(Sent) /\ PublishGuard(t) \in Guards(Sent)
        /\ HandlerGuard(t) # PublishGuard(t) /\ {PublishGuard(t)} \subseteq OwnGuards(t)
    BY <1>2, OwnGuardsOfSent
  <2>3. StepOf(t, next, {PublishGuard(t)}) /\ Asked(lock', PublishGuard(t), "read")
    BY <1>2, <2>1, <2>2, ExchangingGuards DEF Labels, Modes
  <2>4. Kind(t) = "associate" => Asked(lock', HandlerGuard(t), "read")
    BY <1>2, <2>2, <2>3 DEF StepOf, Modes
  <2>5. MayStandAt(t, next)
    BY <1>2, <2>3, <2>4 DEF MayStandAt, DocSections, WriteSections, ReadSections, PublishSections
  <2> QED
    BY <1>2, <1>6, <2>2, <2>3, <2>5, StepKeepsInvariant
<1> QED
  BY <1>7, <1>8

LEMMA ReadForSchemaStep ==
    ASSUME IInv, NEW t \in Tasks, ReadForSchema(t)
    PROVE  IInv'
<1>1. CASE NothingToPublish(t, "schema")
  BY <1>1, NothingToPublishStep DEF PublishSections
<1>2. CASE ~NothingToPublish(t, "schema")
  <2>1. /\ Runs(t, "schema") /\ MaySuspend(t, "validate") /\ UNCHANGED lock
        /\ UNCHANGED <<client, shown, local, world>>
    BY <1>2 DEF ReadForSchema
  <2>2. /\ t \in Sent /\ ready # <<>> /\ Kind(t) \in DocKinds
        /\ Asked(lock, PublishGuard(t), "read")
        /\ Kind(t) = "associate" => Asked(lock, HandlerGuard(t), "read")
    BY <2>1, RunningSection DEF PublishSections, DocSections
  <2>3. StepOf(t, "validate", {})
    BY <2>1, <2>2, KeepingGuards DEF MaySuspend, Labels
  <2>4. MayStandAt(t, "validate")
    BY <2>1, <2>2 DEF MayStandAt, DocSections, WriteSections, ReadSections, PublishSections
  <2>5. DataOK' /\ UNCHANGED client
    BY <2>1, UnchangedData
  <2> QED
    BY <2>2, <2>3, <2>4, <2>5, StepKeepsInvariant
<1> QED
  BY <1>1, <1>2

LEMMA PublishSchemaErrorsStep ==
    ASSUME IInv, NEW t \in Tasks, PublishSchemaErrors(t)
    PROVE  IInv'
<1> DEFINE d == Doc(t)
           dom == local[t].dom
           text == docs[local[t].ws][d]
<1>1. Runs(t, "validate") /\ ReturnFromPublish(t) /\ UNCHANGED <<client, local, world>>
  BY DEF PublishSchemaErrors
<1>2. /\ d \in Docs /\ local[t].ws \in Workspaces /\ dom \in 0..MaxMessages
  BY <1>1, RunningSection DEF LocalState, DocSections
<1>3. text \in 0..MaxMessages
  BY <1>2, DocumentTexts
<1>4. PICK errors \in {ErrorsOf(dom, "schema"), "none"} : Publish(d, text, dom, errors)
  BY DEF PublishSchemaErrors
<1>5. errors \in {"none", "syntax", "dom", "schema", "excluded"}
  BY <1>4 DEF ErrorsOf
<1>6. shown' \in [Docs -> Diagnostics]
  BY <1>2, <1>3, <1>4, <1>5, PublishedDiagnostics
<1>7. DataOK'
  BY <1>1, <1>6 DEF DataOK, IInv, TypeOK, ExecutorOK, WorldOK, client, world
<1> QED
  BY <1>1, <1>7, ReturnStep DEF PublishSections

LEMMA StoreDocumentStep ==
    ASSUME IInv, NEW t \in Tasks, Kind(t) # "associate", StoreDocument(t)
    PROVE  IInv'
<1> DEFINE d == Doc(t)
           w == ByDocument(d)
           g == HandlerGuard(t)
<1>1. Runs(t, "store") /\ UNCHANGED <<client, folders, included>>
  BY DEF StoreDocument
<1>2. t \in Sent /\ t \in Tasks /\ ready # <<>> /\ d \in Docs /\ Kind(t) \in DocKinds
  BY <1>1, RunningSection DEF DocSections
<1>3. w \in Workspaces
  BY <1>2, ByDocumentPresent DEF IInv, TypeOK, WorldOK
<1>4. /\ g \in Guards(Sent) /\ PublishGuard(t) \in Guards(Sent)
      /\ {g} \subseteq OwnGuards(t)
  BY <1>2, OwnGuardsOfSent
<1>5. CASE d \in included[w]
  <2>1. /\ docs' = [docs EXCEPT ![w][d] = t]
        /\ local' = [local EXCEPT ![t].ws = w]
        /\ DropAndTake(t, g, PublishGuard(t), "read", "syntax")
        /\ UNCHANGED shown
    BY <1>5 DEF StoreDocument
  <2>2. StepOf(t, "syntax", {g}) /\ Asked(lock', PublishGuard(t), "read")
    BY <1>2, <1>4, <2>1, ExchangingGuards DEF Labels, Modes
  <2>3. MayStandAt(t, "syntax")
    BY <1>2, <2>2 DEF MayStandAt, DocSections, WriteSections, ReadSections, PublishSections
  <2>4. t \in 0..Len(inbox)
    BY <1>2, SentAreTasks DEF Sent, IInv
  <2>5. docs' \in [Workspaces -> [Docs -> 0..Len(inbox)]]
    BY <1>2, <1>3, <2>1, <2>4 DEF IInv, TypeOK, WorldOK
  <2>6. local' \in [Tasks -> LocalState]
    BY <1>3, <2>1 DEF IInv, TypeOK, ExecutorOK, LocalState
  <2>7. DataOK'
    BY <1>1, <2>1, <2>5, <2>6 DEF DataOK, IInv, TypeOK, ClientOK, WorldOK, client
  <2> QED
    BY <1>1, <1>2, <1>4, <2>2, <2>3, <2>7, StepKeepsInvariant
<1>6. CASE d \notin included[w]
  <2>1. /\ DropAndFinish(t, g) /\ Publish(d, NoText, NoText, "excluded")
        /\ UNCHANGED <<docs, local>>
    BY <1>6 DEF StoreDocument
  <2>2. StepOf(t, "done", {g})
    BY <1>2, <1>4, <2>1, DroppingGuard DEF DropAndFinish, Labels
  <2>3. MayStandAt(t, "done")
    BY DEF MayStandAt, DocSections, WriteSections, ReadSections, PublishSections
  <2>4. shown' \in [Docs -> Diagnostics]
    <3>1. NoText \in 0..MaxMessages
      BY WorldAssumption DEF NoText
    <3> QED
      BY <1>2, <2>1, <3>1, PublishedDiagnostics
  <2>5. DataOK'
    BY <1>1, <2>1, <2>4 DEF DataOK, IInv, TypeOK, ExecutorOK, WorldOK, client
  <2> QED
    BY <1>1, <1>2, <1>4, <2>2, <2>3, <2>5, StepKeepsInvariant
<1> QED
  BY <1>5, <1>6

LEMMA DocumentCloseStep ==
    ASSUME IInv, NEW t \in Tasks, DocumentClose(t)
    PROVE  IInv'
<1> DEFINE g == HandlerGuard(t)
           w == ByDocument(Doc(t))
<1>1. /\ Runs(t, "remove") /\ UNCHANGED <<client, local, shown, folders, included>>
      /\ docs' = [docs EXCEPT ![w][Doc(t)] = NoText]
  BY DEF DocumentClose
<1>2. t \in Sent /\ ready # <<>> /\ Doc(t) \in Docs /\ Kind(t) \in DocKinds
  BY <1>1, RunningSection DEF DocSections
<1>3. g \in Guards(Sent) /\ {g} \subseteq OwnGuards(t)
  BY <1>2, OwnGuardsOfSent
<1>4. StepOf(t, "clear", {g})
  BY <1>2, <1>3, DroppingGuard DEF DocumentClose, SpawnAndFinish, Labels
<1>5. MayStandAt(t, "clear")
  BY <1>2 DEF MayStandAt, WriteSections, ReadSections, PublishSections
<1>6. DataOK'
  <2>1. NoText \in 0..Len(inbox)
    BY SentAreTasks DEF NoText, IInv
  <2>2. docs' \in [Workspaces -> [Docs -> 0..Len(inbox)]]
    BY <1>1, <2>1 DEF IInv, TypeOK, WorldOK
  <2> QED
    BY <1>1, <2>2 DEF DataOK, IInv, TypeOK, ClientOK, ExecutorOK, WorldOK, client
<1> QED
  BY <1>1, <1>2, <1>3, <1>4, <1>5, <1>6, StepKeepsInvariant

\* A handler gives its guard back and ends.
LEMMA FinishStep ==
    ASSUME IInv, NEW t \in Tasks, NEW label, Runs(t, label),
           DropAndFinish(t, HandlerGuard(t)), UNCHANGED <<client, shown, local, world>>
    PROVE  IInv'
<1>1. t \in Sent /\ ready # <<>>
  BY RunningTask
<1>2. HandlerGuard(t) \in Guards(Sent) /\ {HandlerGuard(t)} \subseteq OwnGuards(t)
  BY <1>1, OwnGuardsOfSent
<1>3. StepOf(t, "done", {HandlerGuard(t)})
  BY <1>1, <1>2, DroppingGuard DEF DropAndFinish, Labels
<1>4. MayStandAt(t, "done")
  BY DEF MayStandAt, DocSections, WriteSections, ReadSections, PublishSections
<1> QED
  BY <1>1, <1>2, <1>3, <1>4, UnchangedData, StepKeepsInvariant

\* A handler goes on to another section that needs the same guard, or none.
LEMMA SameGuardStep ==
    ASSUME IInv, NEW t \in Tasks, NEW label, NEW next \in Labels, Goto(t, next), UNCHANGED lock,
           \/ Runs(t, label) /\ ready' \in {ready, Tail(ready), Append(Tail(ready) \o <<>>, t)}
           \/ pc[t] = label /\ label # "unborn" /\ ready' = Append(ready, t),
           next \in DocSections => label \in DocSections,
           next = "change_folders" => label = "change_folders",
           next \in WriteSections => label \in WriteSections,
           next \in ReadSections => label \in ReadSections,
           next \in PublishSections => label \in PublishSections,
           UNCHANGED client, DataOK'
    PROVE  IInv'
<1>1. pc[t] = label /\ t \in Sent
  <2>1. CASE Runs(t, label)
    BY <2>1, RunningTask
  <2>2. CASE pc[t] = label /\ label # "unborn"
    BY <2>2 DEF IInv, KindsOfSections, SectionKind
  <2> QED
    BY <2>1, <2>2
<1>2. SectionKind(t) /\ SectionGuard(t)
  BY DEF IInv, KindsOfSections, SectionsAreGuarded
<1>3. StepOf(t, next, {})
  BY <1>1, KeepingGuards DEF Runs
<1>4. MayStandAt(t, next)
  BY <1>1, <1>2 DEF MayStandAt, SectionKind, SectionGuard
<1> QED
  BY <1>1, <1>3, <1>4, StepKeepsInvariant

\* What a task notes for itself.
LEMMA LocalChanged ==
    ASSUME IInv, UNCHANGED <<client, shown, world>>, local' \in [Tasks -> LocalState]
    PROVE  DataOK'
BY DEF IInv, TypeOK, ClientOK, WorldOK, DataOK, client, world

LEMMA PresentAreWorkspaces ==
    ASSUME IInv
    PROVE  Present \subseteq Workspaces
BY DEF IInv, TypeOK, WorldOK, Present, Workspaces

LEMMA ClearDiagnosticsStep ==
    ASSUME IInv, NEW t \in Tasks, ClearDiagnostics(t)
    PROVE  IInv'
<1>1. Cleared \in Diagnostics
  BY WorldAssumption DEF Cleared, Diagnostics, NoText
<1>2. DataOK'
  BY <1>1 DEF ClearDiagnostics, DataOK, IInv, TypeOK, ClientOK, ExecutorOK, WorldOK, client, world
<1>3. Runs(t, "clear") /\ Goto(t, "done") /\ ready' = Tail(ready) /\ UNCHANGED <<client, lock>>
  BY DEF ClearDiagnostics, Suspend
<1> QED
  BY <1>2, <1>3, SameGuardStep
     DEF Labels, DocSections, WriteSections, ReadSections, PublishSections

LEMMA AnswerQueryStep ==
    ASSUME IInv, NEW t \in Tasks, AnswerQuery(t)
    PROVE  IInv'
<1>1. Runs(t, "answer") /\ MaySuspend(t, "reply") /\ UNCHANGED <<client, lock, shown, world>>
  BY DEF AnswerQuery
<1>2. Doc(t) \in Docs
  BY <1>1, RunningSection DEF DocSections
<1>3. docs[ByDocument(Doc(t))][Doc(t)] \in 0..MaxMessages
  BY <1>2, ByDocumentPresent, DocumentTexts DEF IInv, TypeOK, WorldOK
<1>4. local' \in [Tasks -> LocalState]
  BY <1>3 DEF AnswerQuery, IInv, TypeOK, ExecutorOK, LocalState
<1>5. DataOK'
  BY <1>1, <1>4, LocalChanged
<1> QED
  BY <1>1, <1>5, SameGuardStep
     DEF MaySuspend, Labels, DocSections, WriteSections, ReadSections, PublishSections

LEMMA InitializeWorkspaceStep ==
    ASSUME IInv, NEW t \in Tasks, NEW label \in {"initialize", "initialize_added"},
           InitializeWorkspace(t, label)
    PROVE  IInv'
<1>1. /\ Runs(t, label) /\ MaySuspend(t, label) /\ UNCHANGED <<client, lock>>
      /\ UNCHANGED <<shown, folders, docs>>
  BY DEF InitializeWorkspace
<1>2. PICK w \in local[t].todo, f \in Filters :
          /\ included' = [included EXCEPT ![w] = f]
          /\ local' = [local EXCEPT ![t].todo = local[t].todo \ {w}]
  BY DEF InitializeWorkspace
<1>3. f \in SUBSET Docs
  BY <1>2, WorldAssumption
<1>4. included' \in [Workspaces -> SUBSET Docs]
  BY <1>2, <1>3 DEF IInv, TypeOK, WorldOK
<1>5. local' \in [Tasks -> LocalState]
  BY <1>2 DEF IInv, TypeOK, ExecutorOK, LocalState
<1>6. DataOK'
  BY <1>1, <1>4, <1>5 DEF DataOK, IInv, TypeOK, ClientOK, WorldOK, client
<1> QED
  BY <1>1, <1>6, SameGuardStep
     DEF MaySuspend, Labels, DocSections, WriteSections, ReadSections, PublishSections

LEMMA ConfigurationChangeStep ==
    ASSUME IInv, NEW t \in Tasks, ConfigurationChange(t)
    PROVE  IInv'
<1>1. local' \in [Tasks -> LocalState]
  BY PresentAreWorkspaces DEF ConfigurationChange, IInv, TypeOK, ExecutorOK, LocalState
<1>2. DataOK'
  BY <1>1, LocalChanged DEF ConfigurationChange
<1> QED
  BY <1>2, SameGuardStep DEF ConfigurationChange, Continue,
     Labels, DocSections, WriteSections, ReadSections, PublishSections

LEMMA UpdateConfigurationStep ==
    ASSUME IInv, NEW t \in Tasks, UpdateConfiguration(t)
    PROVE  IInv'
<1>1. t \in Sent /\ ready # <<>>
  BY RunningTask DEF UpdateConfiguration
<1>2. HandlerGuard(t) \in Guards(Sent)
  BY <1>1, OwnGuardsOfSent
<1>3. StepOf(t, "request", {}) /\ Asked(lock', HandlerGuard(t), "write")
  BY <1>1, <1>2, TakingFirstGuard DEF UpdateConfiguration, Labels, Modes
<1>4. MayStandAt(t, "request")
  BY <1>3 DEF MayStandAt, DocSections, ReadSections, PublishSections
<1>5. DataOK' /\ UNCHANGED client
  BY UnchangedData DEF UpdateConfiguration
<1> QED
  BY <1>1, <1>3, <1>4, <1>5, StepKeepsInvariant

LEMMA RequestConfigurationStep ==
    ASSUME IInv, NEW t \in Tasks, RequestConfiguration(t) \/ HandleResponse(t)
    PROVE  IInv'
<1>1. DataOK' /\ UNCHANGED <<client, lock>>
  BY UnchangedData DEF RequestConfiguration, HandleResponse
<1>2. CASE RequestConfiguration(t)
  BY <1>1, <1>2, SameGuardStep DEF RequestConfiguration, Suspend,
     Labels, DocSections, WriteSections, ReadSections, PublishSections
<1>3. CASE HandleResponse(t)
  BY <1>1, <1>3, SameGuardStep DEF HandleResponse, SpawnAndFinish,
     Labels, DocSections, WriteSections, ReadSections, PublishSections
<1> QED
  BY <1>2, <1>3

LEMMA ClientAnswersStep ==
    ASSUME IInv, NEW t \in Tasks, ClientAnswers(t)
    PROVE  IInv'
<1>1. PICK answered \in SUBSET Present : local' = [local EXCEPT ![t].todo = answered]
  BY DEF ClientAnswers
<1>2. local' \in [Tasks -> LocalState]
  BY <1>1, PresentAreWorkspaces DEF IInv, TypeOK, ExecutorOK, LocalState
<1>3. DataOK'
  BY <1>2, LocalChanged DEF ClientAnswers
<1> QED
  BY <1>3, SameGuardStep DEF ClientAnswers,
     Labels, DocSections, WriteSections, ReadSections, PublishSections

LEMMA WorkspaceChangeStep ==
    ASSUME IInv, NEW t \in Tasks, WorkspaceChange(t)
    PROVE  IInv'
<1>1. /\ Runs(t, "change_folders") /\ Continue(t, "initialize_added")
      /\ UNCHANGED <<client, lock, shown>>
  BY DEF WorkspaceChange
<1>2. inbox[t].added \subseteq Folders
  BY <1>1, RunningSection
<1>3. folders' \subseteq Folders
  BY <1>2 DEF WorkspaceChange, IInv, TypeOK, WorldOK
<1>4. docs' \in [Workspaces -> [Docs -> 0..Len(inbox)]]
  <2>1. NoText \in 0..Len(inbox)
    BY SentAreTasks DEF NoText, IInv
  <2> QED
    BY <2>1 DEF WorkspaceChange, IInv, TypeOK, WorldOK
<1>5. included' \in [Workspaces -> SUBSET Docs]
  BY DEF WorkspaceChange, IInv, TypeOK, WorldOK
<1>6. local' \in [Tasks -> LocalState]
  BY <1>2 DEF WorkspaceChange, IInv, TypeOK, ExecutorOK, LocalState, Workspaces
<1>7. DataOK'
  BY <1>1, <1>3, <1>4, <1>5, <1>6 DEF DataOK, IInv, TypeOK, ClientOK, client
<1> QED
  BY <1>1, <1>7, SameGuardStep DEF Continue,
     Labels, DocSections, WriteSections, ReadSections, PublishSections

LEMMA WorkspaceChangeDoneStep ==
    ASSUME IInv, NEW t \in Tasks, WorkspaceChangeDone(t)
    PROVE  IInv'
<1> DEFINE g == HandlerGuard(t)
<1>1. t \in Sent /\ ready # <<>>
  BY RunningTask DEF WorkspaceChangeDone
<1>2. g \in Guards(Sent) /\ {g} \subseteq OwnGuards(t)
  BY <1>1, OwnGuardsOfSent
<1>3. StepOf(t, "request", {g}) /\ Asked(lock', g, "write")
  BY <1>1, <1>2, ExchangingGuards DEF WorkspaceChangeDone, Labels, Modes
<1>4. MayStandAt(t, "request")
  BY <1>3 DEF MayStandAt, DocSections, ReadSections, PublishSections
<1>5. DataOK' /\ UNCHANGED client
  BY UnchangedData DEF WorkspaceChangeDone
<1> QED
  BY <1>1, <1>2, <1>3, <1>4, <1>5, StepKeepsInvariant

LEMMA AssociateSchemaStep ==
    ASSUME IInv, NEW t \in Tasks, AssociateSchema(t)
    PROVE  IInv'
<1>1. local' \in [Tasks -> LocalState]
  BY PresentAreWorkspaces DEF AssociateSchema, IInv, TypeOK, ExecutorOK, LocalState
<1>2. DataOK'
  BY <1>1, LocalChanged DEF AssociateSchema
<1> QED
  BY <1>2, SameGuardStep DEF AssociateSchema, Continue,
     Labels, DocSections, WriteSections, ReadSections, PublishSections

LEMMA AssociateInWorkspaceStep ==
    ASSUME IInv, NEW t \in Tasks, AssociateInWorkspace(t)
    PROVE  IInv'
<1>1. /\ Runs(t, "associate_next") /\ TakeLock(lock, <<>>, t, PublishGuard(t), "read", "syntax")
      /\ UNCHANGED <<client, shown, world>>
  BY DEF AssociateInWorkspace
<1>2. /\ t \in Sent /\ ready # <<>> /\ Kind(t) \in DocKinds
      /\ Asked(lock, HandlerGuard(t), "read")
  BY <1>1, RunningSection DEF DocSections, ReadSections
<1>3. HandlerGuard(t) \in Guards(Sent) /\ PublishGuard(t) \in Guards(Sent)
  BY <1>2, OwnGuardsOfSent
<1>4. StepOf(t, "syntax", {}) /\ Asked(lock', PublishGuard(t), "read")
  BY <1>1, <1>2, <1>3, TakingFirstGuard DEF Labels, Modes
<1>5. Asked(lock', HandlerGuard(t), "read")
  BY <1>2, <1>3, <1>4 DEF StepOf, Modes
<1>6. MayStandAt(t, "syntax")
  BY <1>2, <1>4, <1>5 DEF MayStandAt, WriteSections, ReadSections
<1>7. local' \in [Tasks -> LocalState]
  <2>1. PICK w \in local[t].todo :
            local' = [local EXCEPT ![t].ws = w, ![t].todo = local[t].todo \ {w}]
    BY DEF AssociateInWorkspace
  <2>2. local[t] \in LocalState /\ w \in Workspaces
    BY <1>1, <2>1, RunningSection DEF LocalState
  <2> QED
    BY <2>1, <2>2 DEF IInv, TypeOK, ExecutorOK, LocalState
<1>8. DataOK'
  BY <1>1, <1>7, LocalChanged
<1> QED
  BY <1>1, <1>2, <1>4, <1>6, <1>8, StepKeepsInvariant

\* The file or the schema is there: the task is polled where it stands.
LEMMA InputOutputDoneStep ==
    ASSUME IInv, NEW t \in Tasks, InputOutputDone(t)
    PROVE  IInv'
<1>1. pc[t] \in Labels /\ Goto(t, pc[t]) /\ pc[t] # "unborn"
  BY DEF InputOutputDone, InputOutput, Goto, IInv, TypeOK, ExecutorOK
<1>2. ready' = Append(ready, t) /\ UNCHANGED <<client, lock>>
  BY DEF InputOutputDone
<1>3. DataOK'
  BY UnchangedData DEF InputOutputDone
<1> QED
  BY <1>1, <1>2, <1>3, SameGuardStep

\* A message is sent: there is one task more.
LEMMA ClientSendsStep ==
    ASSUME IInv, ClientSends
    PROVE  IInv'
<1>1. /\ inbox \in Seq(Messages) /\ Len(inbox) \in Nat /\ ready \in Seq(Sent)
      /\ MaxMessages \in Nat
  BY LenProperties, WorldAssumption DEF IInv, TypeOK, ClientOK, ExecutorOK
<1> DEFINE Sends == /\ Len(inbox) < MaxMessages
                    /\ ready' = Append(ready, Len(inbox) + 1)
                    /\ \E m \in Messages : inbox' = Append(inbox, m)
                    /\ current' \in [Docs -> 0..(Len(inbox) + 1)]
<1>2. Sends
  <2>0. current \in [Docs -> 0..Len(inbox)]
    BY DEF IInv, TypeOK, ClientOK
  <2>1. ASSUME NEW d \in Docs, NEW e \in Texts, OpenDocument(d, e) \/ EditDocument(d, e)
        PROVE  Sends
    BY <1>1, <2>0, <2>1 DEF OpenDocument, EditDocument, MaySend, Send, NextMessage, Messages
  <2>2. ASSUME NEW d \in Docs, CloseDocument(d)
        PROVE  Sends
    BY <1>1, <2>0, <2>2 DEF CloseDocument, MaySend, Send, NextMessage, Messages, Closed
  <2>3. ASSUME NEW d \in Docs, AskAboutDocument(d)
        PROVE  Sends
    <3>1. current[d] \in 0..MaxMessages
      BY <1>1, <2>0, <2>3 DEF AskAboutDocument, MaySend
    <3> QED
      BY <1>1, <2>0, <2>3, <3>1 DEF AskAboutDocument, MaySend, Send, NextMessage, Messages
  <2>4. ASSUME NEW d \in Docs, SelectSchema(d)
        PROVE  Sends
    BY <1>1, <2>0, <2>4 DEF SelectSchema, MaySend, Send, NextMessage, Messages
  <2>5. ASSUME ChangeFolders
        PROVE  Sends
    <3>1. PICK added \in SUBSET Folders, removed \in SUBSET Folders :
              /\ MaySend("folders") /\ UNCHANGED current
              /\ Send([kind |-> "folders", added |-> added, removed |-> removed])
      BY <2>5 DEF ChangeFolders
    <3>2. [kind |-> "folders", added |-> added, removed |-> removed] \in Messages
      BY DEF Messages
    <3> QED
      BY <1>1, <2>0, <3>1, <3>2 DEF MaySend, Send, NextMessage
  <2>6. ASSUME SendPlain
        PROVE  Sends
    BY <1>1, <2>0, <2>6 DEF SendPlain, MaySend, Send, NextMessage, Messages
  <2> QED
    BY <2>1, <2>2, <2>3, <2>4, <2>5, <2>6 DEF ClientSends
<1>3. UNCHANGED <<shown, pc, local, lock, folders, docs, included>>
  BY DEF ClientSends, world
<1>4. PICK m \in Messages : inbox' = Append(inbox, m)
  BY <1>2
<1>5. /\ inbox' \in Seq(Messages) /\ Len(inbox') = Len(inbox) + 1
      /\ \A i \in Sent : inbox'[i] = inbox[i]
  BY <1>1, <1>4, AppendProperties DEF Sent
<1>6. Sent \subseteq Sent' /\ Len(inbox) + 1 \in Sent'
  BY <1>1, <1>5 DEF Sent
<1>7. ready' \in Seq(Sent')
  <2>1. ready \in Seq(Sent')
    BY <1>1, <1>6, SeqMonotonic
  <2> QED
    BY <1>2, <1>6, <2>1, AppendProperties
<1>8. lock' \in Locks(Guards(Sent')) /\ WellFormed(lock')
  <2>1. Guards(Sent) \subseteq Guards(Sent')
    BY <1>6 DEF Guards
  <2>2. Waiters(Guards(Sent)) \subseteq Waiters(Guards(Sent'))
    BY <2>1 DEF Waiters
  <2>3. lock \in Locks(Guards(Sent)) /\ WellFormed(lock)
    BY DEF IInv, TypeOK, WorldOK
  <2>4. lock.queue \in Seq(Waiters(Guards(Sent')))
    BY <2>2, <2>3, SeqMonotonic DEF Locks, Waiters
  <2> QED
    BY <1>3, <2>1, <2>3, <2>4 DEF Locks, Waiters
<1>9. 0..Len(inbox) \subseteq 0..Len(inbox')
  BY <1>1, <1>5
<1>10. TypeOK'
  <2>1. ClientOK'
    BY <1>1, <1>2, <1>3, <1>5 DEF IInv, TypeOK, ClientOK, Messages, Diagnostics
  <2>2. ExecutorOK'
    BY <1>3, <1>7 DEF IInv, TypeOK, ExecutorOK
  <2>3. docs' \in [Workspaces -> [Docs -> 0..Len(inbox')]]
    <3>1. [Docs -> 0..Len(inbox)] \subseteq [Docs -> 0..Len(inbox')]
      BY <1>9
    <3> QED
      BY <1>3, <3>1 DEF IInv, TypeOK, WorldOK
  <2>4. WorldOK'
    BY <1>3, <1>8, <2>3 DEF IInv, TypeOK, WorldOK, Guards
  <2> QED
    BY <2>1, <2>2, <2>4 DEF TypeOK
<1>11. ASSUME NEW t \in Tasks
       PROVE  SectionKind(t)' /\ SectionGuard(t)'
  <2>1. SectionKind(t) /\ SectionGuard(t)
    BY DEF IInv, KindsOfSections, SectionsAreGuarded
  <2>2. CASE pc[t] = "unborn"
    BY <1>3, <2>2 DEF SectionKind, SectionGuard, DocSections, WriteSections, ReadSections,
                      PublishSections
  <2>3. CASE pc[t] # "unborn"
    <3>1. t \in Sent /\ Kind(t)' = Kind(t)
      BY <1>5, <2>1, <2>3 DEF SectionKind, Kind
    <3> QED
      BY <1>3, <1>6, <2>1, <3>1 DEF SectionKind, SectionGuard, HandlerGuard, PublishGuard
  <2> QED
    BY <2>2, <2>3
<1> QED
  BY <1>10, <1>11 DEF IInv, KindsOfSections, SectionsAreGuarded

-------------------------------------------------------------------------------
(* The theorems.                                                               *)

LEMMA InitInvariant == Init => IInv
<1> SUFFICES ASSUME Init PROVE IInv
  OBVIOUS
<1>1. Len(inbox) = 0 /\ inbox \in Seq(Messages) /\ ready \in Seq(Sent) /\ MaxMessages \in Nat
  BY EmptySeq, WorldAssumption DEF Init
<1>2. ClientOK
  BY <1>1 DEF Init, ClientOK, Cleared, Closed, NoText, Diagnostics
<1>3. ExecutorOK
  BY <1>1 DEF Init, ExecutorOK, Labels, LocalState, NoText, Workspaces
<1>4. lock \in Locks(Guards(Sent)) /\ WellFormed(lock)
  BY EmptySeq DEF Init, NewLock, Locks, WellFormed, Free
<1>5. WorldOK
  BY <1>1, <1>4, WorldAssumption DEF Init, WorldOK, NoText
<1>6. KindsOfSections /\ SectionsAreGuarded
  BY DEF Init, KindsOfSections, SectionKind, SectionsAreGuarded, SectionGuard,
         DocSections, WriteSections, ReadSections, PublishSections
<1> QED
  BY <1>2, <1>3, <1>5, <1>6 DEF IInv, TypeOK

LEMMA RunStep ==
    ASSUME IInv, NEW t \in Tasks, Run(t)
    PROVE  IInv'
<1>1. CASE FirstPoll(t)
  BY <1>1, FirstPollStep
<1>2. CASE DocumentOpen(t) \/ DocumentChange(t)
  BY <1>2, StoreDocumentStep DEF DocumentOpen, DocumentChange
<1>3. CASE DocumentClose(t)
  BY <1>3, DocumentCloseStep
<1>4. CASE ClearDiagnostics(t)
  BY <1>4, ClearDiagnosticsStep
<1>5. CASE PublishSyntaxErrors(t) \/ PublishDomErrors(t)
  BY <1>5, PublishStageStep, NothingToPublishStep
     DEF PublishSyntaxErrors, PublishDomErrors, PublishSections
<1>6. CASE ReadForSchema(t)
  BY <1>6, ReadForSchemaStep
<1>7. CASE PublishSchemaErrors(t)
  BY <1>7, PublishSchemaErrorsStep
<1>8. CASE AnswerQuery(t)
  BY <1>8, AnswerQueryStep
<1>9. CASE ReplyToQuery(t) \/ ConfigurationDone(t) \/ AssociateSchemaDone(t) \/ AssociatePattern(t)
  BY <1>9, FinishStep DEF ReplyToQuery, ConfigurationDone, AssociateSchemaDone, AssociatePattern
<1>10. CASE ConfigurationChange(t)
  BY <1>10, ConfigurationChangeStep
<1>11. CASE UpdateConfiguration(t)
  BY <1>11, UpdateConfigurationStep
<1>12. CASE RequestConfiguration(t) \/ HandleResponse(t)
  BY <1>12, RequestConfigurationStep
<1>13. CASE InitializeWorkspace(t, "initialize") \/ InitializeWorkspace(t, "initialize_added")
  BY <1>13, InitializeWorkspaceStep
<1>14. CASE WorkspaceChange(t)
  BY <1>14, WorkspaceChangeStep
<1>15. CASE WorkspaceChangeDone(t)
  BY <1>15, WorkspaceChangeDoneStep
<1>16. CASE AssociateSchema(t)
  BY <1>16, AssociateSchemaStep
<1>17. CASE AssociateInWorkspace(t)
  BY <1>17, AssociateInWorkspaceStep
<1> QED
  BY <1>1, <1>2, <1>3, <1>4, <1>5, <1>6, <1>7, <1>8, <1>9, <1>10, <1>11, <1>12, <1>13,
     <1>14, <1>15, <1>16, <1>17 DEF Run

\* A step that changes nothing.
LEMMA Stutter ==
    ASSUME IInv, UNCHANGED vars
    PROVE  IInv'
<1>1. TypeOK'
  BY DEF IInv, TypeOK, ClientOK, ExecutorOK, WorldOK, vars, Sent, Guards, Messages, Diagnostics,
         LocalState
<1>2. KindsOfSections'
  BY DEF IInv, KindsOfSections, SectionKind, Kind, Sent, vars
<1>3. SectionsAreGuarded'
  BY DEF IInv, SectionsAreGuarded, SectionGuard, Kind, HandlerGuard, PublishGuard, vars
<1> QED
  BY <1>1, <1>2, <1>3 DEF IInv

LEMMA NextInvariant == IInv /\ [Next]_vars => IInv'
<1> SUFFICES ASSUME IInv, [Next]_vars PROVE IInv'
  OBVIOUS
<1>1. CASE ClientSends
  BY <1>1, ClientSendsStep
<1>2. ASSUME NEW t \in Tasks, Run(t) \/ InputOutputDone(t) \/ ClientAnswers(t)
      PROVE  IInv'
  BY <1>2, RunStep, InputOutputDoneStep, ClientAnswersStep
<1>3. CASE Idle \/ UNCHANGED vars
  BY <1>3, Stutter DEF Idle
<1> QED
  BY <1>1, <1>2, <1>3 DEF Next

\* The invariant that makes the others inductive.
THEOREM Invariance == Spec => []IInv
<1> QED
  BY InitInvariant, NextInvariant, PTL DEF Spec

\* The variables keep their types and the lock stays well formed, however many
\* messages, documents and folders there are.
THEOREM TypeCorrect == Spec => []TypeOK
<1>1. IInv => TypeOK
  BY DEF IInv
<1> QED
  BY <1>1, Invariance, PTL

\* Every section of a handler (handlers/*.rs, diagnostics.rs) runs or waits under
\* the guard it needs.
THEOREM SectionsGuarded == Spec => []SectionsAreGuarded
<1>1. IInv => SectionsAreGuarded
  BY DEF IInv
<1> QED
  BY <1>1, Invariance, PTL

\* A guard that is not waited for is held.
LEMMA AskedAndNotWaiting ==
    ASSUME NEW l, NEW g, NEW mode, Asked(l, g, mode), ~Waits(l, g)
    PROVE  g \in l[mode]
BY DEF Asked, Waits

\* A handler that writes the world is alone in it, however long it waits for a
\* file or for the client: two write guards are the same guard, and a write guard
\* excludes the read guards of the other sections.
THEOREM WritersAreAlone == Spec => []WritersAlone
<1>1. IInv => WritersAlone
  <2> SUFFICES ASSUME IInv, NEW t \in Tasks, NEW u \in Tasks, t # u,
                      pc[t] \in WriteSections, ~Blocked(t),
                      pc[u] \in WriteSections \cup ReadSections \cup PublishSections,
                      ~Blocked(u)
               PROVE  FALSE
    BY DEF WritersAlone
  <2>1. WellFormed(lock) /\ SectionGuard(t) /\ SectionGuard(u)
    BY DEF IInv, TypeOK, WorldOK, SectionsAreGuarded
  <2>2. /\ ~Waits(lock, HandlerGuard(t)) /\ ~Waits(lock, HandlerGuard(u))
        /\ ~Waits(lock, PublishGuard(u))
    BY DEF Blocked
  <2>3. HandlerGuard(t) \in lock.write
    BY <2>1, <2>2, AskedAndNotWaiting DEF SectionGuard
  <2>4. lock.read = {}
    BY <2>1, <2>3 DEF WellFormed
  <2>5. CASE pc[u] \in WriteSections
    <3>1. HandlerGuard(u) \in lock.write
      BY <2>1, <2>2, <2>5, AskedAndNotWaiting DEF SectionGuard
    <3>2. HandlerGuard(t) # HandlerGuard(u)
      BY DEF HandlerGuard
    <3> QED
      BY <2>1, <2>3, <3>1, <3>2 DEF WellFormed
  <2>6. CASE pc[u] \in ReadSections
    <3>1. HandlerGuard(u) \in lock.read
      BY <2>1, <2>2, <2>6, AskedAndNotWaiting DEF SectionGuard
    <3> QED
      BY <2>4, <3>1
  <2>7. CASE pc[u] \in PublishSections
    <3>1. PublishGuard(u) \in lock.read
      BY <2>1, <2>2, <2>7, AskedAndNotWaiting DEF SectionGuard
    <3> QED
      BY <2>4, <3>1
  <2> QED
    BY <2>5, <2>6, <2>7
<1> QED
  BY <1>1, Invariance, PTL
-------------------------------------------------------------------------------
(* The second part: handlers are served in the order of their messages, and so *)
(* no workspace ever goes back to an older text of a document.                 *)
(*                                                                             *)
(* The order passes through two queues: a message is a task in the queue of    *)
(* the executor until its first poll, and then a guard in the queue of the     *)
(* lock until it is granted.  SpawnOrder and QueueOrder say that each keeps    *)
(* the order, and ServedFirst that nobody is through both before an earlier    *)
(* message.  ServedInOrder adds that a handler that waits for nothing any more *)
(* still keeps the others out, and TextsAreServed ties the texts to the tasks  *)
(* that stored them.                                                           *)
(*                                                                             *)
(* Behind that, the texts of the server are compared with those of the editor. *)

\* A handler that has done nothing yet: it was not polled, or it has or waits for
\* its guard.
Bodies == {"store", "remove", "configure", "change_folders", "answer", "associate",
           "associate_pattern"}
Unserved == Bodies \cup {"unborn"}

WaitsAtBody(t) == pc[t] \in Bodies /\ Waits(lock, HandlerGuard(t))

\* The task still stands in one of the two queues.
Behind(t) == pc[t] = "unborn" \/ WaitsAtBody(t)

BodiesOfKinds ==
    \A t \in Sent : pc[t] \in Bodies =>
        Kind(t) # "initialized" /\ pc[t] = HandlerBody[Kind(t)]

\* The tasks not polled yet stand in the executor's queue in the order of their
\* messages.
UnbornAreReady == \A t \in Sent : pc[t] = "unborn" => \E i \in 1..Len(ready) : ready[i] = t
UnbornInOrder ==
    \A i, j \in 1..Len(ready) :
        i < j /\ pc[ready[i]] = "unborn" /\ pc[ready[j]] = "unborn" => ready[i] < ready[j]
PolledInOrder == \A t, u \in Sent : t < u /\ pc[t] = "unborn" => pc[u] = "unborn"
SpawnOrder == UnbornAreReady /\ UnbornInOrder /\ PolledInOrder

\* So do the handlers that wait for the lock, and one that is polled again waits no
\* more.
WaiterOf(i) == lock.queue[i].guard.task
WaitersAreHandlers ==
    \A i \in 1..Len(lock.queue) :
        /\ pc[WaiterOf(i)] # "unborn"
        /\ pc[WaiterOf(i)] \in Bodies => lock.queue[i].guard = HandlerGuard(WaiterOf(i))
WaitersInOrder ==
    \A i, j \in 1..Len(lock.queue) :
        i < j /\ pc[WaiterOf(i)] \in Bodies /\ pc[WaiterOf(j)] \in Bodies
        => WaiterOf(i) < WaiterOf(j)
ReadyWaitForNothing == \A i \in 1..Len(ready) : ~WaitsAtBody(ready[i])
UnbornHoldNothing == \A t \in Sent : pc[t] = "unborn" => ~Holds(lock, HandlerGuard(t))
QueueOrder ==
    WaitersAreHandlers /\ WaitersInOrder /\ ReadyWaitForNothing /\ UnbornHoldNothing

ServedFirst ==
    \A t, u \in Sent : Kind(t) # "initialized" /\ ~Behind(t) /\ Behind(u) => t < u

OrderInv == BodiesOfKinds /\ SpawnOrder /\ QueueOrder /\ ServedFirst

\* Of two handlers that are not both readers the later does nothing before the
\* earlier.
Writes(t) == HandlerLock[Kind(t)] = "write"
ServedInOrder ==
    \A t, u \in Sent :
        /\ t < u /\ Kind(t) # "initialized" /\ Kind(u) # "initialized"
        /\ Writes(t) \/ Writes(u)
        /\ pc[t] \in Unserved
        => pc[u] \in Unserved

\* A text in a workspace was stored by the handler of its message.
TextsAreServed ==
    \A w \in Workspaces, d \in Docs :
        docs[w][d] # NoText =>
            /\ docs[w][d] \in Sent
            /\ Kind(docs[w][d]) \in {"open", "change"} /\ Doc(docs[w][d]) = d
            /\ pc[docs[w][d]] \notin Unserved

TextInv == IInv /\ OrderInv /\ ServedInOrder /\ TextsAreServed
-------------------------------------------------------------------------------
(* What a step does to the queues.                                             *)

\* What the two queues hold.
LEMMA QueueTypes ==
    ASSUME TypeOK
    PROVE  /\ Len(inbox) \in Nat /\ Sent \subseteq Nat /\ Sent \subseteq Tasks
           /\ Len(ready) \in Nat /\ \A i \in 1..Len(ready) : ready[i] \in Sent
           /\ Len(lock.queue) \in Nat
           /\ \A i \in 1..Len(lock.queue) :
                  WaiterOf(i) \in Sent /\ lock.queue[i] \in Waiters(Guards(Sent))
<1>1. Len(inbox) \in Nat /\ Sent \subseteq Nat /\ Sent \subseteq Tasks
  BY SentAreTasks DEF Sent
<1>2. Len(ready) \in Nat /\ \A i \in 1..Len(ready) : ready[i] \in Sent
  BY LenProperties, ElementOfSeq DEF TypeOK, ExecutorOK
<1>3. lock.queue \in Seq(Waiters(Guards(Sent)))
  BY DEF TypeOK, WorldOK, Locks, Waiters
<1>4. Len(lock.queue) \in Nat /\ \A i \in 1..Len(lock.queue) : lock.queue[i] \in Waiters(Guards(Sent))
  BY <1>3, LenProperties, ElementOfSeq
<1> QED
  BY <1>1, <1>2, <1>4 DEF WaiterOf, Waiters, Guards

\* A step of task t to label: s tasks leave the front of the executor's queue (the
\* running one), n waiters the front of the lock's, with the guards they waited
\* for; those who enter a queue are the n waiters and t.
Moves(t, label, s, n) ==
    /\ pc' = [pc EXCEPT ![t] = label] /\ inbox' = inbox
    /\ s \in {0, 1} /\ n \in 0..Len(lock.queue)
    /\ s = 1 => ready # <<>> /\ Head(ready) = t
    /\ Len(ready') >= Len(ready) - s
    /\ \A i \in 1..(Len(ready) - s) : ready'[i] = ready[i + s]
    /\ \A i \in (Len(ready) - s + 1)..Len(ready') :
           ready'[i] = t \/ \E k \in 1..n : ready'[i] = WaiterOf(k)
    /\ Len(lock'.queue) \in {Len(lock.queue) - n, Len(lock.queue) - n + 1}
    /\ \A i \in 1..(Len(lock.queue) - n) : lock'.queue[i] = lock.queue[i + n]
    /\ Len(lock'.queue) = Len(lock.queue) - n + 1
           => lock'.queue[Len(lock'.queue)].guard \in OwnGuards(t)
    /\ \A g : Holds(lock', g) => \/ Holds(lock, g) \/ g \in OwnGuards(t)
                                 \/ \E k \in 1..n : g = lock.queue[k].guard

\* Where a waiter was before the step.
LEMMA WaiterBefore ==
    ASSUME TypeOK, TypeOK', NEW t, NEW label, NEW s, NEW n, Moves(t, label, s, n),
           NEW i \in 1..Len(lock'.queue)
    PROVE  \/ /\ i + n \in 1..Len(lock.queue) /\ i + n > n
              /\ lock'.queue[i] = lock.queue[i + n] /\ WaiterOf(i)' = WaiterOf(i + n)
           \/ i = Len(lock'.queue) /\ lock'.queue[i].guard \in OwnGuards(t) /\ WaiterOf(i)' = t
<1>1. Len(lock.queue) \in Nat /\ n \in 0..Len(lock.queue)
  BY QueueTypes DEF Moves
<1>2. CASE i \in 1..(Len(lock.queue) - n)
  <2>1. i + n \in 1..Len(lock.queue) /\ i + n > n
    BY <1>1, <1>2
  <2>2. lock'.queue[i] = lock.queue[i + n]
    BY <1>2 DEF Moves
  <2> QED
    BY <2>1, <2>2 DEF WaiterOf
<1>3. CASE i \notin 1..(Len(lock.queue) - n)
  <2>1. i = Len(lock.queue) - n + 1 /\ Len(lock'.queue) = Len(lock.queue) - n + 1
    BY <1>1, <1>3 DEF Moves
  <2>2. lock'.queue[i].guard \in OwnGuards(t)
    BY <2>1 DEF Moves
  <2> QED
    BY <2>1, <2>2 DEF WaiterOf, OwnGuards, HandlerGuard, PublishGuard
<1> QED
  BY <1>2, <1>3

\* Where a task to poll was before the step.
LEMMA ReadyBefore ==
    ASSUME TypeOK, TypeOK', NEW t, NEW label, NEW s, NEW n, Moves(t, label, s, n),
           NEW i \in 1..Len(ready')
    PROVE  \/ i + s \in 1..Len(ready) /\ ready'[i] = ready[i + s]
           \/ ready'[i] = t
           \/ \E k \in 1..n : ready'[i] = WaiterOf(k)
<1>1. Len(ready) \in Nat /\ s \in {0, 1} /\ i \in Nat /\ i >= 1 /\ i <= Len(ready')
  BY QueueTypes DEF Moves
<1>2. CASE i <= Len(ready) - s
  BY <1>1, <1>2 DEF Moves
<1>3. CASE ~(i <= Len(ready) - s)
  <2>0. Len(ready') \in Int
    BY LenProperties DEF TypeOK, ExecutorOK
  <2>1. i \in (Len(ready) - s + 1)..Len(ready')
    BY <1>1, <1>3, <2>0
  <2> QED
    BY <2>1 DEF Moves
<1> QED
  BY <1>2, <1>3

\* The other tasks stay where they are.
LEMMA OthersStay ==
    ASSUME TypeOK, NEW t \in Sent, NEW label, NEW s, NEW n, Moves(t, label, s, n)
    PROVE  /\ pc'[t] = label /\ \A u \in Sent : u # t => pc'[u] = pc[u]
           /\ Sent' = Sent /\ \A u : Kind(u)' = Kind(u)
BY SentAreTasks DEF Moves, TypeOK, ExecutorOK, Sent, Kind

LEMMA SpawnOrderKept ==
    ASSUME TypeOK, TypeOK', SpawnOrder, WaitersAreHandlers, NEW t \in Sent,
           NEW label, label # "unborn", NEW s, NEW n, Moves(t, label, s, n),
           pc[t] = "unborn" => ready # <<>> /\ Head(ready) = t
    PROVE  SpawnOrder'
<1>1. /\ pc'[t] = label /\ \A u \in Sent : u # t => pc'[u] = pc[u]
      /\ Sent' = Sent
  BY OthersStay
<1>2. /\ Sent \subseteq Nat /\ Len(ready) \in Nat /\ Len(ready') \in Nat
      /\ \A i \in 1..Len(ready) : ready[i] \in Sent
      /\ ready # <<>> => ready[1] = Head(ready)
  BY QueueTypes, LenProperties DEF TypeOK, ExecutorOK
<1>3. ASSUME NEW u \in Sent, pc'[u] = "unborn"
      PROVE  u # t /\ pc[u] = "unborn"
  BY <1>1, <1>3
<1>4. UnbornAreReady'
  <2>1. SUFFICES ASSUME NEW u \in Sent, pc'[u] = "unborn"
                 PROVE  \E i \in 1..Len(ready') : ready'[i] = u
    BY <1>1 DEF UnbornAreReady
  <2>2. PICK i \in 1..Len(ready) : ready[i] = u
    BY <1>3, <2>1 DEF SpawnOrder, UnbornAreReady
  <2>3. s \in {0, 1} /\ (s = 1 => i # 1) /\ Len(ready') >= Len(ready) - s
    BY <1>2, <1>3, <2>1, <2>2 DEF Moves
  <2>4. i - s \in 1..(Len(ready) - s) /\ i - s \in 1..Len(ready')
    BY <1>2, <2>3
  <2>5. ready'[i - s] = ready[(i - s) + s] /\ (i - s) + s = i
    BY <1>2, <2>3, <2>4 DEF Moves
  <2> QED
    BY <2>2, <2>4, <2>5
<1>5. ASSUME NEW i \in 1..Len(ready'), pc'[ready'[i]] = "unborn"
      PROVE  i + s \in 1..Len(ready) /\ ready'[i] = ready[i + s] /\ pc[ready[i + s]] = "unborn"
  <2>1. ready'[i] # t
    BY <1>1, <1>5
  <2>2. ASSUME NEW k \in 1..n, ready'[i] = WaiterOf(k)
        PROVE  FALSE
    <3>1. k \in 1..Len(lock.queue) /\ WaiterOf(k) \in Sent
      BY QueueTypes DEF Moves
    <3> QED
      BY <1>3, <1>5, <2>2, <3>1 DEF WaitersAreHandlers
  <2>3. i + s \in 1..Len(ready) /\ ready'[i] = ready[i + s]
    BY <2>1, <2>2, ReadyBefore
  <2> QED
    BY <1>2, <1>3, <1>5, <2>3
<1>6. UnbornInOrder'
  <2>1. SUFFICES ASSUME NEW i \in 1..Len(ready'), NEW j \in 1..Len(ready'), i < j,
                        pc'[ready'[i]] = "unborn", pc'[ready'[j]] = "unborn"
                 PROVE  ready'[i] < ready'[j]
    BY DEF UnbornInOrder
  <2>2. /\ i + s \in 1..Len(ready) /\ ready'[i] = ready[i + s] /\ pc[ready[i + s]] = "unborn"
        /\ j + s \in 1..Len(ready) /\ ready'[j] = ready[j + s] /\ pc[ready[j + s]] = "unborn"
    BY <1>5, <2>1
  <2>3. i + s < j + s
    BY <2>1 DEF Moves
  <2> QED
    BY <2>2, <2>3 DEF SpawnOrder, UnbornInOrder
<1>7. PolledInOrder'
  <2>1. SUFFICES ASSUME NEW x \in Sent, NEW y \in Sent, x < y, pc'[x] = "unborn"
                 PROVE  pc'[y] = "unborn"
    BY <1>1 DEF PolledInOrder
  <2>2. x # t /\ pc[x] = "unborn" /\ pc[y] = "unborn"
    BY <1>3, <2>1 DEF SpawnOrder, PolledInOrder
  <2>3. CASE y = t
    <3>1. PICK i \in 1..Len(ready) : ready[i] = x
      BY <2>2 DEF SpawnOrder, UnbornAreReady
    <3>2. ready[1] = t /\ 1 \in 1..Len(ready) /\ 1 < i
      BY <1>2, <2>2, <2>3, <3>1
    <3>3. ready[1] < ready[i]
      BY <2>2, <2>3, <3>1, <3>2 DEF SpawnOrder, UnbornInOrder
    <3> QED
      BY <1>2, <2>1, <2>3, <3>1, <3>2, <3>3
  <2>4. CASE y # t
    BY <1>1, <2>2, <2>4
  <2> QED
    BY <2>3, <2>4
<1> QED
  BY <1>4, <1>6, <1>7 DEF SpawnOrder

\* A task that goes on, past its body, keeps the order of the lock's queue.
LEMMA QueueOrderKept ==
    ASSUME TypeOK, TypeOK', QueueOrder, NEW t \in Sent,
           NEW label, label \notin Unserved, NEW s, NEW n, Moves(t, label, s, n)
    PROVE  QueueOrder'
<1>1. /\ pc'[t] = label /\ \A u \in Sent : u # t => pc'[u] = pc[u]
      /\ Sent' = Sent
  BY OthersStay
<1>2. /\ Sent \subseteq Nat
      /\ Len(lock.queue) \in Nat /\ \A i \in 1..Len(lock.queue) : WaiterOf(i) \in Sent
      /\ \A i \in 1..Len(ready) : ready[i] \in Sent
      /\ Len(lock'.queue) \in Nat /\ n \in 0..Len(lock.queue)
  <2>1. Len(lock'.queue) \in Nat
    BY LenProperties DEF TypeOK, WorldOK, Locks
  <2> QED
    BY <2>1, QueueTypes DEF Moves
<1>3. ASSUME NEW i \in 1..Len(lock'.queue), WaiterOf(i)' # t
      PROVE  /\ i + n \in 1..Len(lock.queue) /\ i + n > n
             /\ lock'.queue[i] = lock.queue[i + n] /\ WaiterOf(i)' = WaiterOf(i + n)
             /\ pc'[WaiterOf(i)'] = pc[WaiterOf(i + n)]
  <2>1. /\ i + n \in 1..Len(lock.queue) /\ i + n > n
        /\ lock'.queue[i] = lock.queue[i + n] /\ WaiterOf(i)' = WaiterOf(i + n)
    BY <1>3, WaiterBefore
  <2> QED
    BY <1>1, <1>2, <1>3, <2>1
<1>4. WaitersAreHandlers'
  <2>1. SUFFICES ASSUME NEW i \in 1..Len(lock'.queue)
                 PROVE  /\ pc'[WaiterOf(i)'] # "unborn"
                        /\ pc'[WaiterOf(i)'] \in Bodies
                               => lock'.queue[i].guard = HandlerGuard(WaiterOf(i)')
    BY DEF WaitersAreHandlers, HandlerGuard
  <2>2. CASE WaiterOf(i)' = t
    BY <1>1, <2>2 DEF Unserved
  <2>3. CASE WaiterOf(i)' # t
    BY <1>3, <2>3 DEF QueueOrder, WaitersAreHandlers
  <2> QED
    BY <2>2, <2>3
<1>5. WaitersInOrder'
  <2>1. SUFFICES ASSUME NEW i \in 1..Len(lock'.queue), NEW j \in 1..Len(lock'.queue), i < j,
                        pc'[WaiterOf(i)'] \in Bodies, pc'[WaiterOf(j)'] \in Bodies
                 PROVE  WaiterOf(i)' < WaiterOf(j)'
    BY DEF WaitersInOrder
  <2>2. WaiterOf(i)' # t /\ WaiterOf(j)' # t
    BY <1>1, <2>1 DEF Unserved
  <2>3. i + n < j + n
    BY <1>2, <2>1
  <2> QED
    BY <1>3, <2>1, <2>2, <2>3 DEF QueueOrder, WaitersInOrder
<1>6. ReadyWaitForNothing'
  <2>1. SUFFICES ASSUME NEW i \in 1..Len(ready'), pc'[ready'[i]] \in Bodies,
                        NEW q \in 1..Len(lock'.queue),
                        lock'.queue[q].guard = HandlerGuard(ready'[i])
                 PROVE  FALSE
    BY DEF ReadyWaitForNothing, WaitsAtBody, Waits, HandlerGuard
  <2> DEFINE x == ready'[i]
  <2>2. x # t /\ WaiterOf(q)' = x
    BY <1>1, <2>1 DEF Unserved, WaiterOf, HandlerGuard
  <2>3. /\ q + n \in 1..Len(lock.queue) /\ q + n > n /\ WaiterOf(q + n) = x
        /\ lock.queue[q + n].guard = HandlerGuard(x) /\ pc[x] \in Bodies
    BY <1>3, <2>1, <2>2
  <2>4. ASSUME i + s \in 1..Len(ready), x = ready[i + s]
        PROVE  FALSE
    BY <2>3, <2>4 DEF QueueOrder, ReadyWaitForNothing, WaitsAtBody, Waits
  <2>5. ASSUME NEW k \in 1..n, x = WaiterOf(k)
        PROVE  FALSE
    <3>1. k \in 1..Len(lock.queue) /\ k < q + n
      BY <1>2, <2>3
    <3>2. WaiterOf(k) < WaiterOf(q + n)
      BY <2>3, <2>5, <3>1 DEF QueueOrder, WaitersInOrder
    <3>3. WaiterOf(q + n) \in Nat /\ WaiterOf(k) = WaiterOf(q + n)
      BY <1>2, <2>3, <2>5
    <3> QED
      BY <3>2, <3>3
  <2> HIDE DEF x
  <2>6. \/ i + s \in 1..Len(ready) /\ x = ready[i + s]
        \/ x = t
        \/ \E k \in 1..n : x = WaiterOf(k)
    BY ReadyBefore DEF x
  <2> QED
    BY <2>2, <2>4, <2>5, <2>6
<1>7. UnbornHoldNothing'
  <2>1. SUFFICES ASSUME NEW u \in Sent, pc'[u] = "unborn", Holds(lock', HandlerGuard(u))
                 PROVE  FALSE
    BY <1>1 DEF UnbornHoldNothing, HandlerGuard
  <2>2. u # t /\ pc[u] = "unborn"
    BY <1>1, <2>1 DEF Unserved
  <2>3. HandlerGuard(u) \notin OwnGuards(t)
    BY <2>2 DEF OwnGuards, HandlerGuard, PublishGuard
  <2>4. ~Holds(lock, HandlerGuard(u))
    BY <2>2 DEF QueueOrder, UnbornHoldNothing
  <2>5. PICK k \in 1..n : HandlerGuard(u) = lock.queue[k].guard
    BY <2>1, <2>3, <2>4 DEF Moves
  <2>6. k \in 1..Len(lock.queue) /\ WaiterOf(k) = u
    BY <1>2, <2>5 DEF WaiterOf, HandlerGuard
  <2> QED
    BY <2>2, <2>6 DEF QueueOrder, WaitersAreHandlers
<1> QED
  BY <1>4, <1>5, <1>6, <1>7 DEF QueueOrder

\* So does the order in which tasks come through both queues: the waiters served
\* were at the front.
LEMMA ServedFirstKept ==
    ASSUME TypeOK, TypeOK', PolledInOrder, QueueOrder, ServedFirst, NEW t \in Sent,
           NEW label, label \notin Unserved, NEW s, NEW n, Moves(t, label, s, n),
           ~WaitsAtBody(t), pc[t] = "unborn" => Kind(t) = "initialized"
    PROVE  ServedFirst'
<1>1. /\ pc'[t] = label /\ \A u \in Sent : u # t => pc'[u] = pc[u]
      /\ Sent' = Sent /\ \A u : Kind(u)' = Kind(u)
  BY OthersStay
<1>2. /\ Sent \subseteq Nat
      /\ Len(lock.queue) \in Nat /\ n \in 0..Len(lock.queue)
  BY QueueTypes DEF Moves
<1>3. SUFFICES ASSUME NEW x \in Sent, NEW y \in Sent, Kind(x) # "initialized",
                      ~Behind(x)', Behind(y)'
               PROVE  x < y
  BY <1>1 DEF ServedFirst
<1>4. y # t /\ pc'[y] = pc[y] /\ pc[y] \in Unserved
  BY <1>1, <1>3 DEF Behind, WaitsAtBody, Unserved
<1>5. ASSUME pc[y] # "unborn"
      PROVE  \E q \in 1..Len(lock.queue) :
                 q > n /\ lock.queue[q].guard = HandlerGuard(y) /\ WaiterOf(q) = y
  <2>1. PICK i \in 1..Len(lock'.queue) : lock'.queue[i].guard = HandlerGuard(y)
    BY <1>3, <1>4, <1>5 DEF Behind, WaitsAtBody, Waits, HandlerGuard
  <2>2. WaiterOf(i)' = y
    BY <2>1 DEF WaiterOf, HandlerGuard
  <2> QED
    BY <1>4, <2>1, <2>2, WaiterBefore
<1>6. Behind(y)
  BY <1>4, <1>5 DEF Behind, WaitsAtBody, Waits, Unserved
<1>7. CASE ~Behind(x)
  BY <1>3, <1>6, <1>7 DEF ServedFirst
<1>8. CASE Behind(x)
  <2>1. x # t
    BY <1>3, <1>8 DEF Behind
  <2>2. pc'[x] = pc[x] /\ pc[x] # "unborn" /\ WaitsAtBody(x)
    BY <1>1, <1>3, <1>8, <2>1 DEF Behind
  <2>3. PICK k \in 1..Len(lock.queue) : lock.queue[k].guard = HandlerGuard(x)
    BY <2>2 DEF WaitsAtBody, Waits
  <2>4. k <= n
    <3>1. ASSUME ~(k <= n)
          PROVE  FALSE
      <4>1. k - n \in 1..(Len(lock.queue) - n) /\ k - n \in 1..Len(lock'.queue) /\ (k - n) + n = k
        BY <1>2, <3>1 DEF Moves
      <4>2. lock'.queue[k - n] = lock.queue[k]
        BY <4>1 DEF Moves
      <4>3. Waits(lock, HandlerGuard(x))'
        BY <2>3, <4>1, <4>2 DEF Waits, HandlerGuard
      <4> QED
        BY <1>3, <2>2, <4>3 DEF Behind, WaitsAtBody
    <3> QED
      BY <3>1
  <2>5. CASE pc[y] = "unborn"
    <3>1. ~(y < x) /\ x # y
      BY <2>2, <2>5 DEF PolledInOrder
    <3> QED
      BY <1>2, <3>1
  <2>6. CASE pc[y] # "unborn"
    <3>1. PICK q \in 1..Len(lock.queue) : q > n /\ WaiterOf(q) = y
      BY <1>5, <2>6
    <3>2. WaiterOf(k) = x /\ pc[x] \in Bodies /\ pc[y] \in Bodies /\ k < q
      BY <1>2, <1>4, <2>2, <2>3, <2>4, <2>6, <3>1 DEF WaiterOf, HandlerGuard, WaitsAtBody, Unserved
    <3> QED
      BY <3>1, <3>2 DEF QueueOrder, WaitersInOrder
  <2> QED
    BY <2>5, <2>6
<1> QED
  BY <1>7, <1>8

LEMMA BodiesKept ==
    ASSUME TypeOK, BodiesOfKinds, NEW t \in Sent, NEW label, NEW s, NEW n, Moves(t, label, s, n),
           label \in Bodies => Kind(t) # "initialized" /\ label = HandlerBody[Kind(t)]
    PROVE  BodiesOfKinds'
<1>1. /\ pc'[t] = label /\ \A u \in Sent : u # t => pc'[u] = pc[u]
      /\ Sent' = Sent /\ \A u : Kind(u)' = Kind(u)
  BY OthersStay
<1> QED
  BY <1>1 DEF BodiesOfKinds

\* A step of a task past its body keeps the order.
LEMMA LaterStepKeepsOrder ==
    ASSUME IInv, IInv', OrderInv, NEW t \in Sent,
           NEW label, label \notin Unserved, NEW s, NEW n, Moves(t, label, s, n),
           ~WaitsAtBody(t),
           pc[t] = "unborn" => Kind(t) = "initialized" /\ ready # <<>> /\ Head(ready) = t
    PROVE  OrderInv'
<1>1. TypeOK /\ TypeOK' /\ label # "unborn" /\ label \notin Bodies
  BY DEF IInv, Unserved
<1>2. SpawnOrder'
  BY <1>1, SpawnOrderKept DEF OrderInv, QueueOrder
<1>3. QueueOrder'
  BY <1>1, QueueOrderKept DEF OrderInv
<1>4. ServedFirst'
  BY <1>1, ServedFirstKept DEF OrderInv, SpawnOrder
<1>5. BodiesOfKinds'
  BY <1>1, BodiesKept DEF OrderInv
<1> QED
  BY <1>2, <1>3, <1>4, <1>5 DEF OrderInv
-------------------------------------------------------------------------------
(* The steps of the lock, and the steps handlers are made of.                  *)

\* Lock m is lock l after the first n of its waiters got it.
Served(l, m, n) ==
    /\ n \in 0..Len(l.queue) /\ Len(m.queue) = Len(l.queue) - n
    /\ \A i \in 1..(Len(l.queue) - n) : m.queue[i] = l.queue[i + n]
    /\ \A g : Holds(m, g) => Holds(l, g) \/ \E k \in 1..n : g = l.queue[k].guard

LEMMA WakeServes ==
    ASSUME NEW G, NEW l \in Locks(G)
    PROVE  \E n \in 0..Len(l.queue) : Served(l, Wake(l), n)
<1> DEFINE q == l.queue
<1>0. q \in Seq(Waiters(G)) /\ Len(q) \in Nat
  BY LenProperties DEF Locks, Waiters
<1>1. CASE q = <<>>
  <2>1. Wake(l) = l
    BY <1>1 DEF Wake
  <2>2. Served(l, Wake(l), 0)
    BY <1>0, <2>1 DEF Served
  <2> QED
    BY <1>0, <2>2
<1>2. CASE q # <<>> /\ Head(q).mode = "write"
  <2>1. Wake(l) = [write |-> {Head(q).guard}, read |-> {}, queue |-> Tail(q)]
    BY <1>2 DEF Wake
  <2>2. /\ Len(Tail(q)) = Len(q) - 1 /\ Len(q) >= 1 /\ Head(q) = q[1]
        /\ \A i \in 1..(Len(q) - 1) : Tail(q)[i] = q[i + 1]
    BY <1>0, <1>2, HeadTailProperties
  <2>3. /\ Wake(l).queue = Tail(q)
        /\ \A g : Holds(Wake(l), g) => g = q[1].guard
    BY <2>1, <2>2 DEF Holds
  <2>4. Served(l, Wake(l), 1)
    BY <1>0, <2>2, <2>3 DEF Served
  <2> QED
    BY <1>0, <2>2, <2>4
<1>3. CASE q # <<>> /\ Head(q).mode # "write"
  <2> DEFINE n == FrontReaders(q)
             s == SubSeq(q, n + 1, Len(q))
  <2>1. Wake(l) = [write |-> {}, read |-> {q[i].guard : i \in 1..n}, queue |-> s]
    BY <1>3 DEF Wake
  <2>2. n \in 0..Len(q)
    BY <1>0, FrontReadersArePrefix
  <2> HIDE DEF n
  <2>3. Len(s) = Len(q) - n /\ \A i \in 1..(Len(q) - n) : s[i] = q[i + n]
    <3>1. \A i \in (n + 1)..Len(q) : q[i] \in Waiters(G)
      BY <1>0, <2>2, ElementOfSeq
    <3>2. n + 1 \in Int /\ Len(q) \in Int
      BY <1>0, <2>2
    <3>3. /\ Len(s) = IF n + 1 <= Len(q) THEN Len(q) - (n + 1) + 1 ELSE 0
          /\ \A i \in 1..(Len(q) - (n + 1) + 1) : s[i] = q[(n + 1) + i - 1]
      BY <3>1, <3>2, SubSeqProperties
    <3> QED
      BY <1>0, <2>2, <3>3
  <2> HIDE DEF s
  <2>4. Wake(l).queue = s /\ \A g : Holds(Wake(l), g) => \E k \in 1..n : g = q[k].guard
    BY <2>1 DEF Holds
  <2>5. Served(l, Wake(l), n)
    BY <1>0, <2>2, <2>3, <2>4 DEF Served
  <2> QED
    BY <2>2, <2>5
<1> QED
  BY <1>1, <1>2, <1>3

LEMMA ReleaseServes ==
    ASSUME NEW G, NEW l \in Locks(G), NEW g
    PROVE  Served(l, Release(l, g), Len(l.queue) - Len(Release(l, g).queue))
<1> DEFINE rest == [l EXCEPT !.write = l.write \ {g}, !.read = l.read \ {g}]
<1>1. Release(l, g) = IF Free(rest) THEN Wake(rest) ELSE rest
  BY DEF Release
<1>2. rest \in Locks(G) /\ rest.queue = l.queue /\ \A h : Holds(rest, h) => Holds(l, h)
  BY DEF Locks, Holds
<1>3. Len(l.queue) \in Nat
  BY LenProperties DEF Locks
<1> HIDE DEF rest
<1>4. \E n \in 0..Len(l.queue) : Served(l, Release(l, g), n)
  <2>1. CASE Free(rest)
    <3>1. PICK n \in 0..Len(rest.queue) : Served(rest, Wake(rest), n)
      BY <1>2, WakeServes
    <3>2. Served(l, Release(l, g), n)
      BY <1>1, <1>2, <2>1, <3>1 DEF Served
    <3> QED
      BY <1>2, <3>1, <3>2
  <2>2. CASE ~Free(rest)
    <3>1. Served(l, rest, 0)
      BY <1>2, <1>3 DEF Served
    <3> QED
      BY <1>1, <1>3, <2>2, <3>1
  <2> QED
    BY <2>1, <2>2
<1>5. PICK n \in 0..Len(l.queue) : Served(l, Release(l, g), n)
  BY <1>4
<1>6. n = Len(l.queue) - Len(Release(l, g).queue)
  BY <1>3, <1>5 DEF Served
<1> QED
  BY <1>5, <1>6

\* A call is granted when nobody waits, or waits behind the others.
LEMMA AcquireQueues ==
    ASSUME NEW G, NEW l \in Locks(G), NEW g, NEW mode \in Modes
    PROVE  \/ /\ l.queue = <<>> /\ Acquire(l, g, mode).queue = <<>>
              /\ Holds(Acquire(l, g, mode), g)
              /\ \A h : Holds(Acquire(l, g, mode), h) => Holds(l, h) \/ h = g
           \/ /\ Acquire(l, g, mode).queue = Append(l.queue, [guard |-> g, mode |-> mode])
              /\ \A h : Holds(Acquire(l, g, mode), h) <=> Holds(l, h)
<1>1. CASE Compatible(l, mode) /\ l.queue = <<>>
  <2>1. Acquire(l, g, mode) = [l EXCEPT ![mode] = l[mode] \cup {g}]
    BY <1>1 DEF Acquire, Grant
  <2>2. CASE mode = "read"
    BY <1>1, <2>1, <2>2 DEF Holds, Locks
  <2>3. CASE mode = "write"
    BY <1>1, <2>1, <2>3 DEF Holds, Locks
  <2> QED
    BY <2>2, <2>3 DEF Modes
<1>2. CASE ~(Compatible(l, mode) /\ l.queue = <<>>)
  <2>1. Acquire(l, g, mode) = [l EXCEPT !.queue = Append(l.queue, [guard |-> g, mode |-> mode])]
    BY <1>2 DEF Acquire, Enqueue
  <2> QED
    BY <2>1 DEF Holds, Locks
<1> QED
  BY <1>1, <1>2

\* The tasks woken are the waiters served.
WokenBy(w, n) == w \in Seq(Sent) /\ Len(w) = n /\ \A k \in 1..n : w[k] = WaiterOf(k)

\* What is left of the executor's queue when s tasks are gone.
Rest(s) == IF s = 0 THEN ready ELSE Tail(ready)

\* How the executor's queue changes: it loses its head or not, and gets the tasks
\* woken and perhaps t again.
LEMMA ReadyMoves ==
    ASSUME TypeOK, NEW t \in Sent, NEW n \in Nat, NEW w, WokenBy(w, n),
           NEW s \in {0, 1}, s = 1 => ready # <<>>,
           ready' = Rest(s) \o w \/ ready' = Append(Rest(s) \o w, t)
    PROVE  /\ Len(ready') >= Len(ready) - s
           /\ \A i \in 1..(Len(ready) - s) : ready'[i] = ready[i + s]
           /\ \A i \in (Len(ready) - s + 1)..Len(ready') :
                  ready'[i] = t \/ \E k \in 1..n : ready'[i] = WaiterOf(k)
<1> DEFINE front == Rest(s)
           f == Len(ready) - s
           fw == front \o w
<1>1. ready \in Seq(Sent) /\ Len(ready) \in Nat /\ w \in Seq(Sent) /\ Len(w) = n
  BY LenProperties DEF TypeOK, ExecutorOK, WokenBy
<1>2. front \in Seq(Sent) /\ Len(front) = f /\ \A i \in 1..f : front[i] = ready[i + s]
  <2>1. CASE s = 0
    BY <1>1, <2>1 DEF Rest
  <2>2. CASE s = 1
    BY <1>1, <2>2, HeadTailProperties DEF Rest
  <2> QED
    BY <2>1, <2>2
<1> HIDE DEF front
<1>3. f \in Nat /\ Len(front) = f
  BY <1>2, LenProperties
<1> HIDE DEF f
<1>4. /\ fw \in Seq(Sent) /\ Len(fw) = f + n
      /\ \A i \in 1..(f + n) : fw[i] = IF i <= f THEN front[i] ELSE w[i - f]
  <2>1. /\ fw \in Seq(Sent) /\ Len(fw) = Len(front) + Len(w)
        /\ \A i \in 1..(Len(front) + Len(w)) :
               fw[i] = IF i <= Len(front) THEN front[i] ELSE w[i - Len(front)]
    BY <1>1, <1>2, ConcatProperties
  <2> QED
    BY <1>1, <1>3, <2>1
<1> HIDE DEF fw
<1>5. /\ \A i \in 1..f : fw[i] = ready[i + s]
      /\ \A i \in (f + 1)..(f + n) : \E k \in 1..n : fw[i] = WaiterOf(k)
  <2>1. ASSUME NEW i \in 1..f
        PROVE  fw[i] = ready[i + s]
    BY <1>2, <1>3, <1>4
  <2>2. ASSUME NEW i \in (f + 1)..(f + n)
        PROVE  \E k \in 1..n : fw[i] = WaiterOf(k)
    <3>1. i \in 1..(f + n) /\ ~(i <= f) /\ i - f \in 1..n
      BY <1>3
    <3>2. fw[i] = w[i - f]
      BY <1>4, <3>1
    <3> QED
      BY <3>1, <3>2 DEF WokenBy
  <2> QED
    BY <2>1, <2>2
<1>6. CASE ready' = fw
  BY <1>3, <1>4, <1>5, <1>6, SMTT(30) DEF f
<1>7. CASE ready' = Append(fw, t)
  <2>0. /\ Len(Append(fw, t)) = Len(fw) + 1 /\ Append(fw, t)[Len(fw) + 1] = t
        /\ \A i \in 1..Len(fw) : Append(fw, t)[i] = fw[i]
    BY <1>4, AppendProperties
  <2>1. /\ Len(ready') = (f + n) + 1 /\ ready'[(f + n) + 1] = t
        /\ \A i \in 1..(f + n) : ready'[i] = fw[i]
    BY <1>4, <1>7, <2>0
  <2>2. ASSUME NEW i \in (f + 1)..((f + n) + 1)
        PROVE  ready'[i] = t \/ \E k \in 1..n : ready'[i] = WaiterOf(k)
    <3>1. CASE i = (f + n) + 1
      BY <2>1, <3>1
    <3>2. CASE i # (f + n) + 1
      <4>1. i \in (f + 1)..(f + n) /\ i \in 1..(f + n)
        BY <1>3, <3>2
      <4> QED
        BY <1>5, <2>1, <4>1
    <3> QED
      BY <3>1, <3>2
  <2>3. (f + n) + 1 >= f /\ \A i \in 1..f : i \in 1..(f + n)
    BY <1>3
  <2>4. \A i \in 1..f : ready'[i] = ready[i + s]
    BY <1>5, <2>1, <2>3
  <2> QED
    BY <2>1, <2>2, <2>3, <2>4 DEF f
<1> QED
  BY <1>6, <1>7 DEF fw, front

\* How the lock's queue changes: n waiters are served, and task t asks for a guard
\* or not.
LEMMA LockMoves ==
    ASSUME TypeOK, NEW t \in Sent, NEW l, l \in Locks(Guards(Sent)), NEW n, Served(lock, l, n),
           \/ lock' = l
           \/ \E g \in OwnGuards(t), mode \in Modes : lock' = Acquire(l, g, mode)
    PROVE  /\ n \in 0..Len(lock.queue)
           /\ Len(lock'.queue) \in {Len(lock.queue) - n, Len(lock.queue) - n + 1}
           /\ \A i \in 1..(Len(lock.queue) - n) : lock'.queue[i] = lock.queue[i + n]
           /\ Len(lock'.queue) = Len(lock.queue) - n + 1
                  => lock'.queue[Len(lock'.queue)].guard \in OwnGuards(t)
           /\ \A g : Holds(lock', g) => \/ Holds(lock, g) \/ g \in OwnGuards(t)
                                        \/ \E k \in 1..n : g = lock.queue[k].guard
<1> DEFINE m == Len(lock.queue) - n
<1>1. Len(lock.queue) \in Nat /\ n \in 0..Len(lock.queue) /\ Len(l.queue) = m /\ m \in Nat
  BY QueueTypes DEF Served
<1> HIDE DEF m
<1>2. /\ \A i \in 1..m : l.queue[i] = lock.queue[i + n]
      /\ \A g : Holds(l, g) => Holds(lock, g) \/ \E k \in 1..n : g = lock.queue[k].guard
  BY DEF Served, m
<1>3. CASE lock' = l
  BY <1>1, <1>2, <1>3 DEF m
<1>4. ASSUME NEW g \in OwnGuards(t), NEW mode \in Modes, lock' = Acquire(l, g, mode)
      PROVE  /\ Len(lock'.queue) \in {m, m + 1}
             /\ \A i \in 1..m : lock'.queue[i] = lock.queue[i + n]
             /\ Len(lock'.queue) = m + 1 => lock'.queue[m + 1].guard \in OwnGuards(t)
             /\ \A h : Holds(lock', h) => Holds(l, h) \/ h = g
  <2>1. CASE l.queue = <<>> /\ lock'.queue = <<>> /\ \A h : Holds(lock', h) => Holds(l, h) \/ h = g
    BY <1>1, <2>1
  <2>2. CASE /\ lock'.queue = Append(l.queue, [guard |-> g, mode |-> mode])
             /\ \A h : Holds(lock', h) <=> Holds(l, h)
    <3> DEFINE q == l.queue
               e == [guard |-> g, mode |-> mode]
    <3>1. q \in Seq(Waiters(Guards(Sent))) /\ e.guard = g
      BY DEF Locks, Waiters
    <3> HIDE DEF q, e
    <3>2. /\ Len(Append(q, e)) = Len(q) + 1 /\ Append(q, e)[Len(q) + 1] = e
          /\ \A i \in 1..Len(q) : Append(q, e)[i] = q[i]
      BY <3>1, AppendProperties
    <3>3. lock'.queue = Append(q, e) /\ Len(q) = m
      BY <1>1, <2>2 DEF q, e
    <3> QED
      BY <1>1, <1>2, <2>2, <3>1, <3>2, <3>3 DEF q
  <2> QED
    BY <1>4, <2>1, <2>2, AcquireQueues
<1>5. CASE \E g \in OwnGuards(t), mode \in Modes : lock' = Acquire(l, g, mode)
  <2>1. PICK g \in OwnGuards(t), mode \in Modes : lock' = Acquire(l, g, mode)
    BY <1>5
  <2>2. /\ Len(lock'.queue) \in {m, m + 1}
        /\ \A i \in 1..m : lock'.queue[i] = lock.queue[i + n]
        /\ Len(lock'.queue) = m + 1 => lock'.queue[m + 1].guard \in OwnGuards(t)
        /\ \A h : Holds(lock', h) => Holds(l, h) \/ h = g
    BY <1>4, <2>1
  <2> QED
    BY <1>1, <1>2, <2>2 DEF m
<1> QED
  BY <1>3, <1>5

LEMMA MovesOfStep ==
    ASSUME TypeOK, NEW t \in Sent, NEW label, Goto(t, label), inbox' = inbox,
           NEW n, NEW w, WokenBy(w, n),
           NEW s \in {0, 1}, s = 1 => ready # <<>> /\ Head(ready) = t,
           ready' = Rest(s) \o w \/ ready' = Append(Rest(s) \o w, t),
           NEW l, l \in Locks(Guards(Sent)), Served(lock, l, n),
           \/ lock' = l
           \/ \E g \in OwnGuards(t), mode \in Modes : lock' = Acquire(l, g, mode)
    PROVE  Moves(t, label, s, n)
<1>1. n \in Nat /\ Len(lock.queue) \in Nat
  BY QueueTypes DEF Served
<1>2. /\ Len(ready') >= Len(ready) - s
      /\ \A i \in 1..(Len(ready) - s) : ready'[i] = ready[i + s]
      /\ \A i \in (Len(ready) - s + 1)..Len(ready') :
             ready'[i] = t \/ \E k \in 1..n : ready'[i] = WaiterOf(k)
  <2>1. s = 1 => ready # <<>>
    OBVIOUS
  <2>2. n \in Nat
    BY <1>1 DEF Served
  <2> QED
    BY <2>1, <2>2, ReadyMoves, ZenonT(60)
<1>3. /\ n \in 0..Len(lock.queue)
      /\ Len(lock'.queue) \in {Len(lock.queue) - n, Len(lock.queue) - n + 1}
      /\ \A i \in 1..(Len(lock.queue) - n) : lock'.queue[i] = lock.queue[i + n]
      /\ Len(lock'.queue) = Len(lock.queue) - n + 1
             => lock'.queue[Len(lock'.queue)].guard \in OwnGuards(t)
      /\ \A g : Holds(lock', g) => \/ Holds(lock, g) \/ g \in OwnGuards(t)
                                   \/ \E k \in 1..n : g = lock.queue[k].guard
  BY LockMoves
<1> QED
  BY <1>2, <1>3 DEF Moves, Goto

StepMoves(t, label) == \E s \in {0, 1}, n \in Nat : Moves(t, label, s, n)

\* The task keeps its guards.
LEMMA KeepingMoves ==
    ASSUME TypeOK, NEW t \in Sent, NEW label, Goto(t, label), inbox' = inbox, UNCHANGED lock,
           \/ ready' \in {ready, Append(ready, t)}
           \/ /\ ready # <<>> /\ Head(ready) = t
              /\ ready' \in {Tail(ready), Append(Tail(ready) \o <<>>, t)}
    PROVE  StepMoves(t, label)
<1>1. lock \in Locks(Guards(Sent)) /\ Len(lock.queue) \in Nat /\ ready \in Seq(Sent)
  BY QueueTypes DEF TypeOK, WorldOK, ExecutorOK
<1>2. WokenBy(<<>>, 0) /\ Served(lock, lock, 0)
  BY <1>1, EmptySeq DEF WokenBy, Served
<1>3. CASE ready' \in {ready, Append(ready, t)}
  <2>1. Rest(0) = ready /\ Rest(0) \o <<>> = ready
    BY <1>1, ConcatEmptySeq DEF Rest
  <2>2. ready' = Rest(0) \o <<>> \/ ready' = Append(Rest(0) \o <<>>, t)
    BY <1>3, <2>1
  <2>3. Moves(t, label, 0, 0)
    BY <1>1, <1>2, <2>2, MovesOfStep
  <2> QED
    BY <2>3 DEF StepMoves
<1>4. CASE /\ ready # <<>> /\ Head(ready) = t
           /\ ready' \in {Tail(ready), Append(Tail(ready) \o <<>>, t)}
  <2>1. Tail(ready) \in Seq(Sent)
    BY <1>1, <1>4, HeadTailProperties
  <2>2. Rest(1) = Tail(ready) /\ Rest(1) \o <<>> = Tail(ready)
    BY <2>1, ConcatEmptySeq DEF Rest
  <2>3. ready' = Rest(1) \o <<>> \/ ready' = Append(Rest(1) \o <<>>, t)
    BY <1>4, <2>2
  <2>4. Moves(t, label, 1, 0)
    BY <1>1, <1>2, <1>4, <2>3, MovesOfStep
  <2> QED
    BY <2>4 DEF StepMoves
<1> QED
  BY <1>3, <1>4

\* Whoever a drop of the guard serves is woken.
LEMMA DropServes ==
    ASSUME IInv, NEW g \in Guards(Sent)
    PROVE  \E n \in Nat : /\ WokenBy(Woken(g), n) /\ Served(lock, Release(lock, g), n)
                          /\ Release(lock, g) \in Locks(Guards(Sent))
<1> DEFINE n == Len(lock.queue) - Len(Release(lock, g).queue)
<1>1. lock \in Locks(Guards(Sent)) /\ WellFormed(lock) /\ Len(lock.queue) \in Nat
  BY QueueTypes DEF IInv, TypeOK, WorldOK
<1>2. Served(lock, Release(lock, g), n) /\ Release(lock, g) \in Locks(Guards(Sent))
  BY <1>1, ReleaseServes, ReleaseKeepsLock
<1>3. Woken(g) = [i \in 1..n |-> lock.queue[i].guard.task]
  BY DEF Woken
<1> HIDE DEF n
<1>4. n \in Nat
  BY <1>1, <1>2 DEF Served
<1>5. WokenBy(Woken(g), n)
  <2>1. Woken(g) \in Seq(Sent)
    BY WokenTasks
  <2>2. DOMAIN Woken(g) = 1..n /\ \A k \in 1..n : Woken(g)[k] = WaiterOf(k)
    BY <1>3 DEF WaiterOf
  <2>3. Len(Woken(g)) = n
    BY <1>4, <2>1, <2>2, LenProperties
  <2> QED
    BY <2>1, <2>2, <2>3 DEF WokenBy
<1> QED
  BY <1>2, <1>4, <1>5

\* The task drops a guard.
LEMMA DroppingMoves ==
    ASSUME IInv, NEW t \in Sent, ready # <<>>, Head(ready) = t, NEW g \in Guards(Sent),
           NEW label, lock' = Release(lock, g), Goto(t, label), inbox' = inbox,
           \/ ready' = ready \o Woken(g)
           \/ ready' = Tail(ready) \o Woken(g)
           \/ ready' = Append(Tail(ready) \o Woken(g), t)
    PROVE  StepMoves(t, label)
<1>1. PICK n \in Nat : /\ WokenBy(Woken(g), n) /\ Served(lock, Release(lock, g), n)
                       /\ Release(lock, g) \in Locks(Guards(Sent))
  BY DropServes
<1>2. PICK s \in {0, 1} : ready' = Rest(s) \o Woken(g) \/ ready' = Append(Rest(s) \o Woken(g), t)
  BY DEF Rest
<1>3. TypeOK
  BY DEF IInv
<1>4. Moves(t, label, s, n)
  BY <1>1, <1>2, <1>3, MovesOfStep
<1> QED
  BY <1>4 DEF StepMoves

\* The task takes a guard, of the lock as it is or after it dropped one.
LEMMA TakingMoves ==
    ASSUME IInv, NEW t \in Sent, ready # <<>>, Head(ready) = t, NEW label, inbox' = inbox,
           NEW l, l \in Locks(Guards(Sent)), NEW n \in Nat, Served(lock, l, n),
           NEW w, WokenBy(w, n),
           NEW g \in OwnGuards(t), NEW mode \in Modes, TakeLock(l, w, t, g, mode, label)
    PROVE  StepMoves(t, label)
<1>1. lock' = Acquire(l, g, mode) /\ Goto(t, label)
  BY DEF TakeLock
<1>2. PICK s \in {0, 1} : ready' = Rest(s) \o w
  BY DEF TakeLock, Rest
<1>3. TypeOK
  BY DEF IInv
<1>4. \E h \in OwnGuards(t), m \in Modes : lock' = Acquire(l, h, m)
  BY <1>1
<1>5. Moves(t, label, s, n)
  BY <1>1, <1>2, <1>3, <1>4, MovesOfStep
<1> QED
  BY <1>5 DEF StepMoves

LEMMA ExchangingMoves ==
    ASSUME IInv, NEW t \in Sent, ready # <<>>, Head(ready) = t, NEW label, inbox' = inbox,
           NEW g \in OwnGuards(t), NEW h \in OwnGuards(t), NEW mode \in Modes,
           DropAndTake(t, g, h, mode, label)
    PROVE  StepMoves(t, label)
<1>1. g \in Guards(Sent)
  BY DEF OwnGuards, HandlerGuard, PublishGuard, Guards
<1>2. PICK n \in Nat : /\ WokenBy(Woken(g), n) /\ Served(lock, Release(lock, g), n)
                       /\ Release(lock, g) \in Locks(Guards(Sent))
  BY <1>1, DropServes
<1>3. TakeLock(Release(lock, g), Woken(g), t, h, mode, label)
  BY DEF DropAndTake
<1> QED
  BY <1>2, <1>3, TakingMoves

LEMMA TakingFirstMoves ==
    ASSUME IInv, NEW t \in Sent, ready # <<>>, Head(ready) = t, NEW label, inbox' = inbox,
           NEW g \in OwnGuards(t), NEW mode \in Modes, TakeLock(lock, <<>>, t, g, mode, label)
    PROVE  StepMoves(t, label)
<1>1. lock \in Locks(Guards(Sent)) /\ Len(lock.queue) \in Nat
  BY QueueTypes DEF IInv, TypeOK, WorldOK
<1>2. WokenBy(<<>>, 0) /\ Served(lock, lock, 0)
  BY <1>1, EmptySeq DEF WokenBy, Served
<1> QED
  BY <1>1, <1>2, TakingMoves
-------------------------------------------------------------------------------
(* Every step keeps the order.                                                 *)

\* The task goes on to a label past its body.
GoesOn(t) == \E label : label \notin Unserved /\ StepMoves(t, label)

\* The label of a step that is no first poll, and the label it leads to.
LEMMA RunningOn ==
    ASSUME IInv, NEW t \in Tasks, NEW label, label # "unborn", Runs(t, label)
    PROVE  /\ t \in Sent /\ ready # <<>> /\ Head(ready) = t /\ pc[t] # "unborn"
           /\ HandlerGuard(t) \in OwnGuards(t) /\ PublishGuard(t) \in OwnGuards(t)
           /\ OwnGuards(t) \subseteq Guards(Sent) /\ TypeOK
BY RunningTask DEF Runs, OwnGuards, HandlerGuard, PublishGuard, Guards, IInv

LEMMA FinishMoves ==
    ASSUME IInv, NEW t \in Tasks, NEW label, label # "unborn", Runs(t, label),
           NEW g \in OwnGuards(t), NEW next, next \notin Unserved, Goto(t, next), inbox' = inbox,
           lock' = Release(lock, g),
           \/ ready' = ready \o Woken(g)
           \/ ready' = Tail(ready) \o Woken(g)
           \/ ready' = Append(Tail(ready) \o Woken(g), t)
    PROVE  GoesOn(t)
<1>1. t \in Sent /\ ready # <<>> /\ Head(ready) = t /\ g \in Guards(Sent)
  BY RunningOn
<1>2. StepMoves(t, next)
  BY <1>1, DroppingMoves
<1> QED
  BY <1>2 DEF GoesOn

LEMMA SameGuardMoves ==
    ASSUME IInv, NEW t \in Tasks, NEW label, label # "unborn", Runs(t, label),
           NEW next, next \notin Unserved, Goto(t, next), inbox' = inbox, UNCHANGED lock,
           ready' \in {ready, Tail(ready), Append(Tail(ready) \o <<>>, t)}
    PROVE  GoesOn(t)
<1>1. t \in Sent /\ ready # <<>> /\ Head(ready) = t /\ TypeOK
  BY RunningOn
<1>2. StepMoves(t, next)
  BY <1>1, KeepingMoves
<1> QED
  BY <1>2 DEF GoesOn

LEMMA ReturnMoves ==
    ASSUME IInv, NEW t \in Tasks, NEW label, label # "unborn", Runs(t, label),
           ReturnFromPublish(t), inbox' = inbox
    PROVE  GoesOn(t)
<1>1. PublishGuard(t) \in OwnGuards(t)
  BY RunningOn
<1>2. CASE Kind(t) = "associate"
  BY <1>1, <1>2, FinishMoves DEF ReturnFromPublish, DropAndContinue, Unserved, Bodies
<1>3. CASE Kind(t) # "associate"
  BY <1>1, <1>3, FinishMoves DEF ReturnFromPublish, DropAndFinish, Unserved, Bodies
<1> QED
  BY <1>2, <1>3

LEMMA ExchangeMoves ==
    ASSUME IInv, NEW t \in Tasks, NEW label, label # "unborn", Runs(t, label), inbox' = inbox,
           NEW g \in OwnGuards(t), NEW h \in OwnGuards(t), NEW mode \in Modes,
           NEW next, next \notin Unserved, DropAndTake(t, g, h, mode, next)
    PROVE  GoesOn(t)
<1>1. t \in Sent /\ ready # <<>> /\ Head(ready) = t
  BY RunningOn
<1>2. StepMoves(t, next)
  BY <1>1, ExchangingMoves
<1> QED
  BY <1>2 DEF GoesOn

LEMMA FirstGuardMoves ==
    ASSUME IInv, NEW t \in Tasks, NEW label, label # "unborn", Runs(t, label), inbox' = inbox,
           NEW g \in OwnGuards(t), NEW mode \in Modes,
           NEW next, next \notin Unserved, TakeLock(lock, <<>>, t, g, mode, next)
    PROVE  GoesOn(t)
<1>1. t \in Sent /\ ready # <<>> /\ Head(ready) = t
  BY RunningOn
<1>2. StepMoves(t, next)
  BY <1>1, TakingFirstMoves
<1> QED
  BY <1>2 DEF GoesOn

\* A step of a task that is no first poll: it goes on, or it was at its body and
\* has done what that does.
LaterStep(t) ==
    /\ t \in Sent /\ ready # <<>> /\ Head(ready) = t /\ pc[t] # "unborn"
    /\ inbox' = inbox /\ GoesOn(t)

LEMMA PublishMoves ==
    ASSUME IInv, NEW t \in Tasks,
           \/ PublishSyntaxErrors(t) \/ PublishDomErrors(t)
           \/ ReadForSchema(t) \/ PublishSchemaErrors(t)
    PROVE  LaterStep(t)
<1>1. ASSUME NEW label \in PublishSections, NothingToPublish(t, label)
      PROVE  LaterStep(t)
  <2>1. Runs(t, label) /\ label # "unborn" /\ inbox' = inbox /\ ReturnFromPublish(t)
    BY <1>1 DEF NothingToPublish, PublishSections, client
  <2> QED
    BY <2>1, RunningOn, ReturnMoves DEF LaterStep
<1>2. ASSUME NEW label \in {"syntax", "dom"}, NEW next \in {"dom", "schema"},
             PublishStage(t, label, next)
      PROVE  LaterStep(t)
  <2>1. /\ Runs(t, label) /\ label # "unborn" /\ inbox' = inbox
        /\ \/ ReturnFromPublish(t)
           \/ DropAndTake(t, PublishGuard(t), PublishGuard(t), "read", next)
    BY <1>2 DEF PublishStage, client
  <2>2. /\ t \in Sent /\ ready # <<>> /\ Head(ready) = t /\ pc[t] # "unborn"
        /\ PublishGuard(t) \in OwnGuards(t) /\ "read" \in Modes /\ next \notin Unserved
    BY <2>1, RunningOn DEF Modes, Unserved, Bodies
  <2>3. GoesOn(t)
    BY <2>1, <2>2, ReturnMoves, ExchangeMoves
  <2> QED
    BY <2>1, <2>2, <2>3 DEF LaterStep
<1>3. CASE PublishSchemaErrors(t)
  <2>1. Runs(t, "validate") /\ inbox' = inbox /\ ReturnFromPublish(t)
    BY <1>3 DEF PublishSchemaErrors, client
  <2> QED
    BY <2>1, RunningOn, ReturnMoves DEF LaterStep
<1>4. CASE /\ Runs(t, "schema") /\ MaySuspend(t, "validate")
           /\ UNCHANGED <<client, lock, local, world, shown>>
  <2>1. inbox' = inbox /\ "validate" \notin Unserved /\ Goto(t, "validate")
    BY <1>4 DEF client, Unserved, Bodies, MaySuspend
  <2>2. GoesOn(t)
    BY <1>4, <2>1, SameGuardMoves DEF MaySuspend
  <2> QED
    BY <1>4, <2>1, <2>2, RunningOn DEF LaterStep
<1> QED
  BY <1>1, <1>2, <1>3, <1>4
     DEF PublishSyntaxErrors, PublishDomErrors, ReadForSchema, PublishSections

LEMMA DocumentMoves ==
    ASSUME IInv, NEW t \in Tasks,
           \/ StoreDocument(t) \/ DocumentClose(t) \/ ClearDiagnostics(t)
           \/ AnswerQuery(t) \/ ReplyToQuery(t)
    PROVE  LaterStep(t)
<1> USE DEF Unserved, Bodies, client
<1>1. CASE StoreDocument(t)
  <2>1. /\ Runs(t, "store") /\ inbox' = inbox
        /\ \/ DropAndTake(t, HandlerGuard(t), PublishGuard(t), "read", "syntax")
           \/ DropAndFinish(t, HandlerGuard(t))
    BY <1>1 DEF StoreDocument
  <2>2. /\ t \in Sent /\ ready # <<>> /\ Head(ready) = t /\ pc[t] # "unborn"
        /\ HandlerGuard(t) \in OwnGuards(t) /\ PublishGuard(t) \in OwnGuards(t)
        /\ "read" \in Modes
    BY <2>1, RunningOn DEF Modes
  <2>3. CASE DropAndTake(t, HandlerGuard(t), PublishGuard(t), "read", "syntax")
    BY <2>1, <2>2, <2>3, ExchangeMoves DEF LaterStep
  <2>4. CASE DropAndFinish(t, HandlerGuard(t))
    BY <2>1, <2>2, <2>4, FinishMoves DEF LaterStep, DropAndFinish
  <2> QED
    BY <2>1, <2>3, <2>4
<1>2. CASE DocumentClose(t)
  BY <1>2, RunningOn, FinishMoves DEF DocumentClose, SpawnAndFinish, Goto, LaterStep
<1>3. CASE ClearDiagnostics(t)
  BY <1>3, RunningOn, SameGuardMoves DEF ClearDiagnostics, Suspend, LaterStep
<1>4. CASE AnswerQuery(t)
  BY <1>4, RunningOn, SameGuardMoves DEF AnswerQuery, MaySuspend, LaterStep
<1>5. CASE ReplyToQuery(t)
  BY <1>5, RunningOn, FinishMoves DEF ReplyToQuery, DropAndFinish, LaterStep
<1> QED
  BY <1>1, <1>2, <1>3, <1>4, <1>5

LEMMA WorkspaceMoves ==
    ASSUME IInv, NEW t \in Tasks,
           \/ ConfigurationChange(t) \/ ConfigurationDone(t)
           \/ UpdateConfiguration(t) \/ RequestConfiguration(t) \/ HandleResponse(t)
           \/ InitializeWorkspace(t, "initialize") \/ InitializeWorkspace(t, "initialize_added")
           \/ WorkspaceChange(t) \/ WorkspaceChangeDone(t)
    PROVE  LaterStep(t)
<1> USE DEF Unserved, Bodies, client, LaterStep, Modes
<1>1. CASE ConfigurationChange(t)
  BY <1>1, RunningOn, SameGuardMoves DEF ConfigurationChange, Continue
<1>2. CASE ConfigurationDone(t)
  BY <1>2, RunningOn, FinishMoves DEF ConfigurationDone, DropAndFinish
<1>3. CASE UpdateConfiguration(t)
  BY <1>3, RunningOn, FirstGuardMoves DEF UpdateConfiguration
<1>4. CASE RequestConfiguration(t)
  BY <1>4, RunningOn, SameGuardMoves DEF RequestConfiguration, Suspend
<1>5. CASE HandleResponse(t)
  BY <1>5, RunningOn, SameGuardMoves DEF HandleResponse, SpawnAndFinish
<1>6. CASE InitializeWorkspace(t, "initialize") \/ InitializeWorkspace(t, "initialize_added")
  BY <1>6, RunningOn, SameGuardMoves DEF InitializeWorkspace, MaySuspend
<1>7. CASE WorkspaceChange(t)
  BY <1>7, RunningOn, SameGuardMoves DEF WorkspaceChange, Continue
<1>8. CASE WorkspaceChangeDone(t)
  BY <1>8, RunningOn, ExchangeMoves DEF WorkspaceChangeDone
<1> QED
  BY <1>1, <1>2, <1>3, <1>4, <1>5, <1>6, <1>7, <1>8

LEMMA AssociateMoves ==
    ASSUME IInv, NEW t \in Tasks,
           \/ AssociateSchema(t) \/ AssociateInWorkspace(t) \/ AssociateSchemaDone(t)
           \/ AssociatePattern(t)
    PROVE  LaterStep(t)
<1> USE DEF Unserved, Bodies, client, LaterStep, Modes
<1>1. CASE AssociateSchema(t)
  BY <1>1, RunningOn, SameGuardMoves DEF AssociateSchema, Continue
<1>2. CASE AssociateInWorkspace(t)
  BY <1>2, RunningOn, FirstGuardMoves DEF AssociateInWorkspace
<1>3. CASE AssociateSchemaDone(t)
  BY <1>3, RunningOn, FinishMoves DEF AssociateSchemaDone, DropAndFinish
<1>4. CASE AssociatePattern(t)
  BY <1>4, RunningOn, FinishMoves DEF AssociatePattern, DropAndFinish
<1> QED
  BY <1>1, <1>2, <1>3, <1>4

LEMMA RunMoves ==
    ASSUME IInv, NEW t \in Tasks, Run(t), ~FirstPoll(t)
    PROVE  LaterStep(t)
BY PublishMoves, DocumentMoves, WorkspaceMoves, AssociateMoves
   DEF Run, DocumentOpen, DocumentChange

LEMMA LaterStepOrder ==
    ASSUME IInv, IInv', OrderInv, NEW t \in Tasks, LaterStep(t)
    PROVE  OrderInv'
<1>1. PICK label : label \notin Unserved /\ StepMoves(t, label)
  BY DEF LaterStep, GoesOn
<1>2. PICK s \in {0, 1}, n \in Nat : Moves(t, label, s, n)
  BY <1>1 DEF StepMoves
<1>3. ready \in Seq(Sent) /\ ready # <<>> /\ Head(ready) = t
  BY DEF LaterStep, IInv, TypeOK, ExecutorOK
<1>4. 1 \in 1..Len(ready) /\ ready[1] = t
  BY <1>3
<1>5. ~WaitsAtBody(t)
  BY <1>4 DEF OrderInv, QueueOrder, ReadyWaitForNothing
<1> QED
  BY <1>1, <1>2, <1>5, LaterStepKeepsOrder DEF LaterStep

\* A task that is woken by a file, or by the answer of the client, is polled
\* behind the others.
LEMMA WakingOrder ==
    ASSUME IInv, IInv', OrderInv, NEW t \in Tasks, InputOutputDone(t) \/ ClientAnswers(t)
    PROVE  OrderInv'
<1> DEFINE label == IF InputOutputDone(t) THEN pc[t] ELSE "response"
<1>1. /\ label \notin Unserved /\ pc[t] \notin Unserved
      /\ Goto(t, label) /\ ready' = Append(ready, t) /\ inbox' = inbox /\ UNCHANGED lock
  <2>1. CASE InputOutputDone(t)
    BY <2>1 DEF InputOutputDone, InputOutput, Goto, client, Unserved, Bodies, IInv, TypeOK,
                ExecutorOK
  <2>2. CASE ClientAnswers(t) /\ ~InputOutputDone(t)
    BY <2>2 DEF ClientAnswers, client, Unserved, Bodies
  <2> QED
    BY <2>1, <2>2
<1> HIDE DEF label
<1>2. t \in Sent /\ pc[t] # "unborn" /\ ~WaitsAtBody(t) /\ TypeOK
  BY <1>1 DEF IInv, KindsOfSections, SectionKind, Unserved, WaitsAtBody
<1>3. StepMoves(t, label)
  BY <1>1, <1>2, KeepingMoves
<1>4. PICK s \in {0, 1}, n \in Nat : Moves(t, label, s, n)
  BY <1>3 DEF StepMoves
<1> QED
  BY <1>1, <1>2, <1>4, LaterStepKeepsOrder

\* The first poll of a handler: it gets the lock, when nobody waits, or waits
\* behind those who came before.
LEMMA FirstPollQueues ==
    ASSUME IInv, OrderInv, NEW t \in Tasks, FirstPoll(t), Kind(t) # "initialized"
    PROVE  /\ t \in Sent /\ pc[t] = "unborn" /\ ready # <<>> /\ Head(ready) = t /\ inbox' = inbox
           /\ Kind(t) \in Kinds \ {"initialized"}
           /\ HandlerLock[Kind(t)] \in Modes /\ HandlerBody[Kind(t)] \in Bodies
           /\ Goto(t, HandlerBody[Kind(t)])
           /\ \E s \in {0, 1} : Moves(t, HandlerBody[Kind(t)], s, 0)
           /\ \/ lock.queue = <<>> /\ lock'.queue = <<>>
              \/ /\ ready' = Tail(ready)
                 /\ lock'.queue =
                        Append(lock.queue, [guard |-> HandlerGuard(t), mode |-> HandlerLock[Kind(t)]])
           /\ \A g : Holds(lock', g) => Holds(lock, g) \/ g = HandlerGuard(t)
<1> DEFINE g == HandlerGuard(t)
           mode == HandlerLock[Kind(t)]
           body == HandlerBody[Kind(t)]
<1>1. Runs(t, "unborn") /\ TakeLock(lock, <<>>, t, g, mode, body) /\ inbox' = inbox
  BY DEF FirstPoll, client
<1>2. /\ t \in Sent /\ pc[t] = "unborn" /\ ready # <<>> /\ Head(ready) = t
      /\ ready \in Seq(Sent) /\ Tail(ready) \in Seq(Sent) /\ TypeOK
  BY <1>1, RunningTask DEF Runs, IInv, TypeOK, ExecutorOK
<1>3. Kind(t) \in Kinds \ {"initialized"}
  BY <1>2, MessageFields, ElementOfSeq DEF IInv, TypeOK, ClientOK, Kind, Sent
<1>4. mode \in Modes /\ body \in Bodies
  BY <1>3 DEF Kinds, HandlerLock, HandlerBody, Modes, Bodies
<1>5. g \in OwnGuards(t) /\ lock \in Locks(Guards(Sent)) /\ Len(lock.queue) \in Nat
  BY <1>2, QueueTypes DEF OwnGuards, IInv, TypeOK, WorldOK
<1>6. ~Holds(lock, g)
  BY <1>2 DEF OrderInv, QueueOrder, UnbornHoldNothing
<1>7. lock' = Acquire(lock, g, mode) /\ Goto(t, body)
  BY <1>1 DEF TakeLock
<1>8. \/ lock.queue = <<>> /\ lock'.queue = <<>> /\ Holds(lock', g)
      \/ ~Holds(lock', g) /\ lock'.queue = Append(lock.queue, [guard |-> g, mode |-> mode])
  BY <1>4, <1>5, <1>6, <1>7, AcquireQueues
<1>9. \A h : Holds(lock', h) => Holds(lock, h) \/ h = g
  BY <1>4, <1>5, <1>7, AcquireQueues
<1>10. ready' = IF Holds(lock', g) THEN ready ELSE Tail(ready)
  BY <1>1, <1>2, ConcatEmptySeq DEF TakeLock
<1>11. PICK s \in {0, 1} : ready' = Rest(s) /\ Rest(s) \o <<>> = Rest(s)
  BY <1>2, <1>10, ConcatEmptySeq DEF Rest
<1>12. WokenBy(<<>>, 0) /\ Served(lock, lock, 0)
  BY <1>5, EmptySeq DEF WokenBy, Served
<1>13. \E h \in OwnGuards(t), m \in Modes : lock' = Acquire(lock, h, m)
  BY <1>4, <1>5, <1>7
<1> HIDE DEF g, mode, body
<1>14. ready' = Rest(s) \o <<>>
  BY <1>11
<1>15. Moves(t, body, s, 0)
  BY <1>1, <1>2, <1>5, <1>7, <1>12, <1>13, <1>14, MovesOfStep
<1> USE DEF g, mode, body
<1> QED
  BY <1>1, <1>2, <1>3, <1>4, <1>7, <1>8, <1>9, <1>10, <1>15

LEMMA FirstPollOrder ==
    ASSUME IInv, IInv', OrderInv, NEW t \in Tasks, FirstPoll(t)
    PROVE  OrderInv'
<1>1. CASE Kind(t) = "initialized"
  <2>1. /\ Runs(t, "unborn") /\ Goto(t, "update") /\ inbox' = inbox /\ UNCHANGED lock
        /\ ready' = Append(Tail(ready) \o <<>>, t)
    BY <1>1 DEF FirstPoll, SpawnAndFinish, client
  <2>2. t \in Sent /\ ready # <<>> /\ Head(ready) = t /\ TypeOK /\ pc[t] = "unborn"
    BY <2>1, RunningTask DEF Runs, IInv
  <2>3. StepMoves(t, "update")
    BY <2>1, <2>2, KeepingMoves
  <2>4. PICK s \in {0, 1}, n \in Nat : Moves(t, "update", s, n)
    BY <2>3 DEF StepMoves
  <2>5. "update" \notin Unserved /\ ~WaitsAtBody(t)
    BY <2>2 DEF Unserved, Bodies, WaitsAtBody
  <2> QED
    BY <1>1, <2>2, <2>4, <2>5, LaterStepKeepsOrder
<1>2. CASE Kind(t) # "initialized"
  <2> DEFINE body == HandlerBody[Kind(t)]
             w == [guard |-> HandlerGuard(t), mode |-> HandlerLock[Kind(t)]]
  <2>1. /\ t \in Sent /\ pc[t] = "unborn" /\ ready # <<>> /\ Head(ready) = t
        /\ inbox' = inbox /\ body \in Bodies
        /\ \/ lock.queue = <<>> /\ lock'.queue = <<>>
           \/ ready' = Tail(ready) /\ lock'.queue = Append(lock.queue, w)
        /\ \A g : Holds(lock', g) => Holds(lock, g) \/ g = HandlerGuard(t)
    BY <1>2, FirstPollQueues
  <2>2. PICK s \in {0, 1} : Moves(t, body, s, 0)
    BY <1>2, FirstPollQueues
  <2>3. w.guard = HandlerGuard(t) /\ w.guard.task = t
    BY DEF HandlerGuard
  <2> HIDE DEF w
  <2>4. TypeOK /\ TypeOK' /\ body # "unborn"
    BY <2>1 DEF IInv, Bodies
  <2>5. BodiesOfKinds'
    BY <1>2, <2>1, <2>2, <2>4, BodiesKept DEF OrderInv
  <2> HIDE DEF body
  <2>6. SpawnOrder'
    BY <2>1, <2>2, <2>4, SpawnOrderKept DEF OrderInv, QueueOrder
  <2>7. /\ pc'[t] = body /\ \A u \in Sent : u # t => pc'[u] = pc[u]
        /\ Sent' = Sent /\ \A u : Kind(u)' = Kind(u)
    BY <2>1, <2>2, <2>4, OthersStay
  <2>8. /\ Sent \subseteq Nat /\ Len(lock.queue) \in Nat
        /\ \A i \in 1..Len(lock.queue) : WaiterOf(i) \in Sent
        /\ ready \in Seq(Sent)
    BY <2>4, QueueTypes DEF TypeOK, ExecutorOK
  <2>9. ASSUME NEW i \in 1..Len(lock'.queue)
        PROVE  \/ /\ i \in 1..Len(lock.queue) /\ lock'.queue[i] = lock.queue[i]
                  /\ WaiterOf(i)' = WaiterOf(i) /\ WaiterOf(i) # t
                  /\ pc'[WaiterOf(i)] = pc[WaiterOf(i)] /\ pc[WaiterOf(i)] # "unborn"
               \/ i = Len(lock.queue) + 1 /\ lock'.queue[i] = w /\ WaiterOf(i)' = t
    <3>1. lock'.queue = Append(lock.queue, w)
      BY <2>1, <2>9
    <3>2. lock.queue \in Seq(Waiters(Guards(Sent)))
      BY <2>4 DEF TypeOK, WorldOK, Locks, Waiters
    <3>3. /\ Len(lock'.queue) = Len(lock.queue) + 1 /\ lock'.queue[Len(lock.queue) + 1] = w
          /\ \A k \in 1..Len(lock.queue) : lock'.queue[k] = lock.queue[k]
      BY <3>1, <3>2, AppendProperties
    <3>4. CASE i = Len(lock.queue) + 1
      BY <2>3, <3>3, <3>4 DEF WaiterOf
    <3>5. CASE i # Len(lock.queue) + 1
      <4>1. i \in 1..Len(lock.queue) /\ lock'.queue[i] = lock.queue[i] /\ WaiterOf(i)' = WaiterOf(i)
        BY <2>8, <3>3, <3>5 DEF WaiterOf
      <4>2. pc[WaiterOf(i)] # "unborn" /\ WaiterOf(i) \in Sent
        BY <2>8, <4>1 DEF OrderInv, QueueOrder, WaitersAreHandlers
      <4> QED
        BY <2>1, <2>7, <4>1, <4>2
    <3> QED
      BY <3>4, <3>5
  <2>10. WaitersAreHandlers'
    <3>1. SUFFICES ASSUME NEW i \in 1..Len(lock'.queue)
                   PROVE  /\ pc'[WaiterOf(i)'] # "unborn"
                          /\ pc'[WaiterOf(i)'] \in Bodies
                                 => lock'.queue[i].guard = HandlerGuard(WaiterOf(i)')
      BY DEF WaitersAreHandlers, HandlerGuard
    <3>2. CASE WaiterOf(i)' = t /\ lock'.queue[i] = w
      BY <2>3, <2>4, <2>7, <3>2
    <3>3. CASE ~(WaiterOf(i)' = t /\ lock'.queue[i] = w)
      BY <2>9, <3>1, <3>3 DEF OrderInv, QueueOrder, WaitersAreHandlers
    <3> QED
      BY <3>2, <3>3
  <2>11. \A x \in Sent : pc[x] # "unborn" => x < t
    <3>1. SUFFICES ASSUME NEW x \in Sent, pc[x] # "unborn" PROVE x < t
      OBVIOUS
    <3>2. x # t /\ ~(t < x)
      BY <2>1, <3>1 DEF OrderInv, SpawnOrder, PolledInOrder
    <3>3. x \in Nat /\ t \in Nat
      BY <2>1, <2>8
    <3> QED
      BY <3>2, <3>3
  <2>12. WaitersInOrder'
    <3>1. SUFFICES ASSUME NEW i \in 1..Len(lock'.queue), NEW j \in 1..Len(lock'.queue), i < j,
                          pc'[WaiterOf(i)'] \in Bodies, pc'[WaiterOf(j)'] \in Bodies
                   PROVE  WaiterOf(i)' < WaiterOf(j)'
      BY DEF WaitersInOrder
    <3>2. i \in 1..Len(lock.queue)
      <4>1. CASE i = Len(lock.queue) + 1
        <5>1. j \in 1..Len(lock.queue) \/ j = Len(lock.queue) + 1
          BY <2>9
        <5> QED
          BY <2>8, <3>1, <4>1, <5>1
      <4> QED
        BY <2>9, <4>1
    <3>3. /\ i # Len(lock.queue) + 1 /\ WaiterOf(i)' = WaiterOf(i) /\ WaiterOf(i) \in Sent
          /\ pc[WaiterOf(i)] # "unborn" /\ pc[WaiterOf(i)] \in Bodies
      <4>1. i # Len(lock.queue) + 1
        BY <2>8, <3>2
      <4>2. /\ WaiterOf(i)' = WaiterOf(i) /\ pc'[WaiterOf(i)] = pc[WaiterOf(i)]
            /\ pc[WaiterOf(i)] # "unborn"
        BY <2>9, <4>1
      <4> QED
        BY <2>8, <3>1, <3>2, <4>1, <4>2
    <3>4. CASE j = Len(lock.queue) + 1
      <4>1. WaiterOf(j)' = t
        <5>1. j \notin 1..Len(lock.queue)
          BY <2>8, <3>4
        <5> QED
          BY <2>9, <5>1
      <4> QED
        BY <2>11, <3>3, <4>1
    <3>5. CASE j # Len(lock.queue) + 1
      <4>1. /\ j \in 1..Len(lock.queue) /\ WaiterOf(j)' = WaiterOf(j)
            /\ pc'[WaiterOf(j)] = pc[WaiterOf(j)]
        BY <2>9, <3>5
      <4> QED
        BY <3>1, <3>2, <3>3, <4>1 DEF OrderInv, QueueOrder, WaitersInOrder
    <3> QED
      BY <3>4, <3>5
  <2>13. ReadyWaitForNothing'
    <3>1. SUFFICES ASSUME NEW i \in 1..Len(ready'), pc'[ready'[i]] \in Bodies,
                          NEW q \in 1..Len(lock'.queue),
                          lock'.queue[q].guard = HandlerGuard(ready'[i])
                   PROVE  FALSE
      BY DEF ReadyWaitForNothing, WaitsAtBody, Waits, HandlerGuard
    <3> DEFINE x == ready'[i]
    <3>2. lock.queue # <<>> \/ lock'.queue # <<>>
      BY <3>1
    <3>3. ready' = Tail(ready) /\ lock'.queue = Append(lock.queue, w)
      <4>1. CASE lock'.queue = <<>>
        BY <3>1, <4>1
      <4> QED
        BY <2>1, <4>1
    <3>4. i + 1 \in 1..Len(ready) /\ x = ready[i + 1] /\ ready[1] = t /\ 1 \in 1..Len(ready)
          /\ 1 < i + 1
      BY <2>1, <2>8, <3>3, HeadTailProperties
    <3>5. x \in Sent
      BY <2>8, <3>4, ElementOfSeq
    <3>6. CASE x = t
      <4>1. ready[1] < ready[i + 1]
        BY <2>1, <3>4, <3>6 DEF OrderInv, SpawnOrder, UnbornInOrder
      <4>2. ready[1] = t /\ ready[i + 1] = t /\ t \in Nat
        BY <2>1, <2>8, <3>4, <3>6
      <4> QED
        BY <4>1, <4>2
    <3>7. CASE x # t
      <4>1. WaiterOf(q)' = x
        BY <3>1 DEF WaiterOf, HandlerGuard
      <4>2. q \in 1..Len(lock.queue) /\ lock.queue[q].guard = HandlerGuard(x)
        BY <2>9, <3>1, <3>7, <4>1
      <4>3. pc[x] \in Bodies
        BY <2>7, <3>1, <3>5, <3>7
      <4> QED
        BY <3>4, <4>2, <4>3 DEF OrderInv, QueueOrder, ReadyWaitForNothing, WaitsAtBody, Waits
    <3> QED
      BY <3>6, <3>7
  <2>14. UnbornHoldNothing'
    <3>1. SUFFICES ASSUME NEW u \in Sent, pc'[u] = "unborn", Holds(lock', HandlerGuard(u))
                   PROVE  FALSE
      BY <2>7 DEF UnbornHoldNothing, HandlerGuard
    <3>2. u # t /\ pc[u] = "unborn" /\ HandlerGuard(u) # HandlerGuard(t)
      BY <2>4, <2>7, <3>1 DEF HandlerGuard
    <3> QED
      BY <2>1, <3>1, <3>2 DEF OrderInv, QueueOrder, UnbornHoldNothing
  <2>15. ServedFirst'
    <3>1. SUFFICES ASSUME NEW x \in Sent, NEW y \in Sent, Kind(x) # "initialized",
                          ~Behind(x)', Behind(y)'
                   PROVE  x < y
      BY <2>7 DEF ServedFirst
    <3>2. CASE x = t
      <4>1. \A q \in 1..Len(lock'.queue) : lock'.queue[q].guard # HandlerGuard(t)
        BY <2>1, <2>7, <3>1, <3>2 DEF Behind, WaitsAtBody, Waits, HandlerGuard
      <4>2. lock'.queue = <<>>
        <5>1. CASE lock'.queue = Append(lock.queue, w)
          <6> DEFINE L == Len(lock.queue) + 1
          <6>1. lock.queue \in Seq(Waiters(Guards(Sent)))
            BY <2>4 DEF TypeOK, WorldOK, Locks, Waiters
          <6>2. L \in 1..Len(lock'.queue) /\ lock'.queue[L] = w
            BY <2>8, <5>1, <6>1, AppendProperties
          <6> QED
            BY <2>3, <4>1, <6>2
        <5> QED
          BY <2>1, <5>1
      <4>3. pc'[y] = "unborn"
        BY <3>1, <4>2 DEF Behind, WaitsAtBody, Waits
      <4>4. y # t /\ pc[y] = "unborn"
        BY <2>4, <2>7, <4>3
      <4>5. PICK i \in 1..Len(ready) : ready[i] = y
        BY <4>4 DEF OrderInv, SpawnOrder, UnbornAreReady
      <4>6. ready[1] = t /\ 1 \in 1..Len(ready) /\ 1 < i
        BY <2>1, <2>8, <4>4, <4>5
      <4> QED
        BY <2>1, <3>2, <4>4, <4>5, <4>6 DEF OrderInv, SpawnOrder, UnbornInOrder
    <3>3. CASE x # t
      <4>1. pc'[x] = pc[x] /\ pc[x] # "unborn" /\ ~WaitsAtBody(x)'
        BY <2>7, <3>1, <3>3 DEF Behind
      <4>2. ~WaitsAtBody(x)
        <5>1. ASSUME NEW q \in 1..Len(lock.queue), lock.queue[q].guard = HandlerGuard(x)
              PROVE  q \in 1..Len(lock'.queue) /\ lock'.queue[q] = lock.queue[q]
          <6>1. lock.queue \in Seq(Waiters(Guards(Sent)))
            BY <2>4 DEF TypeOK, WorldOK, Locks, Waiters
          <6>2. lock.queue # <<>>
            BY <5>1
          <6>3. lock'.queue = Append(lock.queue, w)
            BY <2>1, <6>2
          <6> QED
            BY <2>8, <6>1, <6>3, AppendProperties
        <5> QED
          BY <4>1, <5>1 DEF WaitsAtBody, Waits, HandlerGuard
      <4>3. CASE y = t
        BY <2>11, <4>1, <4>3
      <4>4. CASE y # t
        <5>1. Behind(y)
          <6>1. CASE pc'[y] = "unborn"
            BY <2>7, <4>4, <6>1 DEF Behind
          <6>2. CASE pc'[y] # "unborn"
            <7>1. PICK q \in 1..Len(lock'.queue) : lock'.queue[q].guard = HandlerGuard(y)
              BY <3>1, <6>2 DEF Behind, WaitsAtBody, Waits, HandlerGuard
            <7>2. WaiterOf(q)' = y
              BY <7>1 DEF WaiterOf, HandlerGuard
            <7>3. q \in 1..Len(lock.queue) /\ lock.queue[q].guard = HandlerGuard(y)
              BY <2>9, <4>4, <7>1, <7>2
            <7> QED
              BY <2>7, <3>1, <4>4, <6>2, <7>3 DEF Behind, WaitsAtBody, Waits
          <6> QED
            BY <6>1, <6>2
        <5>2. ~Behind(x)
          BY <4>1, <4>2 DEF Behind
        <5> QED
          BY <3>1, <5>1, <5>2 DEF OrderInv, ServedFirst
      <4> QED
        BY <4>3, <4>4
    <3> QED
      BY <3>2, <3>3
  <2> QED
    BY <2>5, <2>6, <2>10, <2>12, <2>13, <2>14, <2>15 DEF OrderInv, QueueOrder
<1> QED
  BY <1>1, <1>2

\* A message is sent: its task is the last, and nobody polled it yet.
LEMMA ClientSendsOrder ==
    ASSUME IInv, IInv', OrderInv, ClientSends
    PROVE  OrderInv'
<1> DEFINE new == Len(inbox) + 1
<1>1. /\ Len(inbox) \in Nat /\ Sent = 1..Len(inbox) /\ Sent \subseteq Nat
      /\ ready \in Seq(Sent) /\ Len(ready) \in Nat
      /\ \A i \in 1..Len(lock.queue) :
             WaiterOf(i) \in Sent /\ lock.queue[i] \in Waiters(Guards(Sent))
  BY QueueTypes DEF IInv, TypeOK, ExecutorOK, Sent
<1>2. /\ ready' = Append(ready, new) /\ \E m : inbox' = Append(inbox, m)
      /\ UNCHANGED <<pc, lock>>
  BY DEF ClientSends, OpenDocument, EditDocument, CloseDocument, AskAboutDocument, SelectSchema,
         ChangeFolders, SendPlain, Send, NextMessage
<1>3. /\ Sent' = 1..new /\ new \notin Sent /\ new \in Nat /\ \A t \in Sent : t < new
      /\ \A t \in Sent : Kind(t)' = Kind(t)
  <2>1. PICK m : inbox' = Append(inbox, m)
    BY <1>2
  <2>2. inbox \in Seq(Messages) /\ inbox' \in Seq(Messages)
    BY DEF IInv, TypeOK, ClientOK
  <2>3. Len(inbox') = new /\ \A t \in 1..Len(inbox) : inbox'[t] = inbox[t]
    BY <2>1, <2>2
  <2> QED
    BY <1>1, <2>3 DEF Sent, Kind
<1>4. pc[new] = "unborn"
  <2>1. new \in Tasks
    BY <1>1, <1>3, SentAreTasks DEF IInv, TypeOK, ClientOK, Sent, Tasks
  <2> QED
    BY <1>3, <2>1 DEF IInv, KindsOfSections, SectionKind
<1>5. /\ Len(ready') = Len(ready) + 1 /\ ready'[Len(ready) + 1] = new
      /\ \A i \in 1..Len(ready) : ready'[i] = ready[i] /\ ready[i] \in Sent
  BY <1>1, <1>2, AppendProperties, ElementOfSeq
<1>6. \A t : t \in Sent' <=> t \in Sent \/ t = new
  BY <1>1, <1>3
<1> HIDE DEF new
<1>7. BodiesOfKinds'
  BY <1>2, <1>3, <1>4, <1>6 DEF OrderInv, BodiesOfKinds, Bodies
<1>8. UnbornAreReady'
  <2>1. SUFFICES ASSUME NEW t \in Sent', pc[t] = "unborn"
                 PROVE  \E i \in 1..Len(ready') : ready'[i] = t
    BY <1>2 DEF UnbornAreReady
  <2>2. CASE t = new
    BY <1>1, <1>5, <2>2
  <2>3. CASE t \in Sent
    <3>1. PICK i \in 1..Len(ready) : ready[i] = t
      BY <2>1, <2>3 DEF OrderInv, SpawnOrder, UnbornAreReady
    <3>2. i \in 1..Len(ready') /\ ready'[i] = t
      BY <1>1, <1>5, <3>1
    <3> QED
      BY <3>2
  <2> QED
    BY <1>6, <2>2, <2>3
<1>9. UnbornInOrder'
  <2>1. SUFFICES ASSUME NEW i \in 1..Len(ready'), NEW j \in 1..Len(ready'), i < j,
                        pc[ready'[i]] = "unborn", pc[ready'[j]] = "unborn"
                 PROVE  ready'[i] < ready'[j]
    BY <1>2 DEF UnbornInOrder
  <2>2. i \in 1..Len(ready) /\ ready'[i] = ready[i] /\ ready[i] \in Sent
    BY <1>1, <1>5, <2>1
  <2>3. CASE j = Len(ready) + 1
    BY <1>3, <1>5, <2>2, <2>3
  <2>4. CASE j # Len(ready) + 1
    <3>1. j \in 1..Len(ready) /\ ready'[j] = ready[j]
      BY <1>1, <1>5, <2>4
    <3> QED
      BY <2>1, <2>2, <3>1 DEF OrderInv, SpawnOrder, UnbornInOrder
  <2> QED
    BY <2>3, <2>4
<1>10. PolledInOrder'
  <2>1. SUFFICES ASSUME NEW t \in Sent', NEW u \in Sent', t < u, pc[t] = "unborn"
                 PROVE  pc[u] = "unborn"
    BY <1>2 DEF PolledInOrder
  <2>2. CASE u = new
    BY <1>4, <2>2
  <2>3. CASE u # new
    <3>1. u \in Sent /\ t \in Sent
      <4>1. u \in Sent /\ u < new /\ new \in Nat /\ u \in Nat
        BY <1>1, <1>3, <1>6, <2>3
      <4>2. t # new
        BY <2>1, <4>1
      <4> QED
        BY <1>6, <4>1, <4>2
    <3> QED
      BY <2>1, <3>1 DEF OrderInv, SpawnOrder, PolledInOrder
  <2> QED
    BY <2>2, <2>3
<1>11. WaitersAreHandlers' /\ WaitersInOrder'
  BY <1>2 DEF OrderInv, QueueOrder, WaitersAreHandlers, WaitersInOrder, WaiterOf, HandlerGuard
<1>12. ReadyWaitForNothing'
  <2>1. SUFFICES ASSUME NEW i \in 1..Len(ready'), WaitsAtBody(ready'[i])
                 PROVE  FALSE
    BY <1>2 DEF ReadyWaitForNothing, WaitsAtBody, Waits, HandlerGuard
  <2>2. CASE i = Len(ready) + 1
    BY <1>4, <1>5, <2>1, <2>2 DEF WaitsAtBody, Bodies
  <2>3. CASE i # Len(ready) + 1
    <3>1. i \in 1..Len(ready) /\ ready'[i] = ready[i]
      BY <1>1, <1>5, <2>3
    <3> QED
      BY <2>1, <3>1 DEF OrderInv, QueueOrder, ReadyWaitForNothing
  <2> QED
    BY <2>2, <2>3
<1>13. UnbornHoldNothing'
  <2>1. SUFFICES ASSUME NEW t \in Sent', pc[t] = "unborn", Holds(lock, HandlerGuard(t))
                 PROVE  FALSE
    BY <1>2 DEF UnbornHoldNothing, HandlerGuard
  <2>2. HandlerGuard(t) \in Guards(Sent)
    BY <2>1 DEF Holds, IInv, TypeOK, WorldOK, Locks
  <2>3. t \in Sent
    BY <2>2 DEF HandlerGuard, Guards
  <2> QED
    BY <2>1, <2>3 DEF OrderInv, QueueOrder, UnbornHoldNothing
<1>14. ServedFirst'
  <2>1. SUFFICES ASSUME NEW t \in Sent', NEW u \in Sent', Kind(t)' # "initialized",
                        ~Behind(t), Behind(u)
                 PROVE  t < u
    BY <1>2 DEF ServedFirst, Behind, WaitsAtBody, Waits, HandlerGuard
  <2>2. t \in Sent
    BY <1>4, <1>6, <2>1 DEF Behind
  <2>3. CASE u = new
    BY <1>3, <2>2, <2>3
  <2>4. CASE u \in Sent
    BY <1>3, <2>1, <2>2, <2>4 DEF OrderInv, ServedFirst
  <2> QED
    BY <1>6, <2>3, <2>4
<1> QED
  BY <1>7, <1>8, <1>9, <1>10, <1>11, <1>12, <1>13, <1>14 DEF OrderInv, SpawnOrder, QueueOrder

LEMMA StutterOrder ==
    ASSUME OrderInv, UNCHANGED vars
    PROVE  OrderInv'
<1>1. UNCHANGED <<inbox, ready, pc, lock>>
  BY DEF vars
<1>2. BodiesOfKinds' /\ SpawnOrder'
  BY <1>1 DEF OrderInv, BodiesOfKinds, SpawnOrder, UnbornAreReady, UnbornInOrder, PolledInOrder,
              Sent, Kind
<1>3. QueueOrder'
  BY <1>1 DEF OrderInv, QueueOrder, WaitersAreHandlers, WaitersInOrder, ReadyWaitForNothing,
              UnbornHoldNothing, WaitsAtBody, Waits, WaiterOf, HandlerGuard, Sent
<1>4. ServedFirst'
  BY <1>1 DEF OrderInv, ServedFirst, Behind, WaitsAtBody, Waits, HandlerGuard, Kind, Sent
<1> QED
  BY <1>2, <1>3, <1>4 DEF OrderInv

LEMMA NextOrder ==
    ASSUME IInv, IInv', OrderInv, [Next]_vars
    PROVE  OrderInv'
<1>1. ASSUME NEW t \in Tasks, Run(t)
      PROVE  OrderInv'
  BY <1>1, RunMoves, LaterStepOrder, FirstPollOrder
<1> QED
  BY <1>1, WakingOrder, ClientSendsOrder, StutterOrder DEF Next, Idle

LEMMA InitOrder == Init => OrderInv
BY DEF Init, OrderInv, BodiesOfKinds, SpawnOrder, UnbornAreReady, UnbornInOrder, PolledInOrder,
       QueueOrder, WaitersAreHandlers, WaitersInOrder, ReadyWaitForNothing, UnbornHoldNothing,
       ServedFirst, Sent, NewLock
-------------------------------------------------------------------------------
(* Handlers are served in order.                                               *)

\* The messages of handlers have a kind, and a handler at its body has one that has
\* a body.
LEMMA KindsOfSent ==
    ASSUME IInv, NEW t \in Sent
    PROVE  Kind(t) \in Kinds
BY MessageFields, ElementOfSeq DEF IInv, TypeOK, ClientOK, Kind, Sent

\* A handler at its body that does not wait holds its guard.
LEMMA BodyHoldsGuard ==
    ASSUME IInv, BodiesOfKinds, NEW t \in Sent, pc[t] \in Bodies, ~WaitsAtBody(t)
    PROVE  HandlerGuard(t) \in lock[HandlerLock[Kind(t)]]
<1>1. Kind(t) \in Kinds \ {"initialized"} /\ pc[t] = HandlerBody[Kind(t)]
  BY KindsOfSent DEF BodiesOfKinds
<1>2. SectionGuard(t)
  BY SentAreTasks DEF IInv, SectionsAreGuarded
<1>3. Asked(lock, HandlerGuard(t), HandlerLock[Kind(t)])
  BY <1>1, <1>2 DEF SectionGuard, Kinds, HandlerLock, HandlerBody, WriteSections, ReadSections
<1>4. ~Waits(lock, HandlerGuard(t))
  BY DEF WaitsAtBody
<1> QED
  BY <1>3, <1>4, AskedAndNotWaiting

\* Before a handler does anything, the earlier ones that it may not run beside have
\* done what they do.
LEMMA EarlierAreServed ==
    ASSUME IInv, OrderInv, NEW u \in Sent, pc[u] \in Bodies, ~WaitsAtBody(u),
           NEW t \in Sent, t < u, Kind(t) # "initialized", Writes(t) \/ Writes(u)
    PROVE  pc[t] \notin Unserved
<1>1. SUFFICES ASSUME pc[t] \in Unserved PROVE FALSE
  OBVIOUS
<1>2. BodiesOfKinds /\ Kind(u) # "initialized" /\ ~Behind(u) /\ t \in Nat /\ u \in Nat
  BY QueueTypes DEF OrderInv, BodiesOfKinds, Behind, Bodies, IInv
<1>3. ~Behind(t)
  <2>1. ASSUME Behind(t)
        PROVE  FALSE
    <3>1. u < t
      BY <1>2, <2>1 DEF OrderInv, ServedFirst
    <3> QED
      BY <1>2, <3>1
  <2> QED
    BY <2>1
<1>4. pc[t] \in Bodies /\ ~WaitsAtBody(t)
  BY <1>1, <1>3 DEF Behind, Unserved
<1>5. /\ HandlerGuard(t) \in lock[HandlerLock[Kind(t)]]
      /\ HandlerGuard(u) \in lock[HandlerLock[Kind(u)]]
  BY <1>2, <1>4, BodyHoldsGuard
<1>6. HandlerGuard(t) # HandlerGuard(u)
  BY <1>2 DEF HandlerGuard
<1>7. HandlerLock[Kind(t)] \in Modes /\ HandlerLock[Kind(u)] \in Modes
  BY <1>2, KindsOfSent DEF Kinds, HandlerLock, Modes
<1>8. WellFormed(lock)
  BY DEF IInv, TypeOK, WorldOK
<1> QED
  BY <1>5, <1>6, <1>7, <1>8 DEF WellFormed, Writes, Modes

\* Who is served by a step: the running task, when it waits for nothing.
LEMMA Serving ==
    ASSUME IInv, OrderInv, NEW t \in Tasks, Run(t) \/ InputOutputDone(t) \/ ClientAnswers(t),
           NEW u \in Sent
    PROVE  /\ inbox' = inbox
           /\ pc'[u] \in Unserved => pc[u] \in Unserved
           /\ pc[u] \in Unserved /\ pc'[u] \notin Unserved =>
                  \/ Kind(u) = "initialized"
                  \/ u = t /\ pc[u] \in Bodies /\ ~WaitsAtBody(u)
<1>0. u \in Tasks /\ pc \in [Tasks -> Labels]
  BY SentAreTasks DEF IInv, TypeOK, ExecutorOK
<1>1. CASE Run(t) /\ ~FirstPoll(t)
  <2>1. LaterStep(t)
    BY <1>1, RunMoves
  <2>2. PICK label : label \notin Unserved /\ StepMoves(t, label)
    BY <2>1 DEF LaterStep, GoesOn
  <2>3. pc' = [pc EXCEPT ![t] = label]
    BY <2>2 DEF StepMoves, Moves
  <2>4. ready[1] = t /\ 1 \in 1..Len(ready)
    <3>1. ready \in Seq(Sent) /\ ready # <<>> /\ Head(ready) = t
      BY <2>1 DEF LaterStep, IInv, TypeOK, ExecutorOK
    <3> QED
      BY <3>1
  <2>5. ~WaitsAtBody(t) /\ pc[t] # "unborn" /\ inbox' = inbox
    BY <2>1, <2>4 DEF LaterStep, OrderInv, QueueOrder, ReadyWaitForNothing
  <2> QED
    BY <1>0, <2>2, <2>3, <2>5 DEF Unserved
<1>2. CASE FirstPoll(t)
  <2>1. CASE Kind(t) = "initialized"
    BY <1>0, <1>2, <2>1 DEF FirstPoll, SpawnAndFinish, Goto, client, Runs, Unserved, Bodies
  <2>2. CASE Kind(t) # "initialized"
    BY <1>0, <1>2, <2>2, FirstPollQueues DEF Goto, Unserved
  <2> QED
    BY <2>1, <2>2
<1>3. CASE InputOutputDone(t)
  BY <1>3 DEF InputOutputDone, client
<1>4. CASE ClientAnswers(t)
  BY <1>0, <1>4 DEF ClientAnswers, Goto, client, Unserved, Bodies
<1> QED
  BY <1>1, <1>2, <1>3, <1>4

LEMMA ServedInOrderKept ==
    ASSUME IInv, OrderInv, ServedInOrder, NEW t \in Tasks,
           Run(t) \/ InputOutputDone(t) \/ ClientAnswers(t)
    PROVE  ServedInOrder'
<1>1. SUFFICES ASSUME NEW x \in Sent', NEW y \in Sent', x < y,
                      Kind(x)' # "initialized", Kind(y)' # "initialized",
                      Writes(x)' \/ Writes(y)', pc'[x] \in Unserved, pc'[y] \notin Unserved
               PROVE  FALSE
  BY DEF ServedInOrder
<1>2. inbox' = inbox
  <2>1. CASE Run(t) /\ ~FirstPoll(t)
    BY <2>1, RunMoves DEF LaterStep
  <2>2. CASE ~(Run(t) /\ ~FirstPoll(t))
    BY <2>2 DEF FirstPoll, InputOutputDone, ClientAnswers, client
  <2> QED
    BY <2>1, <2>2
<1>3. /\ x \in Sent /\ y \in Sent /\ Kind(x) # "initialized" /\ Kind(y) # "initialized"
      /\ Writes(x) \/ Writes(y)
  BY <1>1, <1>2 DEF Sent, Kind, Writes
<1>4. pc[x] \in Unserved
  BY <1>1, <1>3, Serving
<1>5. pc[y] \in Unserved
  BY <1>1, <1>3, <1>4 DEF ServedInOrder
<1>6. pc[y] \in Bodies /\ ~WaitsAtBody(y)
  BY <1>1, <1>3, <1>5, Serving
<1> QED
  BY <1>1, <1>3, <1>4, <1>6, EarlierAreServed

\* A message that is sent has not been served, and is the last.
LEMMA Sending ==
    ASSUME IInv, ClientSends
    PROVE  /\ Sent' = Sent \cup {Len(inbox) + 1} /\ \A t \in Sent : t < Len(inbox) + 1
           /\ \A t \in Sent : inbox'[t] = inbox[t]
           /\ pc[Len(inbox) + 1] = "unborn"
           /\ UNCHANGED <<pc, docs>>
<1>1. Len(inbox) \in Nat /\ inbox \in Seq(Messages)
  BY QueueTypes DEF IInv, TypeOK, ClientOK
<1>2. /\ \E m : inbox' = Append(inbox, m)
      /\ Len(inbox) < MaxMessages /\ UNCHANGED <<pc, docs>>
  BY DEF ClientSends, OpenDocument, EditDocument, CloseDocument, AskAboutDocument, SelectSchema,
         ChangeFolders, SendPlain, Send, MaySend, world
<1>3. Len(inbox') = Len(inbox) + 1 /\ \A t \in Sent : inbox'[t] = inbox[t]
  BY <1>1, <1>2 DEF Sent
<1>4. Len(inbox) + 1 \in Tasks /\ Len(inbox) + 1 \notin Sent
  BY <1>1, <1>2, WorldAssumption DEF Tasks, Sent
<1>5. pc[Len(inbox) + 1] = "unborn"
  BY <1>4 DEF IInv, KindsOfSections, SectionKind
<1> QED
  BY <1>1, <1>2, <1>3, <1>5 DEF Sent

LEMMA SendingKeepsServed ==
    ASSUME IInv, ServedInOrder, ClientSends
    PROVE  ServedInOrder'
<1> DEFINE new == Len(inbox) + 1
<1>1. /\ Sent' = Sent \cup {new} /\ \A t \in Sent : t < new /\ t \in Nat
      /\ new \in Nat /\ \A t \in Sent : inbox'[t] = inbox[t]
      /\ pc[new] \in Unserved /\ UNCHANGED pc
  BY Sending, QueueTypes DEF Unserved, IInv
<1> HIDE DEF new
<1>2. SUFFICES ASSUME NEW x \in Sent', NEW y \in Sent', x < y,
                      Kind(x)' # "initialized", Kind(y)' # "initialized",
                      Writes(x)' \/ Writes(y)', pc[x] \in Unserved
               PROVE  pc[y] \in Unserved
  BY <1>1 DEF ServedInOrder
<1>3. CASE y = new
  BY <1>1, <1>3
<1>4. CASE y # new
  <2>1. y \in Sent /\ y < new
    BY <1>1, <1>4
  <2>2. x # new
    BY <1>1, <1>2, <2>1
  <2>3. x \in Sent
    BY <1>1, <2>2
  <2>4. Kind(x)' = Kind(x) /\ Kind(y)' = Kind(y)
    BY <1>1, <2>1, <2>3 DEF Kind
  <2> QED
    BY <1>2, <2>1, <2>3, <2>4 DEF ServedInOrder, Writes
<1> QED
  BY <1>3, <1>4
-------------------------------------------------------------------------------
(* Texts.                                                                      *)

LEMMA OtherStepsKeepTexts ==
    ASSUME NEW t \in Tasks, Run(t) \/ InputOutputDone(t) \/ ClientAnswers(t),
           ~(StoreDocument(t) \/ DocumentClose(t) \/ WorkspaceChange(t))
    PROVE  docs' = docs /\ folders' = folders
<1>1. CASE FirstPoll(t) \/ InputOutputDone(t) \/ ClientAnswers(t)
  BY <1>1 DEF FirstPoll, InputOutputDone, ClientAnswers, world
<1>2. CASE \/ PublishSyntaxErrors(t) \/ PublishDomErrors(t)
           \/ ReadForSchema(t) \/ PublishSchemaErrors(t)
  BY <1>2 DEF PublishSyntaxErrors, PublishDomErrors, PublishStage, NothingToPublish,
              ReadForSchema, PublishSchemaErrors, world
<1>3. CASE \/ ClearDiagnostics(t) \/ AnswerQuery(t) \/ ReplyToQuery(t)
           \/ ConfigurationChange(t) \/ ConfigurationDone(t) \/ UpdateConfiguration(t)
           \/ RequestConfiguration(t) \/ HandleResponse(t)
  BY <1>3 DEF ClearDiagnostics, AnswerQuery, ReplyToQuery, ConfigurationChange,
              ConfigurationDone, UpdateConfiguration, RequestConfiguration, HandleResponse,
              world
<1>4. CASE \/ InitializeWorkspace(t, "initialize")
           \/ InitializeWorkspace(t, "initialize_added")
           \/ WorkspaceChangeDone(t)
           \/ AssociateSchema(t) \/ AssociateInWorkspace(t) \/ AssociateSchemaDone(t)
           \/ AssociatePattern(t)
  BY <1>4 DEF InitializeWorkspace, WorkspaceChangeDone, AssociateSchema,
              AssociateInWorkspace, AssociateSchemaDone, AssociatePattern, world
<1> QED
  BY <1>1, <1>2, <1>3, <1>4 DEF Run, DocumentOpen, DocumentChange

\* Who changes the text of a document: its handler stores it, or it is removed.
LEMMA TextsChange ==
    ASSUME IInv, NEW t \in Tasks, Run(t) \/ InputOutputDone(t) \/ ClientAnswers(t),
           NEW w \in Workspaces, NEW d \in Docs
    PROVE  \/ docs'[w][d] \in {docs[w][d], NoText}
           \/ /\ docs'[w][d] = t /\ d = Doc(t) /\ t \in Sent
              /\ pc[t] = "store" /\ pc'[t] \notin Unserved
<1>0. docs \in [Workspaces -> [Docs -> 0..Len(inbox)]] /\ pc \in [Tasks -> Labels]
  BY DEF IInv, TypeOK, WorldOK, ExecutorOK
<1>1. CASE StoreDocument(t)
  <2>1. /\ t \in Sent /\ pc[t] = "store" /\ Doc(t) \in Docs
    BY <1>1, RunningTask, RunningSection DEF StoreDocument, DocSections
  <2>2. CASE docs' = docs
    BY <2>2
  <2>3. CASE docs' # docs
    <3>1. /\ docs' = [docs EXCEPT ![ByDocument(Doc(t))][Doc(t)] = t]
          /\ DropAndTake(t, HandlerGuard(t), PublishGuard(t), "read", "syntax")
      BY <1>1, <2>3 DEF StoreDocument
    <3>2. pc' = [pc EXCEPT ![t] = "syntax"]
      BY <3>1 DEF DropAndTake, TakeLock, Goto
    <3>3. pc'[t] \notin Unserved
      BY <1>0, <3>2 DEF Unserved, Bodies
    <3> QED
      BY <1>0, <2>1, <3>1, <3>3
  <2> QED
    BY <2>2, <2>3
<1>2. CASE DocumentClose(t)
  <2>1. docs' = [docs EXCEPT ![ByDocument(Doc(t))][Doc(t)] = NoText]
    BY <1>2 DEF DocumentClose
  <2> QED
    BY <1>0, <2>1
<1>3. CASE WorkspaceChange(t)
  <2>1. docs' = [v \in Workspaces |-> IF v \in inbox[t].removed
                                      THEN [c \in Docs |-> NoText] ELSE docs[v]]
    BY <1>3 DEF WorkspaceChange
  <2> QED
    BY <2>1
<1>4. CASE ~(StoreDocument(t) \/ DocumentClose(t) \/ WorkspaceChange(t))
  BY <1>4, OtherStepsKeepTexts
<1> QED
  BY <1>1, <1>2, <1>3, <1>4

\* The handlers that store a text.
LEMMA StoringKinds ==
    ASSUME IInv, BodiesOfKinds, NEW t \in Sent, pc[t] = "store"
    PROVE  Kind(t) \in {"open", "change"} /\ Kind(t) # "initialized" /\ Writes(t)
BY KindsOfSent DEF BodiesOfKinds, Bodies, Kinds, HandlerBody, HandlerLock, Writes

LEMMA TextsServedKept ==
    ASSUME IInv, OrderInv, TextsAreServed, NEW t \in Tasks,
           Run(t) \/ InputOutputDone(t) \/ ClientAnswers(t)
    PROVE  TextsAreServed'
<1>1. SUFFICES ASSUME NEW w \in Workspaces, NEW d \in Docs, NEW k, k = docs'[w][d], k # NoText
               PROVE  /\ k \in Sent'
                      /\ inbox'[k].kind \in {"open", "change"} /\ inbox'[k].doc = d
                      /\ pc'[k] \notin Unserved
  BY DEF TextsAreServed, Kind, Doc
<1>2. CASE k = docs[w][d]
  <2>1. /\ k \in Sent /\ Kind(k) \in {"open", "change"} /\ Doc(k) = d
        /\ pc[k] \notin Unserved
    BY <1>1, <1>2 DEF TextsAreServed
  <2>2. inbox' = inbox /\ pc'[k] \notin Unserved
    BY <2>1, Serving
  <2> QED
    BY <2>1, <2>2 DEF Kind, Doc, Sent
<1>3. CASE k = t /\ d = Doc(t) /\ t \in Sent /\ pc[t] = "store" /\ pc'[t] \notin Unserved
  <2>1. Kind(t) \in {"open", "change"} /\ inbox' = inbox
    BY <1>3, StoringKinds, Serving DEF OrderInv
  <2> QED
    BY <1>3, <2>1 DEF Kind, Doc, Sent
<1> QED
  BY <1>1, <1>2, <1>3, TextsChange

LEMMA SendingKeepsTexts ==
    ASSUME IInv, TextsAreServed, ClientSends
    PROVE  TextsAreServed'
BY Sending DEF TextsAreServed, Kind, Doc

LEMMA StutterTexts ==
    ASSUME ServedInOrder, TextsAreServed, UNCHANGED vars
    PROVE  ServedInOrder' /\ TextsAreServed'
BY DEF ServedInOrder, TextsAreServed, Sent, Kind, Doc, Writes, vars

\* A text that replaces another is stored by a later message: the handler of the
\* other was served first.
LEMMA NewerTexts ==
    ASSUME TextInv, NEW t \in Tasks, Run(t) \/ InputOutputDone(t) \/ ClientAnswers(t),
           NEW w \in Workspaces, NEW d \in Docs, docs'[w][d] # NoText
    PROVE  docs'[w][d] >= docs[w][d]
<1>1. docs[w][d] \in Nat
  BY LenProperties DEF TextInv, IInv, TypeOK, ClientOK, WorldOK
<1>2. CASE docs'[w][d] = docs[w][d]
  BY <1>1, <1>2
<1>3. CASE docs'[w][d] = t /\ t \in Sent /\ pc[t] = "store"
  <2>1. t \in Nat /\ Writes(t) /\ Kind(t) # "initialized" /\ pc[t] \in Unserved
    BY <1>3, QueueTypes, StoringKinds DEF TextInv, IInv, OrderInv, Unserved, Bodies
  <2>2. CASE docs[w][d] = NoText
    BY <1>3, <2>1, <2>2 DEF NoText
  <2>3. CASE docs[w][d] # NoText
    <3>1. /\ docs[w][d] \in Sent /\ Kind(docs[w][d]) # "initialized"
          /\ pc[docs[w][d]] \notin Unserved
      BY <2>3 DEF TextInv, TextsAreServed
    <3>2. ~(t < docs[w][d])
      BY <1>3, <2>1, <3>1 DEF TextInv, ServedInOrder
    <3> QED
      BY <1>1, <1>3, <2>1, <3>2
  <2> QED
    BY <2>2, <2>3
<1> QED
  BY <1>2, <1>3, TextsChange DEF TextInv
-------------------------------------------------------------------------------
(* The theorems.                                                               *)

LEMMA TextInvariance == TextInv /\ [Next]_vars => TextInv'
<1> SUFFICES ASSUME TextInv, [Next]_vars PROVE TextInv'
  OBVIOUS
<1>1. IInv' /\ OrderInv'
  BY NextInvariant, NextOrder DEF TextInv
<1>2. ServedInOrder' /\ TextsAreServed'
  <2>1. CASE ClientSends
    BY <2>1, SendingKeepsServed, SendingKeepsTexts DEF TextInv
  <2>2. ASSUME NEW t \in Tasks, Run(t) \/ InputOutputDone(t) \/ ClientAnswers(t)
        PROVE  ServedInOrder' /\ TextsAreServed'
    BY <2>2, ServedInOrderKept, TextsServedKept DEF TextInv
  <2>3. CASE UNCHANGED vars
    BY <2>3, StutterTexts DEF TextInv
  <2> QED
    BY <2>1, <2>2, <2>3 DEF Next, Idle
<1> QED
  BY <1>1, <1>2 DEF TextInv

LEMMA InitTexts == Init => TextInv
<1>1. Init => ServedInOrder /\ TextsAreServed
  BY DEF Init, ServedInOrder, TextsAreServed, Sent
<1> QED
  BY <1>1, InitInvariant, InitOrder DEF TextInv

\* The two queues of the tasks keep the order of the messages, handlers are served in
\* that order, and every text of a workspace was stored by the handler of its message
\* (server.rs, handlers/documents.rs), as TextInv says.
THEOREM TextsInvariant == Spec => []TextInv
<1> QED
  BY InitTexts, TextInvariance, PTL DEF Spec

\* The handlers of two messages, one of which writes, do what they do in the order
\* of the messages, however many wait for the lock or for their first poll: what
\* handle_message spawns and RwLock queues is never reordered (server.rs, world.rs).
THEOREM HandlersServedInOrder == Spec => []ServedInOrder
<1>1. TextInv => ServedInOrder
  BY DEF TextInv
<1> QED
  BY <1>1, TextsInvariant, PTL

\* document_open and document_change (handlers/documents.rs) never replace the text
\* of a document by an older one.
THEOREM NoOlderText == Spec => TextsNeverGoBack
<1>1. TextInv /\ [Next]_vars =>
          [\A w \in Workspaces, d \in Docs :
               docs'[w][d] # NoText => docs'[w][d] >= docs[w][d]]_vars
  <2> SUFFICES ASSUME TextInv, Next, NEW w \in Workspaces, NEW d \in Docs, docs'[w][d] # NoText
               PROVE  docs'[w][d] >= docs[w][d]
    OBVIOUS
  <2>1. CASE ClientSends \/ Idle
    <3>1. docs' = docs /\ docs[w][d] \in Nat
      BY <2>1, LenProperties
         DEF ClientSends, Idle, vars, world, TextInv, IInv, TypeOK, ClientOK, WorldOK
    <3> QED
      BY <3>1
  <2>2. ASSUME NEW t \in Tasks, Run(t) \/ InputOutputDone(t) \/ ClientAnswers(t)
        PROVE  docs'[w][d] >= docs[w][d]
    BY <2>2, NewerTexts
  <2> QED
    BY <2>1, <2>2 DEF Next
<1> QED
  BY <1>1, TextsInvariant, PTL DEF Spec, TextsNeverGoBack

-----------------------------------------------------------------------------
(* The server and the editor agree on the texts, for every number of messages  *)
(* and documents, as long as the folders stay and every document is included:  *)
(* when the server is quiet it holds the text the editor shows, and a request  *)
(* is answered from the text the editor showed when it was sent.               *)
(*                                                                             *)
(* Both compare the text of a document after some of the messages: after all   *)
(* that were sent (the editor), after those served (the world), and after      *)
(* those sent before a request (what the request is about).  The order of the  *)
(* handlers makes those served and those sent before a request the same        *)
(* messages of its document when it reads the world.                           *)

\* The folders stay, and every document is included.
Steady == "folders" \notin Traffic /\ Filters = {Docs}

SteadyWorld ==
    /\ Steady
    /\ \A t \in Sent : Kind(t) \in Traffic
    /\ folders = InitialFolders
    /\ included = [w \in Workspaces |-> Docs]

\* Message k of messages edits document d, and the text it leaves.
Edits(messages, k, d) ==
    messages[k].kind \in {"open", "change", "close"} /\ messages[k].doc = d
TextLeft(messages, k) == IF messages[k].kind = "close" THEN NoText ELSE k

\* The text of document d after the messages numbered S.
TextAfter(messages, S, d, text) ==
    \/ text = NoText /\ \A k \in S : ~Edits(messages, k, d)
    \/ \E k \in S : /\ Edits(messages, k, d) /\ text = TextLeft(messages, k)
                    /\ \A j \in S : Edits(messages, j, d) => j <= k

ServedMessages == {t \in Sent : pc[t] \notin Unserved}

EditorTexts == \A d \in Docs : TextAfter(inbox, Sent, d, current[d])
WorldTexts == \A d \in Docs : TextAfter(inbox, ServedMessages, d, docs[ByDocument(d)][d])
RequestTexts ==
    \A t \in Sent : Kind(t) = "query" =>
        Doc(t) \in Docs /\ TextAfter(inbox, 1..(t - 1), Doc(t), inbox[t].about)

\* A request that loads schemas has read the text it is about, and keeps the guard.
Replied(t) ==
    /\ ~Waits(lock, HandlerGuard(t))
    /\ local[t].dom = inbox[t].about
    /\ docs[ByDocument(Doc(t))][Doc(t)] = inbox[t].about
Replies == \A t \in Sent : pc[t] = "reply" => Replied(t)

EditorInv == TextInv /\ SteadyWorld /\ EditorTexts /\ WorldTexts /\ RequestTexts /\ Replies
-------------------------------------------------------------------------------
(* The text after some messages.                                               *)

\* There is one.
LEMMA OneText ==
    ASSUME NEW m, NEW S, S \subseteq Nat, NEW d, NEW x, NEW y,
           TextAfter(m, S, d, x), TextAfter(m, S, d, y)
    PROVE  x = y
<1>1. CASE \A k \in S : ~Edits(m, k, d)
  BY <1>1 DEF TextAfter
<1>2. CASE \E k \in S : Edits(m, k, d)
  <2>1. PICK k \in S : /\ Edits(m, k, d) /\ x = TextLeft(m, k)
                       /\ \A j \in S : Edits(m, j, d) => j <= k
    BY <1>2 DEF TextAfter
  <2>2. PICK l \in S : /\ Edits(m, l, d) /\ y = TextLeft(m, l)
                       /\ \A j \in S : Edits(m, j, d) => j <= l
    BY <1>2 DEF TextAfter
  <2>3. k <= l /\ l <= k /\ k \in Nat /\ l \in Nat
    BY <2>1, <2>2
  <2>4. k = l
    BY <2>3
  <2> QED
    BY <2>1, <2>2, <2>4
<1> QED
  BY <1>1, <1>2

\* Messages that come later, and messages that edit other documents, make no
\* difference.
LEMMA SameText ==
    ASSUME NEW m, NEW n, NEW S, NEW T, NEW d, NEW x,
           \A k \in S \cup T : n[k] = m[k],
           \A k \in S \cup T : Edits(m, k, d) => (k \in S <=> k \in T),
           TextAfter(m, S, d, x)
    PROVE  TextAfter(n, T, d, x)
<1>1. \A k \in S \cup T : /\ Edits(n, k, d) <=> Edits(m, k, d)
                          /\ TextLeft(n, k) = TextLeft(m, k)
  BY DEF Edits, TextLeft
<1>2. CASE x = NoText /\ \A k \in S : ~Edits(m, k, d)
  BY <1>1, <1>2 DEF TextAfter
<1>3. CASE \E k \in S : /\ Edits(m, k, d) /\ x = TextLeft(m, k)
                        /\ \A j \in S : Edits(m, j, d) => j <= k
  <2>1. PICK k \in S : /\ Edits(m, k, d) /\ x = TextLeft(m, k)
                       /\ \A j \in S : Edits(m, j, d) => j <= k
    BY <1>3
  <2>2. k \in T /\ Edits(n, k, d) /\ x = TextLeft(n, k)
    BY <1>1, <2>1
  <2>3. \A j \in T : Edits(n, j, d) => j <= k
    BY <1>1, <2>1
  <2> QED
    BY <2>2, <2>3 DEF TextAfter
<1> QED
  BY <1>2, <1>3 DEF TextAfter

\* The last message that edits a document leaves its text.
LEMMA TextOfLast ==
    ASSUME NEW m, NEW S, NEW k \in Nat, NEW d, Edits(m, k, d),
           \A j \in S : Edits(m, j, d) => j <= k
    PROVE  TextAfter(m, S \cup {k}, d, TextLeft(m, k))
BY DEF TextAfter
-------------------------------------------------------------------------------
(* Messages are sent.                                                          *)

\* What a message does in the editor.
LEMMA EditorStep ==
    ASSUME IInv, ClientSends
    PROVE  \E m \in Messages :
               /\ inbox' = Append(inbox, m) /\ m.kind \in Traffic
               /\ m.kind = "query" => m.doc \in Docs /\ m.about = current[m.doc]
               /\ \A d \in Docs :
                      current'[d] = IF m.kind \in {"open", "change", "close"} /\ m.doc = d
                                    THEN IF m.kind = "close" THEN NoText ELSE Len(inbox) + 1
                                    ELSE current[d]
<1> DEFINE Effect(m) ==
               /\ inbox' = Append(inbox, m) /\ m.kind \in Traffic
               /\ m.kind = "query" => m.doc \in Docs /\ m.about = current[m.doc]
               /\ \A d \in Docs :
                      current'[d] = IF m.kind \in {"open", "change", "close"} /\ m.doc = d
                                    THEN IF m.kind = "close" THEN NoText ELSE Len(inbox) + 1
                                    ELSE current[d]
<1>0. current \in [Docs -> 0..Len(inbox)] /\ Len(inbox) \in Nat /\ MaxMessages \in Nat
      /\ Len(inbox) <= MaxMessages
  BY WorldAssumption, QueueTypes DEF IInv, TypeOK, ClientOK
<1> USE DEF Send, MaySend, NextMessage
<1>1. ASSUME NEW c \in Docs, NEW e \in Texts, OpenDocument(c, e)
      PROVE  \E m \in Messages : Effect(m)
  <2> DEFINE m == [kind |-> "open", doc |-> c, errors |-> e]
  <2>1. m \in Messages
    BY DEF Messages
  <2>2. Effect(m)
    BY <1>0, <1>1 DEF OpenDocument
  <2> QED
    BY <2>1, <2>2
<1>2. ASSUME NEW c \in Docs, NEW e \in Texts, EditDocument(c, e)
      PROVE  \E m \in Messages : Effect(m)
  <2> DEFINE m == [kind |-> "change", doc |-> c, errors |-> e]
  <2>1. m \in Messages
    BY DEF Messages
  <2>2. Effect(m)
    BY <1>0, <1>2 DEF EditDocument
  <2> QED
    BY <2>1, <2>2
<1>3. ASSUME NEW c \in Docs, CloseDocument(c)
      PROVE  \E m \in Messages : Effect(m)
  <2> DEFINE m == [kind |-> "close", doc |-> c]
  <2>1. m \in Messages
    BY DEF Messages
  <2>2. Effect(m)
    BY <1>0, <1>3 DEF CloseDocument, Closed, NoText
  <2> QED
    BY <2>1, <2>2
<1>4. ASSUME NEW c \in Docs, AskAboutDocument(c)
      PROVE  \E m \in Messages : Effect(m)
  <2> DEFINE m == [kind |-> "query", doc |-> c, about |-> current[c]]
  <2>1. m \in Messages
    <3>1. current[c] \in 0..MaxMessages
      BY <1>0
    <3> QED
      BY <3>1 DEF Messages
  <2>2. Effect(m)
    BY <1>0, <1>4 DEF AskAboutDocument
  <2> QED
    BY <2>1, <2>2
<1>5. ASSUME NEW c \in Docs, SelectSchema(c)
      PROVE  \E m \in Messages : Effect(m)
  <2> DEFINE m == [kind |-> "associate", doc |-> c]
  <2>1. m \in Messages
    BY DEF Messages
  <2>2. Effect(m)
    BY <1>0, <1>5 DEF SelectSchema
  <2> QED
    BY <2>1, <2>2
<1>6. ASSUME ChangeFolders
      PROVE  \E m \in Messages : Effect(m)
  <2>1. PICK added \in SUBSET Folders, removed \in SUBSET Folders :
            /\ MaySend("folders") /\ UNCHANGED current
            /\ Send([kind |-> "folders", added |-> added, removed |-> removed])
    BY <1>6 DEF ChangeFolders
  <2> DEFINE m == [kind |-> "folders", added |-> added, removed |-> removed]
  <2>2. m \in Messages
    BY DEF Messages
  <2>3. Effect(m)
    BY <1>0, <2>1
  <2> QED
    BY <2>2, <2>3
<1>7. ASSUME SendPlain
      PROVE  \E m \in Messages : Effect(m)
  <2>1. PICK kind \in {"configuration", "initialized", "associate_pattern"} :
            MaySend(kind) /\ Send([kind |-> kind]) /\ UNCHANGED current
    BY <1>7 DEF SendPlain
  <2> DEFINE m == [kind |-> kind]
  <2>2. m \in Messages
    BY DEF Messages
  <2>3. Effect(m)
    BY <1>0, <2>1
  <2> QED
    BY <2>2, <2>3
<1> HIDE DEF Effect
<1>8. \E m \in Messages : Effect(m)
  BY <1>1, <1>2, <1>3, <1>4, <1>5, <1>6, <1>7 DEF ClientSends
<1> QED
  BY <1>8 DEF Effect

\* A message that edits a document leaves the text the editor shows.
LEMMA SendingKeepsEditorTexts ==
    ASSUME IInv, EditorTexts, ClientSends
    PROVE  EditorTexts'
<1> DEFINE new == Len(inbox) + 1
<1>1. PICK m \in Messages :
          /\ inbox' = Append(inbox, m)
          /\ \A d \in Docs :
                 current'[d] = IF m.kind \in {"open", "change", "close"} /\ m.doc = d
                               THEN IF m.kind = "close" THEN NoText ELSE new
                               ELSE current[d]
  BY EditorStep
<1>2. /\ Sent' = Sent \cup {new} /\ \A t \in Sent : t < new /\ t \in Nat /\ inbox'[t] = inbox[t]
      /\ new \in Nat /\ inbox \in Seq(Messages)
  BY Sending, QueueTypes DEF IInv, TypeOK, ClientOK
<1>3. inbox'[new] = m
  BY <1>1, <1>2
<1> HIDE DEF new
<1>4. SUFFICES ASSUME NEW d \in Docs
               PROVE  TextAfter(inbox', Sent \cup {new}, d, current'[d])
  BY <1>2 DEF EditorTexts
<1>5. CASE Edits(inbox', new, d)
  <2>1. current'[d] = TextLeft(inbox', new)
    BY <1>1, <1>3, <1>5 DEF Edits, TextLeft
  <2>2. \A j \in Sent : Edits(inbox', j, d) => j <= new
    BY <1>2
  <2> QED
    BY <1>2, <1>5, <2>1, <2>2, TextOfLast
<1>6. CASE ~Edits(inbox', new, d)
  <2>1. current'[d] = current[d] /\ TextAfter(inbox, Sent, d, current[d])
    BY <1>1, <1>3, <1>6 DEF Edits, EditorTexts
  <2>2. \A k \in Sent \cup Sent : inbox'[k] = inbox[k]
    BY <1>2
  <2>3. TextAfter(inbox', Sent, d, current[d])
    BY <2>1, <2>2, SameText
  <2>4. \A k \in Sent \cup (Sent \cup {new}) :
            Edits(inbox', k, d) => (k \in Sent <=> k \in Sent \cup {new})
    BY <1>6
  <2> QED
    BY <2>1, <2>3, <2>4, SameText
<1> QED
  BY <1>5, <1>6

LEMMA SendingKeepsAgreement ==
    ASSUME EditorInv, TextInv', ClientSends
    PROVE  SteadyWorld' /\ EditorTexts' /\ WorldTexts' /\ RequestTexts' /\ Replies'
<1> DEFINE new == Len(inbox) + 1
<1>1. PICK m \in Messages :
          /\ inbox' = Append(inbox, m) /\ m.kind \in Traffic
          /\ m.kind = "query" => m.doc \in Docs /\ m.about = current[m.doc]
          /\ \A d \in Docs :
                 current'[d] = IF m.kind \in {"open", "change", "close"} /\ m.doc = d
                               THEN IF m.kind = "close" THEN NoText ELSE new
                               ELSE current[d]
  BY EditorStep DEF EditorInv, TextInv
<1>2. /\ Sent' = Sent \cup {new} /\ \A t \in Sent : t < new /\ t \in Nat /\ inbox'[t] = inbox[t]
      /\ pc[new] \in Unserved /\ new \in Nat /\ Sent = 1..Len(inbox) /\ Len(inbox) \in Nat
  BY Sending, QueueTypes DEF EditorInv, TextInv, IInv, Unserved, Sent
<1>3. inbox'[new] = m
  <2>1. inbox \in Seq(Messages)
    BY DEF EditorInv, TextInv, IInv, TypeOK, ClientOK
  <2> QED
    BY <1>1, <2>1
<1>4. UNCHANGED <<pc, local, lock, folders, docs, included>>
  BY DEF ClientSends, world
<1>5. new \notin Sent
  BY <1>2
<1> HIDE DEF new
<1>6. SteadyWorld'
  <2>1. \A t \in Sent' : inbox'[t].kind \in Traffic
    BY <1>1, <1>2, <1>3 DEF EditorInv, SteadyWorld, Kind
  <2> QED
    BY <1>4, <2>1 DEF EditorInv, SteadyWorld, Steady, Kind
<1>7. \A S \in SUBSET Sent : \A d, x : TextAfter(inbox, S, d, x) => TextAfter(inbox', S, d, x)
  <2>1. SUFFICES ASSUME NEW S \in SUBSET Sent, NEW d, NEW x, TextAfter(inbox, S, d, x)
                 PROVE  TextAfter(inbox', S, d, x)
    OBVIOUS
  <2>2. \A k \in S \cup S : inbox'[k] = inbox[k]
    BY <1>2
  <2> QED
    BY <2>1, <2>2, SameText
<1>8. EditorTexts'
  BY SendingKeepsEditorTexts DEF EditorInv, TextInv
<1>9. WorldTexts'
  <2>1. ServedMessages' = ServedMessages /\ ServedMessages \subseteq Sent
    BY <1>2, <1>4 DEF ServedMessages
  <2>2. \A d \in Docs : ByDocument(d)' = ByDocument(d)
    BY <1>4 DEF ByDocument
  <2>3. ASSUME NEW d \in Docs
        PROVE  TextAfter(inbox', ServedMessages, d, docs[ByDocument(d)][d])
    BY <1>7, <2>1 DEF EditorInv, WorldTexts
  <2> QED
    BY <1>4, <2>1, <2>2, <2>3 DEF WorldTexts
<1>10. RequestTexts'
  <2>1. SUFFICES ASSUME NEW t \in Sent \cup {new}, inbox'[t].kind = "query"
                 PROVE  /\ inbox'[t].doc \in Docs
                        /\ TextAfter(inbox', 1..(t - 1), inbox'[t].doc, inbox'[t].about)
    BY <1>2 DEF RequestTexts, Kind, Doc
  <2>2. CASE t = new
    <3>1. m.doc \in Docs /\ m.about = current[m.doc] /\ 1..(new - 1) = Sent
      BY <1>1, <1>2, <1>3, <2>1, <2>2 DEF new
    <3>2. TextAfter(inbox', Sent, m.doc, current[m.doc])
      BY <1>7, <3>1 DEF EditorInv, EditorTexts
    <3> QED
      BY <1>3, <2>2, <3>1, <3>2
  <2>3. CASE t \in Sent
    <3>1. 1..(t - 1) \in SUBSET Sent
      BY <1>2, <2>3
    <3>2. Doc(t) \in Docs /\ TextAfter(inbox, 1..(t - 1), Doc(t), inbox[t].about)
      BY <1>2, <2>1, <2>3 DEF EditorInv, RequestTexts, Kind
    <3> QED
      BY <1>2, <1>7, <2>3, <3>1, <3>2 DEF Doc
  <2> QED
    BY <2>1, <2>2, <2>3
<1>11. Replies'
  <2>1. SUFFICES ASSUME NEW t \in Sent', pc[t] = "reply"
                 PROVE  Replied(t)'
    BY <1>4 DEF Replies
  <2>2. t \in Sent
    BY <1>2, <2>1 DEF Unserved, Bodies
  <2>3. Replied(t) /\ inbox'[t] = inbox[t]
    BY <1>2, <2>1, <2>2 DEF EditorInv, Replies
  <2> QED
    BY <1>4, <2>3 DEF Replied, Doc, ByDocument, HandlerGuard
<1> QED
  BY <1>6, <1>8, <1>9, <1>10, <1>11
-------------------------------------------------------------------------------
(* Tasks run.                                                                  *)

\* Only the handlers of documents stand at store and remove.
LEMMA BodySteps ==
    ASSUME NEW t \in Tasks, Run(t)
    PROVE  /\ pc[t] = "store" => StoreDocument(t)
           /\ pc[t] = "remove" => DocumentClose(t)
           /\ pc[t] = "change_folders" => WorkspaceChange(t)
<1>1. CASE FirstPoll(t)
  BY <1>1 DEF FirstPoll, Runs
<1>2. CASE DocumentOpen(t) \/ DocumentChange(t) \/ DocumentClose(t) \/ WorkspaceChange(t)
  BY <1>2 DEF DocumentOpen, DocumentChange, DocumentClose, WorkspaceChange, Runs
<1>3. CASE \/ PublishSyntaxErrors(t) \/ PublishDomErrors(t)
           \/ ReadForSchema(t) \/ PublishSchemaErrors(t)
  BY <1>3 DEF PublishSyntaxErrors, PublishDomErrors, PublishStage, NothingToPublish,
              ReadForSchema, PublishSchemaErrors, Runs
<1>4. CASE \/ ClearDiagnostics(t) \/ AnswerQuery(t) \/ ReplyToQuery(t)
           \/ ConfigurationChange(t) \/ ConfigurationDone(t) \/ UpdateConfiguration(t)
           \/ RequestConfiguration(t) \/ HandleResponse(t)
  BY <1>4 DEF ClearDiagnostics, AnswerQuery, ReplyToQuery, ConfigurationChange,
              ConfigurationDone, UpdateConfiguration, RequestConfiguration, HandleResponse, Runs
<1>5. CASE \/ InitializeWorkspace(t, "initialize")
           \/ InitializeWorkspace(t, "initialize_added")
           \/ WorkspaceChangeDone(t)
           \/ AssociateSchema(t) \/ AssociateInWorkspace(t) \/ AssociateSchemaDone(t)
           \/ AssociatePattern(t)
  BY <1>5 DEF InitializeWorkspace, WorkspaceChangeDone, AssociateSchema,
              AssociateInWorkspace, AssociateSchemaDone, AssociatePattern, Runs
<1> QED
  BY <1>1, <1>2, <1>3, <1>4, <1>5 DEF Run

\* A task notes nothing for another, and only one that answers a query replies.
LEMMA LocalsStay ==
    ASSUME IInv, NEW t \in Tasks, Run(t) \/ InputOutputDone(t) \/ ClientAnswers(t),
           NEW u \in Tasks, pc'[u] = "reply"
    PROVE  \/ local'[u].dom = local[u].dom /\ pc[u] = "reply" /\ (u = t => InputOutputDone(t))
           \/ u = t /\ AnswerQuery(t)
<1>0. pc \in [Tasks -> Labels] /\ local \in [Tasks -> LocalState]
  BY DEF IInv, TypeOK, ExecutorOK
<1> USE DEF Goto
<1>1. CASE InputOutputDone(t)
  BY <1>1 DEF InputOutputDone
<1>2. CASE ClientAnswers(t)
  BY <1>0, <1>2 DEF ClientAnswers
<1>3. CASE FirstPoll(t)
  <2>1. local' = local
    BY <1>3 DEF FirstPoll
  <2>2. CASE Kind(t) = "initialized"
    BY <1>0, <1>3, <2>1, <2>2 DEF FirstPoll, SpawnAndFinish
  <2>3. CASE Kind(t) # "initialized"
    <3>1. t \in Sent
      BY <1>3, RunningTask DEF FirstPoll
    <3>2. Kind(t) \in Kinds
      BY <3>1, KindsOfSent
    <3>3. pc' = [pc EXCEPT ![t] = HandlerBody[Kind(t)]]
      BY <1>3, <2>3 DEF FirstPoll, TakeLock
    <3>4. HandlerBody[Kind(t)] # "reply"
      BY <2>3, <3>2 DEF Kinds, HandlerBody
    <3> QED
      BY <1>0, <2>1, <3>3, <3>4
  <2> QED
    BY <2>2, <2>3
<1>4. CASE DocumentOpen(t) \/ DocumentChange(t)
  <2>1. StoreDocument(t)
    BY <1>4 DEF DocumentOpen, DocumentChange
  <2>2. /\ pc' = [pc EXCEPT ![t] = "syntax"] \/ pc' = [pc EXCEPT ![t] = "done"]
        /\ local' = local \/ \E w : local' = [local EXCEPT ![t].ws = w]
    BY <2>1 DEF StoreDocument, DropAndTake, TakeLock, DropAndFinish
  <2> QED
    BY <1>0, <2>2
<1>5. CASE DocumentClose(t) \/ ClearDiagnostics(t)
  BY <1>0, <1>5 DEF DocumentClose, ClearDiagnostics, SpawnAndFinish, Suspend
<1>6. CASE PublishSyntaxErrors(t) \/ PublishDomErrors(t)
  <2>1. PICK label : pc' = [pc EXCEPT ![t] = label] /\ label # "reply"
    BY <1>6 DEF PublishSyntaxErrors, PublishDomErrors, PublishStage, NothingToPublish,
                ReturnFromPublish, DropAndContinue, DropAndFinish, DropAndTake, TakeLock
  <2>2. local' = local \/ \E x : local' = [local EXCEPT ![t].dom = x]
    BY <1>6 DEF PublishSyntaxErrors, PublishDomErrors, PublishStage, NothingToPublish
  <2> QED
    BY <1>0, <2>1, <2>2
<1>7. CASE ReadForSchema(t) \/ PublishSchemaErrors(t)
  <2>1. PICK label : pc' = [pc EXCEPT ![t] = label] /\ label # "reply"
    BY <1>7 DEF ReadForSchema, PublishSchemaErrors, NothingToPublish, MaySuspend,
                ReturnFromPublish, DropAndContinue, DropAndFinish
  <2>2. local' = local
    BY <1>7 DEF ReadForSchema, PublishSchemaErrors, NothingToPublish
  <2> QED
    BY <1>0, <2>1, <2>2
<1>8. CASE AnswerQuery(t)
  <2>1. pc' = [pc EXCEPT ![t] = "reply"] /\ \E x : local' = [local EXCEPT ![t].dom = x]
    BY <1>8 DEF AnswerQuery, MaySuspend
  <2> QED
    BY <1>0, <1>8, <2>1
<1>9. CASE \/ ReplyToQuery(t) \/ ConfigurationDone(t) \/ UpdateConfiguration(t)
           \/ RequestConfiguration(t) \/ HandleResponse(t) \/ WorkspaceChangeDone(t)
           \/ AssociateSchemaDone(t) \/ AssociatePattern(t)
  <2>0. \E label \in {"done", "request", "asked", "initialize"} : pc' = [pc EXCEPT ![t] = label]
    <3>1. CASE \/ ReplyToQuery(t) \/ ConfigurationDone(t)
               \/ AssociateSchemaDone(t) \/ AssociatePattern(t)
      BY <3>1 DEF ReplyToQuery, ConfigurationDone, AssociateSchemaDone, AssociatePattern,
                  DropAndFinish
    <3>2. CASE UpdateConfiguration(t) \/ WorkspaceChangeDone(t)
      BY <3>2 DEF UpdateConfiguration, WorkspaceChangeDone, DropAndTake, TakeLock
    <3>3. CASE RequestConfiguration(t) \/ HandleResponse(t)
      BY <3>3 DEF RequestConfiguration, HandleResponse, Suspend, SpawnAndFinish
    <3> QED
      BY <1>9, <3>1, <3>2, <3>3
  <2>1. PICK label : pc' = [pc EXCEPT ![t] = label] /\ label # "reply"
    BY <2>0
  <2>2. local' = local
    BY <1>9 DEF ReplyToQuery, ConfigurationDone, UpdateConfiguration, RequestConfiguration,
                HandleResponse, WorkspaceChangeDone, AssociateSchemaDone, AssociatePattern
  <2> QED
    BY <1>0, <2>1, <2>2
<1>10. CASE \/ ConfigurationChange(t) \/ WorkspaceChange(t) \/ AssociateSchema(t)
            \/ InitializeWorkspace(t, "initialize")
            \/ InitializeWorkspace(t, "initialize_added")
  <2>1. PICK label : pc' = [pc EXCEPT ![t] = label] /\ label # "reply"
    BY <1>10 DEF ConfigurationChange, WorkspaceChange, AssociateSchema, InitializeWorkspace,
                 Continue, MaySuspend
  <2>2. \E x : local' = [local EXCEPT ![t].todo = x]
    BY <1>10 DEF ConfigurationChange, WorkspaceChange, AssociateSchema, InitializeWorkspace
  <2> QED
    BY <1>0, <2>1, <2>2
<1>11. CASE AssociateInWorkspace(t)
  <2>1. pc' = [pc EXCEPT ![t] = "syntax"]
    BY <1>11 DEF AssociateInWorkspace, TakeLock
  <2>2. PICK w \in local[t].todo :
            local' = [local EXCEPT ![t].ws = w, ![t].todo = local[t].todo \ {w}]
    BY <1>11 DEF AssociateInWorkspace
  <2> QED
    BY <1>0, <2>1, <2>2
<1> QED
  BY <1>1, <1>2, <1>3, <1>4, <1>5, <1>6, <1>7, <1>8, <1>9, <1>10, <1>11 DEF Run

\* No workspace comes or goes, and none excludes a document.
LEMMA WorldStaysSteady ==
    ASSUME IInv, SteadyWorld, NEW t \in Tasks, Run(t) \/ InputOutputDone(t) \/ ClientAnswers(t)
    PROVE  ~WorkspaceChange(t) /\ folders' = folders /\ included' = included
<1>1. ~WorkspaceChange(t)
  <2>1. ASSUME WorkspaceChange(t)
        PROVE  FALSE
    <3>1. t \in Sent /\ pc[t] = "change_folders"
      BY <2>1, RunningTask DEF WorkspaceChange
    <3>2. Kind(t) = "folders" /\ t \in Tasks
      BY <3>1 DEF IInv, KindsOfSections, SectionKind
    <3> QED
      BY <3>1, <3>2 DEF SteadyWorld, Steady
  <2> QED
    BY <2>1
<1>2. folders' = folders
  <2>1. CASE StoreDocument(t) \/ DocumentClose(t)
    BY <2>1 DEF StoreDocument, DocumentClose
  <2>2. CASE ~(StoreDocument(t) \/ DocumentClose(t))
    BY <1>1, <2>2, OtherStepsKeepTexts
  <2> QED
    BY <2>1, <2>2
<1>3. included' = included
  <2>1. ASSUME NEW label, InitializeWorkspace(t, label)
        PROVE  included' = included
    <3>1. PICK w \in local[t].todo, f \in Filters : included' = [included EXCEPT ![w] = f]
      BY <2>1 DEF InitializeWorkspace
    <3>2. included = [v \in Workspaces |-> Docs] /\ f = Docs
      BY DEF SteadyWorld, Steady
    <3> QED
      BY <3>1, <3>2
  <2>2. CASE FirstPoll(t) \/ InputOutputDone(t) \/ ClientAnswers(t)
    BY <2>2 DEF FirstPoll, InputOutputDone, ClientAnswers, world
  <2>3. CASE \/ StoreDocument(t) \/ DocumentClose(t) \/ ClearDiagnostics(t)
             \/ PublishSyntaxErrors(t) \/ PublishDomErrors(t)
             \/ ReadForSchema(t) \/ PublishSchemaErrors(t)
    BY <2>3 DEF StoreDocument, DocumentClose, ClearDiagnostics, PublishSyntaxErrors,
                PublishDomErrors, PublishStage, NothingToPublish, ReadForSchema,
                PublishSchemaErrors, world
  <2>4. CASE \/ AnswerQuery(t) \/ ReplyToQuery(t)
             \/ ConfigurationChange(t) \/ ConfigurationDone(t) \/ UpdateConfiguration(t)
             \/ RequestConfiguration(t) \/ HandleResponse(t)
    BY <2>4 DEF AnswerQuery, ReplyToQuery, ConfigurationChange, ConfigurationDone,
                UpdateConfiguration, RequestConfiguration, HandleResponse, world
  <2>5. CASE \/ WorkspaceChangeDone(t)
             \/ AssociateSchema(t) \/ AssociateInWorkspace(t) \/ AssociateSchemaDone(t)
             \/ AssociatePattern(t)
    BY <2>5 DEF WorkspaceChangeDone, AssociateSchema, AssociateInWorkspace,
                AssociateSchemaDone, AssociatePattern, world
  <2> QED
    BY <1>1, <2>1, <2>2, <2>3, <2>4, <2>5 DEF Run, DocumentOpen, DocumentChange
<1> QED
  BY <1>1, <1>2, <1>3

\* What the handler of a document does to its text.
LEMMA StoringText ==
    ASSUME EditorInv, NEW t \in Tasks, StoreDocument(t) \/ DocumentClose(t)
    PROVE  /\ t \in Sent /\ Doc(t) \in Docs /\ Edits(inbox, t, Doc(t))
           /\ docs' = [docs EXCEPT ![ByDocument(Doc(t))][Doc(t)] = TextLeft(inbox, t)]
           /\ pc[t] \in Bodies /\ ~WaitsAtBody(t) /\ Kind(t) # "initialized" /\ Writes(t)
<1>0. IInv /\ OrderInv /\ BodiesOfKinds /\ SteadyWorld
  BY DEF EditorInv, TextInv, OrderInv
<1>1. Runs(t, "store") \/ Runs(t, "remove")
  BY DEF StoreDocument, DocumentClose
<1>2. /\ t \in Sent /\ Doc(t) \in Docs /\ pc[t] \in {"store", "remove"}
      /\ ready \in Seq(Sent) /\ ready # <<>> /\ Head(ready) = t
  BY <1>0, <1>1, RunningSection DEF Runs, DocSections, IInv, TypeOK, ExecutorOK
<1>3. /\ pc[t] = HandlerBody[Kind(t)] /\ Kind(t) # "initialized" /\ Kind(t) \in Kinds
  BY <1>0, <1>2, KindsOfSent DEF BodiesOfKinds, Bodies
<1>4. /\ pc[t] = "store" => Kind(t) \in {"open", "change"}
      /\ pc[t] = "remove" => Kind(t) = "close"
  BY <1>2, <1>3 DEF Kinds, HandlerBody
<1>5. Edits(inbox, t, Doc(t)) /\ Writes(t)
  BY <1>2, <1>4 DEF Edits, Kind, Doc, Writes, HandlerLock
<1>6. docs' = [docs EXCEPT ![ByDocument(Doc(t))][Doc(t)] = TextLeft(inbox, t)]
  <2>1. CASE StoreDocument(t)
    <3>1. ByDocument(Doc(t)) \in Workspaces
      BY <1>0, <1>2, ByDocumentPresent DEF IInv, TypeOK, WorldOK
    <3>2. Doc(t) \in included[ByDocument(Doc(t))]
      BY <1>0, <1>2, <3>1 DEF SteadyWorld
    <3>3. TextLeft(inbox, t) = t
      BY <1>4, <2>1 DEF StoreDocument, Runs, TextLeft, Kind
    <3> QED
      BY <2>1, <3>2, <3>3 DEF StoreDocument
  <2>2. CASE DocumentClose(t)
    <3>1. TextLeft(inbox, t) = NoText
      BY <1>4, <2>2 DEF DocumentClose, Runs, TextLeft, Kind
    <3> QED
      BY <2>2, <3>1 DEF DocumentClose
  <2> QED
    BY <2>1, <2>2
<1>7. ~WaitsAtBody(t)
  <2>1. ready[1] = t /\ 1 \in 1..Len(ready)
    BY <1>2
  <2> QED
    BY <1>0, <2>1 DEF OrderInv, QueueOrder, ReadyWaitForNothing
<1> QED
  BY <1>2, <1>3, <1>5, <1>6, <1>7 DEF Bodies

\* A message that edits a document is served when its text is stored.
LEMMA NewlyServed ==
    ASSUME IInv, OrderInv, NEW t \in Tasks,
           Run(t) \/ InputOutputDone(t) \/ ClientAnswers(t),
           NEW u \in Sent, NEW d, Edits(inbox, u, d), pc[u] \in Unserved, pc'[u] \notin Unserved
    PROVE  u = t /\ d = Doc(t) /\ (StoreDocument(t) \/ DocumentClose(t))
<1>0. BodiesOfKinds
  BY DEF OrderInv
<1>1. Kind(u) \in {"open", "change", "close"} /\ d = Doc(u)
  BY DEF Edits, Kind, Doc
<1>2. u = t /\ pc[t] \in Bodies
  BY <1>0, <1>1, Serving
<1>3. pc[t] \in {"store", "remove"}
  BY <1>0, <1>1, <1>2 DEF BodiesOfKinds, HandlerBody
<1>4. ~InputOutputDone(t) /\ ~ClientAnswers(t)
  BY <1>3 DEF InputOutputDone, InputOutput, ClientAnswers
<1> QED
  BY <1>1, <1>2, <1>3, <1>4, BodySteps

\* Tasks run without a word from the client, an answer apart.
LEMMA RunKeepsClient ==
    ASSUME NEW t \in Tasks, Run(t) \/ InputOutputDone(t) \/ ClientAnswers(t)
    PROVE  UNCHANGED client
<1>1. CASE FirstPoll(t) \/ InputOutputDone(t) \/ ClientAnswers(t)
  BY <1>1 DEF FirstPoll, InputOutputDone, ClientAnswers
<1>2. CASE \/ StoreDocument(t) \/ DocumentClose(t) \/ ClearDiagnostics(t)
           \/ PublishSyntaxErrors(t) \/ PublishDomErrors(t)
           \/ ReadForSchema(t) \/ PublishSchemaErrors(t)
  BY <1>2 DEF StoreDocument, DocumentClose, ClearDiagnostics, PublishSyntaxErrors,
              PublishDomErrors, PublishStage, NothingToPublish, ReadForSchema,
              PublishSchemaErrors
<1>3. CASE \/ AnswerQuery(t) \/ ReplyToQuery(t)
           \/ ConfigurationChange(t) \/ ConfigurationDone(t) \/ UpdateConfiguration(t)
           \/ RequestConfiguration(t) \/ HandleResponse(t)
  BY <1>3 DEF AnswerQuery, ReplyToQuery, ConfigurationChange, ConfigurationDone,
              UpdateConfiguration, RequestConfiguration, HandleResponse
<1>4. CASE \/ InitializeWorkspace(t, "initialize")
           \/ InitializeWorkspace(t, "initialize_added")
           \/ WorkspaceChange(t) \/ WorkspaceChangeDone(t)
           \/ AssociateSchema(t) \/ AssociateInWorkspace(t) \/ AssociateSchemaDone(t)
           \/ AssociatePattern(t)
  BY <1>4 DEF InitializeWorkspace, WorkspaceChange, WorkspaceChangeDone, AssociateSchema,
              AssociateInWorkspace, AssociateSchemaDone, AssociatePattern
<1> QED
  BY <1>1, <1>2, <1>3, <1>4 DEF Run, DocumentOpen, DocumentChange

LEMMA WorldTextsKept ==
    ASSUME EditorInv, NEW t \in Tasks, Run(t) \/ InputOutputDone(t) \/ ClientAnswers(t)
    PROVE  WorldTexts'
<1>0. IInv /\ OrderInv /\ ServedInOrder /\ SteadyWorld
  BY DEF EditorInv, TextInv
<1>1. inbox' = inbox
  BY RunKeepsClient DEF client
<1>2. folders' = folders /\ ~WorkspaceChange(t)
  BY <1>0, WorldStaysSteady
<1>3. ServedMessages \subseteq ServedMessages' /\ ServedMessages' \subseteq Sent
  BY <1>0, <1>1, Serving DEF ServedMessages, Sent
<1>4. SUFFICES ASSUME NEW d \in Docs
               PROVE  TextAfter(inbox, ServedMessages', d, docs'[ByDocument(d)][d])
  BY <1>1, <1>2 DEF WorldTexts, ByDocument
<1>5. ASSUME NEW u \in ServedMessages' \ ServedMessages, Edits(inbox, u, d)
      PROVE  u = t /\ d = Doc(t) /\ (StoreDocument(t) \/ DocumentClose(t))
  BY <1>0, <1>1, <1>3, <1>5, NewlyServed DEF ServedMessages
<1>6. TextAfter(inbox, ServedMessages, d, docs[ByDocument(d)][d])
  BY DEF EditorInv, WorldTexts
<1>7. ByDocument(d) \in Workspaces /\ docs \in [Workspaces -> [Docs -> 0..Len(inbox)]]
  BY <1>0, ByDocumentPresent DEF IInv, TypeOK, WorldOK
<1>8. CASE (StoreDocument(t) \/ DocumentClose(t)) /\ d = Doc(t)
  <2>1. /\ t \in Sent /\ Edits(inbox, t, d) /\ pc[t] \in Unserved
        /\ docs' = [docs EXCEPT ![ByDocument(d)][d] = TextLeft(inbox, t)]
        /\ Kind(t) # "initialized" /\ Writes(t)
    BY <1>8, StoringText DEF Unserved
  <2>2. docs'[ByDocument(d)][d] = TextLeft(inbox, t)
    BY <1>7, <2>1
  <2>3. t \in Nat /\ \A j \in ServedMessages : j \in Nat
    <3>1. Sent \subseteq Nat /\ ServedMessages \subseteq Sent
      BY <1>0, QueueTypes DEF IInv, ServedMessages
    <3> QED
      BY <2>1, <3>1
  <2>4. ASSUME NEW j \in ServedMessages, Edits(inbox, j, d)
        PROVE  j <= t
    <3>1. j \in Sent /\ pc[j] \notin Unserved /\ Kind(j) # "initialized"
      BY <2>4 DEF ServedMessages, Edits, Kind
    <3>2. ~(t < j)
      BY <1>0, <2>1, <3>1 DEF ServedInOrder
    <3> QED
      BY <2>3, <3>2
  <2>5. TextAfter(inbox, ServedMessages \cup {t}, d, TextLeft(inbox, t))
    BY <2>1, <2>3, <2>4, TextOfLast
  <2>6. t \in ServedMessages'
    <3>1. pc[t] \in {"store", "remove"}
      BY <1>8 DEF StoreDocument, DocumentClose, Runs
    <3>2. pc' = [pc EXCEPT ![t] = "syntax"] \/ pc' = [pc EXCEPT ![t] = "done"]
          \/ pc' = [pc EXCEPT ![t] = "clear"]
      BY <1>8 DEF StoreDocument, DocumentClose, DropAndTake, TakeLock, DropAndFinish,
                  SpawnAndFinish, Goto
    <3>3. pc'[t] \in {"syntax", "done", "clear"}
      BY <1>0, <3>2 DEF IInv, TypeOK, ExecutorOK
    <3> QED
      BY <1>1, <2>1, <3>3 DEF ServedMessages, Unserved, Bodies, Sent
  <2>7. \A k \in (ServedMessages \cup {t}) \cup ServedMessages' :
            Edits(inbox, k, d) => (k \in ServedMessages \cup {t} <=> k \in ServedMessages')
    BY <1>3, <1>5, <2>6
  <2> QED
    BY <2>2, <2>5, <2>7, SameText
<1>9. CASE ~((StoreDocument(t) \/ DocumentClose(t)) /\ d = Doc(t))
  <2>1. docs'[ByDocument(d)][d] = docs[ByDocument(d)][d]
    <3>1. CASE StoreDocument(t) \/ DocumentClose(t)
      <4>1. docs' = [docs EXCEPT ![ByDocument(Doc(t))][Doc(t)] = TextLeft(inbox, t)]
        BY <3>1, StoringText
      <4>2. d # Doc(t)
        BY <1>9, <3>1
      <4> QED
        BY <1>7, <4>1, <4>2
    <3>2. CASE ~(StoreDocument(t) \/ DocumentClose(t))
      BY <1>2, <3>2, OtherStepsKeepTexts
    <3> QED
      BY <3>1, <3>2
  <2>2. \A k \in ServedMessages \cup ServedMessages' :
            Edits(inbox, k, d) => (k \in ServedMessages <=> k \in ServedMessages')
    BY <1>3, <1>5, <1>9
  <2> QED
    BY <1>6, <2>1, <2>2, SameText
<1> QED
  BY <1>8, <1>9

\* A request that is answered finds the text it is about.
LEMMA QueryText ==
    ASSUME EditorInv, NEW t \in Sent, pc[t] = "answer", ~WaitsAtBody(t)
    PROVE  docs[ByDocument(Doc(t))][Doc(t)] = inbox[t].about
<1>0. IInv /\ OrderInv /\ BodiesOfKinds /\ ServedInOrder
  BY DEF EditorInv, TextInv, OrderInv
<1>1. pc[t] \in Bodies /\ pc[t] \in Unserved
  BY DEF Bodies, Unserved
<1>2. Kind(t) = "query"
  BY <1>0, <1>1, KindsOfSent DEF BodiesOfKinds, Kinds, HandlerBody
<1> DEFINE d == Doc(t)
           Before == 1..(t - 1)
<1>3. d \in Docs /\ TextAfter(inbox, Before, d, inbox[t].about)
  BY <1>2 DEF EditorInv, RequestTexts
<1>4. TextAfter(inbox, ServedMessages, d, docs[ByDocument(d)][d])
  BY <1>3 DEF EditorInv, WorldTexts
<1>5. /\ t \in Nat /\ Sent \subseteq Nat /\ ServedMessages \subseteq Sent
      /\ Before \subseteq Sent /\ \A k \in Before : k < t
  BY <1>0, QueueTypes DEF IInv, ServedMessages, Sent
<1>6. ASSUME NEW k \in Sent, Edits(inbox, k, d)
      PROVE  k \in Before <=> k \in ServedMessages
  <2>1. Kind(k) \in {"open", "change", "close"}
    BY <1>6 DEF Edits, Kind
  <2>2. Writes(k) /\ Kind(k) # "initialized" /\ Kind(t) # "initialized" /\ k # t
    BY <1>2, <2>1 DEF Writes, HandlerLock
  <2>3. CASE k < t
    <3>1. pc[k] \notin Unserved
      BY <1>0, <1>1, <2>2, <2>3, EarlierAreServed
    <3>2. k \in Before
      BY <1>5, <2>3 DEF Sent
    <3> QED
      BY <3>1, <3>2 DEF ServedMessages
  <2>4. CASE t < k
    <3>1. pc[k] \in Unserved
      BY <1>0, <1>1, <2>2, <2>4 DEF ServedInOrder
    <3>2. k \notin Before
      BY <1>5, <2>4
    <3> QED
      BY <3>1, <3>2 DEF ServedMessages
  <2>5. k < t \/ t < k
    BY <1>5, <2>2
  <2> QED
    BY <2>3, <2>4, <2>5
<1> HIDE DEF d, Before
<1>7. TextAfter(inbox, Before, d, docs[ByDocument(d)][d])
  <2>1. \A k \in ServedMessages \cup Before :
            Edits(inbox, k, d) => (k \in ServedMessages <=> k \in Before)
    BY <1>5, <1>6
  <2> QED
    BY <1>4, <2>1, SameText
<1>8. Before \subseteq Nat
  BY <1>5
<1>9. docs[ByDocument(d)][d] = inbox[t].about
  BY <1>3, <1>7, <1>8, OneText
<1> QED
  BY <1>9 DEF d

\* Only the running task comes to wait for the lock.
LEMMA NoNewWaiter ==
    ASSUME IInv, IInv', OrderInv, NEW t \in Tasks,
           Run(t) \/ InputOutputDone(t) \/ ClientAnswers(t),
           NEW g, g \notin OwnGuards(t) \/ InputOutputDone(t), ~Waits(lock, g)
    PROVE  ~Waits(lock', g)
<1>0. TypeOK /\ TypeOK'
  BY DEF IInv
<1>1. CASE InputOutputDone(t) \/ ClientAnswers(t)
  BY <1>1 DEF InputOutputDone, ClientAnswers
<1>2. CASE FirstPoll(t) /\ Kind(t) = "initialized"
  BY <1>2 DEF FirstPoll
<1>3. CASE Run(t) /\ g \notin OwnGuards(t) /\ ~(FirstPoll(t) /\ Kind(t) = "initialized")
  <2>1. PICK label, s, n : Moves(t, label, s, n)
    <3>1. CASE FirstPoll(t)
      BY <1>3, <3>1, FirstPollQueues
    <3>2. CASE ~FirstPoll(t)
      BY <1>3, <3>2, RunMoves DEF LaterStep, GoesOn, StepMoves
    <3> QED
      BY <3>1, <3>2
  <2>2. SUFFICES ASSUME NEW i \in 1..Len(lock'.queue), lock'.queue[i].guard = g
                 PROVE  FALSE
    BY DEF Waits
  <2>3. i + n \in 1..Len(lock.queue) /\ lock'.queue[i] = lock.queue[i + n]
    BY <1>0, <1>3, <2>1, <2>2, WaiterBefore
  <2> QED
    BY <2>2, <2>3 DEF Waits
<1> QED
  BY <1>1, <1>2, <1>3

\* While a request replies, nobody stores a text.
LEMMA NobodyStores ==
    ASSUME EditorInv, NEW t \in Tasks, Run(t) \/ InputOutputDone(t) \/ ClientAnswers(t),
           NEW x \in Sent, pc[x] = "reply", ~Waits(lock, HandlerGuard(x))
    PROVE  docs' = docs
<1>0. IInv /\ BodiesOfKinds /\ SteadyWorld
  BY DEF EditorInv, TextInv, OrderInv
<1>1. HandlerGuard(x) \in lock.read
  <2>1. Asked(lock, HandlerGuard(x), "read")
    BY <1>0, QueueTypes DEF IInv, SectionsAreGuarded, SectionGuard, ReadSections
  <2> QED
    BY <2>1, AskedAndNotWaiting
<1>2. ASSUME StoreDocument(t) \/ DocumentClose(t)
      PROVE  FALSE
  <2>1. t \in Sent /\ pc[t] \in Bodies /\ ~WaitsAtBody(t) /\ Writes(t)
    BY <1>2, StoringText
  <2>2. HandlerGuard(t) \in lock.write
    BY <1>0, <2>1, BodyHoldsGuard DEF Writes
  <2> QED
    BY <1>0, <1>1, <2>2 DEF IInv, TypeOK, WorldOK, WellFormed
<1> QED
  BY <1>0, <1>2, WorldStaysSteady, OtherStepsKeepTexts

LEMMA RepliesKept ==
    ASSUME EditorInv, IInv', NEW t \in Tasks, Run(t) \/ InputOutputDone(t) \/ ClientAnswers(t)
    PROVE  Replies'
<1>0. IInv /\ OrderInv /\ SteadyWorld /\ Replies
  BY DEF EditorInv, TextInv
<1>1. SUFFICES ASSUME NEW x \in Sent', pc'[x] = "reply"
               PROVE  Replied(x)'
  BY DEF Replies
<1>2. inbox' = inbox /\ folders' = folders
  BY <1>0, RunKeepsClient, WorldStaysSteady DEF client
<1>3. x \in Sent
  BY <1>1, <1>2 DEF Sent
<1>4. x \in Tasks
  BY <1>0, <1>3, SentAreTasks DEF IInv
<1>5. /\ Replied(x)' <=> /\ ~Waits(lock', HandlerGuard(x))
                         /\ local'[x].dom = inbox[x].about
                         /\ docs'[ByDocument(Doc(x))][Doc(x)] = inbox[x].about
  BY <1>2 DEF Replied, ByDocument, Doc, HandlerGuard
<1>6. CASE /\ local'[x].dom = local[x].dom /\ pc[x] = "reply"
           /\ x = t => InputOutputDone(t)
  <2>1. /\ ~Waits(lock, HandlerGuard(x)) /\ local[x].dom = inbox[x].about
        /\ docs[ByDocument(Doc(x))][Doc(x)] = inbox[x].about
    BY <1>0, <1>3, <1>6 DEF Replies, Replied
  <2>2. ~Waits(lock', HandlerGuard(x))
    <3>1. x # t => HandlerGuard(x) \notin OwnGuards(t)
      BY DEF HandlerGuard, PublishGuard, OwnGuards
    <3> QED
      BY <1>0, <1>6, <2>1, <3>1, NoNewWaiter
  <2>3. docs' = docs
    BY <1>3, <1>6, <2>1, NobodyStores
  <2> QED
    BY <1>5, <1>6, <2>1, <2>2, <2>3
<1>7. CASE x = t /\ AnswerQuery(t)
  <2>1. /\ pc[t] = "answer" /\ ready # <<>> /\ Head(ready) = t /\ UNCHANGED <<lock, docs>>
        /\ local' = [local EXCEPT ![t].dom = docs[ByDocument(Doc(t))][Doc(t)]]
    BY <1>7 DEF AnswerQuery, Runs, world
  <2>2. ready \in Seq(Sent) /\ local \in [Tasks -> LocalState]
    BY <1>0 DEF IInv, TypeOK, ExecutorOK
  <2>3. ready[1] = t /\ 1 \in 1..Len(ready)
    BY <2>1, <2>2
  <2>4. ~WaitsAtBody(t)
    BY <1>0, <2>3 DEF OrderInv, QueueOrder, ReadyWaitForNothing
  <2>5. ~Waits(lock, HandlerGuard(t))
    BY <2>1, <2>4 DEF WaitsAtBody, Bodies
  <2>6. docs[ByDocument(Doc(t))][Doc(t)] = inbox[t].about
    BY <1>3, <1>7, <2>1, <2>4, QueryText
  <2>7. local'[t].dom = inbox[t].about
    BY <2>1, <2>2, <2>6
  <2> QED
    BY <1>5, <1>7, <2>1, <2>5, <2>6, <2>7
<1> QED
  BY <1>0, <1>1, <1>4, <1>6, <1>7, LocalsStay

LEMMA RunningKeepsAgreement ==
    ASSUME EditorInv, IInv', NEW t \in Tasks, Run(t) \/ InputOutputDone(t) \/ ClientAnswers(t)
    PROVE  SteadyWorld' /\ EditorTexts' /\ WorldTexts' /\ RequestTexts' /\ Replies'
<1>0. IInv /\ SteadyWorld
  BY DEF EditorInv, TextInv
<1>1. UNCHANGED client
  BY <1>0, RunKeepsClient
<1>2. folders' = folders /\ included' = included
  BY <1>0, WorldStaysSteady
<1>3. SteadyWorld'
  BY <1>0, <1>1, <1>2 DEF SteadyWorld, Steady, client, Sent, Kind
<1>4. EditorTexts' /\ RequestTexts'
  BY <1>1 DEF EditorInv, EditorTexts, RequestTexts, client, Sent, Kind, Doc
<1>5. WorldTexts' /\ Replies'
  BY WorldTextsKept, RepliesKept
<1> QED
  BY <1>3, <1>4, <1>5

LEMMA EditorInvariance == EditorInv /\ [Next]_vars => EditorInv'
<1> SUFFICES ASSUME EditorInv, [Next]_vars PROVE EditorInv'
  OBVIOUS
<1>1. TextInv' /\ IInv'
  BY TextInvariance DEF EditorInv, TextInv
<1>2. CASE ClientSends
  BY <1>1, <1>2, SendingKeepsAgreement DEF EditorInv
<1>3. ASSUME NEW t \in Tasks, Run(t) \/ InputOutputDone(t) \/ ClientAnswers(t)
      PROVE  EditorInv'
  BY <1>1, <1>3, RunningKeepsAgreement DEF EditorInv
<1>4. CASE UNCHANGED vars
  <2>1. SteadyWorld' /\ EditorTexts' /\ RequestTexts'
    BY <1>4 DEF EditorInv, SteadyWorld, Steady, EditorTexts, RequestTexts, vars, Sent, Kind, Doc
  <2>2. WorldTexts'
    BY <1>4 DEF EditorInv, WorldTexts, ServedMessages, ByDocument, vars, Sent
  <2>3. Replies'
    <3>1. /\ inbox' = inbox /\ pc' = pc /\ lock' = lock /\ local' = local /\ docs' = docs
          /\ folders' = folders
      BY <1>4 DEF vars
    <3>2. \A t \in Sent : Replied(t)' <=> Replied(t)
      BY <3>1 DEF Replied, ByDocument, HandlerGuard, Doc
    <3>3. Replies
      BY DEF EditorInv
    <3> QED
      BY <3>1, <3>2, <3>3 DEF Replies, Sent
  <2> QED
    BY <1>1, <2>1, <2>2, <2>3 DEF EditorInv
<1> QED
  BY <1>2, <1>3, <1>4 DEF Next, Idle
-------------------------------------------------------------------------------
(* The theorems.                                                               *)

LEMMA InitAgrees == Steady /\ Init => EditorInv
<1> SUFFICES ASSUME Steady, Init PROVE EditorInv
  OBVIOUS
<1>1. TextInv
  BY InitTexts
<1>2. Sent = {} /\ ServedMessages = {}
  BY DEF Init, Sent, ServedMessages
<1>3. SteadyWorld
  <2>1. PICK filter \in [InitialFolders -> {Docs}] :
            included = [w \in Workspaces |-> IF w \in InitialFolders THEN filter[w] ELSE Docs]
    BY DEF Init, Steady
  <2>2. included = [w \in Workspaces |-> Docs]
    BY <2>1
  <2> QED
    BY <1>2, <2>2 DEF SteadyWorld, Init
<1>4. EditorTexts
  BY <1>2 DEF EditorTexts, TextAfter, Init, Closed, NoText
<1>5. WorldTexts
  <2>1. \A d \in Docs : ByDocument(d) \in Workspaces
    BY <1>1, ByDocumentPresent DEF TextInv, IInv, TypeOK, WorldOK
  <2> QED
    BY <1>2, <2>1 DEF WorldTexts, TextAfter, Init
<1>6. RequestTexts /\ Replies
  BY <1>2 DEF RequestTexts, Replies
<1> QED
  BY <1>1, <1>3, <1>4, <1>5, <1>6 DEF EditorInv

\* The texts of the editor, of the world and of the requests agree at every moment,
\* as EditorInv says.
THEOREM TextsAgree == Steady /\ Spec => []EditorInv
<1> QED
  BY InitAgrees, EditorInvariance, PTL DEF Spec

\* When every message is handled, the server holds the very text the editor shows
\* of every document (handlers/documents.rs), however many were edited meanwhile.
THEOREM ServerFollowsEditor == Steady /\ Spec => []DocumentsFollowEditor
<1>1. EditorInv => DocumentsFollowEditor
  <2> SUFFICES ASSUME EditorInv, Quiet, NEW d \in Docs
               PROVE  docs[ByDocument(d)][d] = current[d]
    BY DEF DocumentsFollowEditor
  <2>1. ServedMessages = Sent
    BY DEF Quiet, ServedMessages, Sent, Unserved, Bodies
  <2>2. Sent \subseteq Nat
    BY QueueTypes DEF EditorInv, TextInv, IInv
  <2> QED
    BY <2>1, <2>2, OneText DEF EditorInv, EditorTexts, WorldTexts
<1> QED
  BY <1>1, TextsAgree, PTL

\* A request about a position is answered from the text the editor showed when it
\* was sent (hover, completion and the other handlers that read a document).
THEOREM RequestsSeeTheirText == Steady /\ Spec => []QueriesSeeTheirText
<1>1. EditorInv => QueriesSeeTheirText
  BY DEF EditorInv, Replies, Replied, QueriesSeeTheirText, Sent
<1> QED
  BY <1>1, TextsAgree, PTL

-------------------------------------------------------------------------------
(* The third part, as long as no folder comes or goes: the diagnostics shown   *)
(* of a document never go back to an older text, and a document that is closed *)
(* for good ends without any.                                                  *)
(*                                                                             *)
(* publish_diagnostics drops its guard between its three stages, so neither    *)
(* follows from the order of the handlers alone.  What each stage publishes is *)
(* of the text that the world holds under the guard of that stage; the texts   *)
(* in the world follow the editor's (EditorTexts), and whoever closes a        *)
(* document removes its text before it clears what is shown: DiagInv.          *)
(*                                                                             *)
(* The last stage reads the text again without a look whether it is there, and *)
(* finds it because no writer came in between.  That needs the guards of a     *)
(* task to be those of its section only, and the task to stand in one queue,   *)
(* once: ExecInv, which holds whatever folders do.                             *)

\* Nobody stands twice in the queue of the executor, in that of the lock, or in both.
ReadyOnce == \A i, j \in 1..Len(ready) : ready[i] = ready[j] => i = j
WaitersOnce == \A i, j \in 1..Len(lock.queue) : WaiterOf(i) = WaiterOf(j) => i = j
WaitersNotReady ==
    \A i \in 1..Len(ready), k \in 1..Len(lock.queue) : ready[i] # WaiterOf(k)

\* Who waits for the lock waits neither for a file nor for the client.
AwaitsOther == InputOutput \cup {"asked"}
WaitersAwaitLock == \A k \in 1..Len(lock.queue) : pc[WaiterOf(k)] \notin AwaitsOther

\* A task has or awaits the guard of publish_diagnostics in its stages alone, and that
\* of its handler, or of the update_configuration it spawned, once it was polled.
Claims(l, g) == Holds(l, g) \/ Waits(l, g)
ClaimsAreDue ==
    \A t \in Sent :
        /\ Claims(lock, PublishGuard(t)) => pc[t] \in PublishSections
        /\ Claims(lock, HandlerGuard(t)) => pc[t] \notin {"unborn", "update"}

ExecInv == ReadyOnce /\ WaitersOnce /\ WaitersNotReady /\ WaitersAwaitLock /\ ClaimsAreDue

\* The client never changes its folders: the workspace of a document stays the same.
\* (Otherwise a text stays behind in a workspace that no longer answers for it.)
FoldersStay == "folders" \notin Traffic
SteadyTraffic == FoldersStay /\ \A t \in Sent : Kind(t) \in Traffic

\* The messages that store a text of a document, and those that close it.
Stores(t, d) == Kind(t) \in {"open", "change"} /\ Doc(t) = d
Closes(t, d) == Kind(t) = "close" /\ Doc(t) = d

\* A text is in the workspace of its document, and no close of the document that came
\* after it was served: each removes the text it finds.
TextsInPlace == \A w \in Workspaces, d \in Docs : docs[w][d] # NoText => w = ByDocument(d)
TextsNotClosed ==
    \A w \in Workspaces, d \in Docs : docs[w][d] # NoText =>
        \A j \in Sent : Closes(j, d) /\ j > docs[w][d] => pc[j] \in Unserved

\* A close removes the text, clears what is shown, and does nothing else.
ClosingLabels ==
    \A t \in Sent : Kind(t) = "close" => pc[t] \in {"unborn", "remove", "clear", "done"}

\* Whoever validates has its guard, and the text it read of the document is there.
Validated(t) ==
    ~Waits(lock, PublishGuard(t)) /\ docs[local[t].ws][Doc(t)] # NoText
Validating == \A t \in Sent : pc[t] = "validate" => Validated(t)

\* What is shown of a document is of a text that was stored, and of none that is newer
\* than the one in the world.
ShownTexts ==
    \A d \in Docs : shown[d].text # NoText =>
        /\ shown[d].text \in Sent /\ Stores(shown[d].text, d)
        /\ pc[shown[d].text] \notin Unserved
        /\ \A w \in Workspaces : docs[w][d] # NoText => docs[w][d] >= shown[d].text

\* While anything is shown of a document, some text of it was stored after which no
\* close came that is done.
ShownIsLive ==
    \A d \in Docs : shown[d] # Cleared =>
        \E k \in Sent : /\ Stores(k, d)
                        /\ \A j \in Sent : Closes(j, d) /\ j > k => pc[j] # "done"

DiagInv ==
    /\ TextInv /\ ExecInv /\ SteadyTraffic /\ EditorTexts
    /\ TextsInPlace /\ TextsNotClosed /\ ClosingLabels /\ Validating /\ ShownTexts /\ ShownIsLive
-------------------------------------------------------------------------------
(* What a step does to the two queues, position by position.                   *)

NotWaiting(t) == \A k \in 1..Len(lock.queue) : WaiterOf(k) # t
NotReady(t) == \A i \in 1..Len(ready) : ready[i] # t

\* As Moves, with the places of those who enter: the n waiters served, in order, and
\* then t, a times; and t in the lock's queue, b times.
ReadyTurns(t, s, n, a) ==
    /\ Len(ready') \in Nat
    /\ \A i \in 1..Len(ready') :
           \/ i + s \in 1..Len(ready) /\ ready'[i] = ready[i + s]
           \/ i - (Len(ready) - s) \in 1..n /\ ready'[i] = WaiterOf(i - (Len(ready) - s))
           \/ a = 1 /\ i = Len(ready) - s + n + 1 /\ ready'[i] = t
LockTurns(t, n, b) ==
    /\ Len(lock'.queue) \in Nat
    /\ \A k \in 1..Len(lock'.queue) :
           \/ k + n \in 1..Len(lock.queue) /\ lock'.queue[k] = lock.queue[k + n]
           \/ b = 1 /\ k = Len(lock.queue) - n + 1 /\ lock'.queue[k].guard \in OwnGuards(t)
Turns(t, s, n, a, b) ==
    /\ s \in {0, 1} /\ a \in {0, 1} /\ b \in {0, 1} /\ n \in 0..Len(lock.queue)
    /\ s = 1 => 1 \in 1..Len(ready) /\ ready[1] = t
    /\ ReadyTurns(t, s, n, a) /\ LockTurns(t, n, b)

\* Tasks stand once in the queues if they did before, and t enters one that it is
\* not in.
LEMMA TurnsKeepOnce ==
    ASSUME TypeOK, ReadyOnce, WaitersOnce, WaitersNotReady,
           NEW t, NEW s, NEW n, NEW a, NEW b, Turns(t, s, n, a, b), NotWaiting(t),
           a = 1 => s = 1 \/ NotReady(t), b = 1 => s = 1 /\ a = 0
    PROVE  ReadyOnce' /\ WaitersOnce' /\ WaitersNotReady'
<1>0. /\ Len(ready) \in Nat /\ Len(lock.queue) \in Nat /\ n \in Nat /\ n <= Len(lock.queue)
      /\ s \in {0, 1} /\ a \in {0, 1} /\ b \in {0, 1}
      /\ Len(ready') \in Nat /\ Len(lock'.queue) \in Nat
      /\ ReadyTurns(t, s, n, a) /\ LockTurns(t, n, b)
  BY QueueTypes DEF Turns, ReadyTurns, LockTurns
<1>5. \A k \in 1..Len(lock'.queue) :
          \/ k + n \in 1..Len(lock.queue) /\ WaiterOf(k)' = WaiterOf(k + n)
          \/ b = 1 /\ k = Len(lock.queue) - n + 1 /\ WaiterOf(k)' = t
  <2>1. LockTurns(t, n, b)
    BY <1>0
  <2> QED
    BY <2>1 DEF LockTurns, WaiterOf, OwnGuards, HandlerGuard, PublishGuard
<1>1. ASSUME NEW i \in 1..Len(ready), ready[i] = t, s = 1
      PROVE  i = 1
  BY <1>1 DEF Turns, ReadyOnce
<1>6. \A z \in 1..n : z \in 1..Len(lock.queue)
  BY <1>0
<1>2. ReadyOnce'
  <2>1. SUFFICES ASSUME NEW i \in 1..Len(ready'), NEW j \in 1..Len(ready'),
                        ready'[i] = ready'[j], i # j
                 PROVE  FALSE
    BY DEF ReadyOnce
  <2> DEFINE Old(x) == x + s \in 1..Len(ready) /\ ready'[x] = ready[x + s]
             Waited(x) == /\ x - (Len(ready) - s) \in 1..n
                          /\ ready'[x] = WaiterOf(x - (Len(ready) - s))
             Again(x) == a = 1 /\ x = Len(ready) - s + n + 1 /\ ready'[x] = t
  <2>2. \A x \in 1..Len(ready') : Old(x) \/ Waited(x) \/ Again(x)
    BY <1>0 DEF ReadyTurns
  <2>3. ASSUME NEW x \in 1..Len(ready'), NEW y \in 1..Len(ready'), Old(x), Old(y),
               ready'[x] = ready'[y]
        PROVE  x = y
    <3>1. x + s = y + s
      BY <2>3 DEF ReadyOnce
    <3> QED
      BY <1>0, <3>1
  <2>4. ASSUME NEW x \in 1..Len(ready'), NEW y \in 1..Len(ready'), Old(x), Waited(y),
               ready'[x] = ready'[y]
        PROVE  FALSE
    <3>1. y - (Len(ready) - s) \in 1..Len(lock.queue)
      BY <1>6, <2>4, Zenon
    <3> QED
      BY <2>4, <3>1 DEF WaitersNotReady
  <2>5. ASSUME NEW x \in 1..Len(ready'), NEW y \in 1..Len(ready'), Old(x), Again(y),
               ready'[x] = ready'[y]
        PROVE  FALSE
    <3>1. ready[x + s] = t
      BY <2>5
    <3>2. s = 1
      BY <2>5, <3>1 DEF NotReady
    <3>3. x + s = 1
      BY <1>1, <2>5, <3>1, <3>2
    <3> QED
      BY <3>2, <3>3
  <2>6. ASSUME NEW x \in 1..Len(ready'), NEW y \in 1..Len(ready'), Waited(x), Waited(y),
               ready'[x] = ready'[y]
        PROVE  x = y
    <3> DEFINE f == Len(ready) - s
    <3>1. f \in Int
      BY <1>0
    <3>2. x - f \in 1..Len(lock.queue) /\ y - f \in 1..Len(lock.queue)
      BY <1>6, <2>6, Zenon
    <3>3. x - f = y - f
      BY <2>6, <3>2 DEF WaitersOnce
    <3> HIDE DEF f
    <3> QED
      BY <3>1, <3>3
  <2>7. ASSUME NEW x \in 1..Len(ready'), NEW y \in 1..Len(ready'), Waited(x), Again(y),
               ready'[x] = ready'[y]
        PROVE  FALSE
    <3>1. x - (Len(ready) - s) \in 1..Len(lock.queue)
      BY <1>6, <2>7, Zenon
    <3> QED
      BY <2>7, <3>1 DEF NotWaiting
  <2>8. ASSUME Again(i), Again(j)
        PROVE  FALSE
    BY <2>1, <2>8
  <2> HIDE DEF Old, Waited, Again
  <2> QED
    BY <2>1, <2>2, <2>3, <2>4, <2>5, <2>6, <2>7, <2>8
<1>3. WaitersOnce'
  <2>1. SUFFICES ASSUME NEW i \in 1..Len(lock'.queue), NEW j \in 1..Len(lock'.queue),
                        WaiterOf(i)' = WaiterOf(j)', i # j
                 PROVE  FALSE
    BY DEF WaitersOnce
  <2>2. \A k \in 1..Len(lock'.queue) :
            \/ k + n \in 1..Len(lock.queue) /\ WaiterOf(k)' = WaiterOf(k + n)
            \/ k = Len(lock.queue) - n + 1 /\ WaiterOf(k)' = t
    BY <1>5
  <2>3. CASE /\ i + n \in 1..Len(lock.queue) /\ WaiterOf(i)' = WaiterOf(i + n)
             /\ j + n \in 1..Len(lock.queue) /\ WaiterOf(j)' = WaiterOf(j + n)
    <3>1. i + n = j + n
      BY <2>1, <2>3 DEF WaitersOnce
    <3> QED
      BY <1>0, <2>1, <3>1
  <2>4. CASE i = Len(lock.queue) - n + 1 /\ WaiterOf(i)' = t
    BY <2>1, <2>2, <2>4 DEF NotWaiting
  <2>5. CASE j = Len(lock.queue) - n + 1 /\ WaiterOf(j)' = t
    BY <2>1, <2>2, <2>5 DEF NotWaiting
  <2> QED
    BY <2>2, <2>3, <2>4, <2>5
<1>4. WaitersNotReady'
  <2>1. SUFFICES ASSUME NEW i \in 1..Len(ready'), NEW k \in 1..Len(lock'.queue),
                        ready'[i] = WaiterOf(k)'
                 PROVE  FALSE
    BY DEF WaitersNotReady
  <2>2. \/ i + s \in 1..Len(ready) /\ ready'[i] = ready[i + s]
        \/ i - (Len(ready) - s) \in 1..n /\ ready'[i] = WaiterOf(i - (Len(ready) - s))
        \/ a = 1 /\ ready'[i] = t
    BY <1>0 DEF ReadyTurns
  <2>3. CASE k + n \in 1..Len(lock.queue) /\ WaiterOf(k)' = WaiterOf(k + n)
    <3>1. CASE i + s \in 1..Len(ready) /\ ready'[i] = ready[i + s]
      BY <2>1, <2>3, <3>1 DEF WaitersNotReady
    <3>2. CASE i - (Len(ready) - s) \in 1..n /\ ready'[i] = WaiterOf(i - (Len(ready) - s))
      <4>1. i - (Len(ready) - s) \in 1..Len(lock.queue)
        BY <1>6, <3>2, Zenon
      <4>2. i - (Len(ready) - s) = k + n
        BY <2>1, <2>3, <3>2, <4>1 DEF WaitersOnce
      <4> QED
        BY <1>0, <3>2, <4>2
    <3>3. CASE a = 1 /\ ready'[i] = t
      BY <2>1, <2>3, <3>3 DEF NotWaiting
    <3> QED
      BY <2>2, <3>1, <3>2, <3>3
  <2>4. CASE b = 1 /\ WaiterOf(k)' = t
    <3>1. s = 1 /\ a = 0
      BY <2>4
    <3>2. CASE i + s \in 1..Len(ready) /\ ready'[i] = ready[i + s]
      <4>1. i + s = 1
        BY <1>1, <2>1, <2>4, <3>1, <3>2
      <4> QED
        BY <3>1, <4>1
    <3>3. CASE i - (Len(ready) - s) \in 1..n /\ ready'[i] = WaiterOf(i - (Len(ready) - s))
      <4>1. i - (Len(ready) - s) \in 1..Len(lock.queue)
        BY <1>6, <3>3, Zenon
      <4> QED
        BY <2>1, <2>4, <3>3, <4>1 DEF NotWaiting
    <3> QED
      BY <2>2, <3>1, <3>2, <3>3
  <2> QED
    BY <1>5, <2>3, <2>4
<1> QED
  BY <1>2, <1>3, <1>4

LEMMA ReadyTurnsOf ==
    ASSUME TypeOK, NEW t \in Sent, NEW n \in Nat, NEW w, WokenBy(w, n),
           NEW s \in {0, 1}, s = 1 => ready # <<>>, NEW a \in {0, 1},
           \/ a = 0 /\ ready' = Rest(s) \o w
           \/ a = 1 /\ ready' = Append(Rest(s) \o w, t)
    PROVE  ReadyTurns(t, s, n, a)
<1> DEFINE front == Rest(s)
           f == Len(ready) - s
           fw == front \o w
<1>1. ready \in Seq(Sent) /\ Len(ready) \in Nat /\ w \in Seq(Sent) /\ Len(w) = n
  BY LenProperties DEF TypeOK, ExecutorOK, WokenBy
<1>2. front \in Seq(Sent) /\ Len(front) = f /\ \A i \in 1..f : front[i] = ready[i + s]
  <2>1. CASE s = 0
    BY <1>1, <2>1 DEF Rest
  <2>2. CASE s = 1
    BY <1>1, <2>2, HeadTailProperties DEF Rest
  <2> QED
    BY <2>1, <2>2
<1> HIDE DEF front
<1>3. f \in Nat /\ Len(front) = f
  BY <1>2, LenProperties
<1>4. \A i \in 1..f : i + s \in 1..Len(ready)
  BY <1>1
<1> HIDE DEF f
<1>5. /\ fw \in Seq(Sent) /\ Len(fw) = f + n
      /\ \A i \in 1..(f + n) : fw[i] = IF i <= f THEN front[i] ELSE w[i - f]
  <2>1. /\ fw \in Seq(Sent) /\ Len(fw) = Len(front) + Len(w)
        /\ \A i \in 1..(Len(front) + Len(w)) :
               fw[i] = IF i <= Len(front) THEN front[i] ELSE w[i - Len(front)]
    BY <1>1, <1>2, ConcatProperties
  <2> QED
    BY <1>1, <1>3, <2>1
<1> HIDE DEF fw
<1>6. ASSUME NEW i \in 1..(f + n)
      PROVE  \/ i + s \in 1..Len(ready) /\ fw[i] = ready[i + s]
             \/ i - f \in 1..n /\ fw[i] = WaiterOf(i - f)
  <2>1. CASE i <= f
    <3>1. i \in 1..f
      BY <1>3, <2>1
    <3> QED
      BY <1>2, <1>4, <1>5, <2>1, <3>1
  <2>2. CASE ~(i <= f)
    <3>1. i - f \in 1..n
      BY <1>3, <2>2
    <3> QED
      BY <1>5, <2>2, <3>1 DEF WokenBy
  <2> QED
    BY <2>1, <2>2
<1>7. CASE a = 0
  BY <1>3, <1>5, <1>6, <1>7, SMTT(30) DEF f, fw, front, ReadyTurns
<1>8. CASE a = 1
  <2>1. ready' = Append(fw, t)
    BY <1>8 DEF fw, front
  <2>0. /\ Len(Append(fw, t)) = Len(fw) + 1 /\ Append(fw, t)[Len(fw) + 1] = t
        /\ \A i \in 1..Len(fw) : Append(fw, t)[i] = fw[i]
    BY <1>5, AppendProperties
  <2>2. /\ Len(ready') = (f + n) + 1 /\ ready'[(f + n) + 1] = t
        /\ \A i \in 1..(f + n) : ready'[i] = fw[i]
    BY <1>5, <2>0, <2>1
  <2>3. ASSUME NEW i \in 1..Len(ready')
        PROVE  \/ i + s \in 1..Len(ready) /\ ready'[i] = ready[i + s]
               \/ i - f \in 1..n /\ ready'[i] = WaiterOf(i - f)
               \/ i = f + n + 1 /\ ready'[i] = t
    <3>1. i \in 1..(f + n) \/ i = (f + n) + 1
      BY <1>3, <2>2
    <3> QED
      BY <1>6, <2>2, <3>1
  <2>4. Len(ready') \in Nat
    BY <1>3, <2>2
  <2> QED
    BY <1>8, <2>3, <2>4 DEF f, ReadyTurns
<1> QED
  BY <1>7, <1>8

LEMMA LockTurnsOf ==
    ASSUME TypeOK, NEW t, NEW l, l \in Locks(Guards(Sent)), NEW n, Served(lock, l, n),
           NEW b \in {0, 1}, NEW g \in OwnGuards(t), NEW mode,
           \/ b = 0 /\ lock'.queue = l.queue
           \/ b = 1 /\ lock'.queue = Append(l.queue, [guard |-> g, mode |-> mode])
    PROVE  LockTurns(t, n, b)
<1> DEFINE m == Len(lock.queue) - n
           e == [guard |-> g, mode |-> mode]
<1>1. Len(lock.queue) \in Nat /\ n \in 0..Len(lock.queue) /\ Len(l.queue) = m /\ m \in Nat
  BY QueueTypes DEF Served
<1>2. \A k \in 1..m : k + n \in 1..Len(lock.queue) /\ l.queue[k] = lock.queue[k + n]
  BY <1>1 DEF Served
<1> HIDE DEF m
<1>3. CASE b = 0
  BY <1>1, <1>2, <1>3 DEF LockTurns
<1>4. CASE b = 1
  <2>1. l.queue \in Seq(Waiters(Guards(Sent)))
    BY DEF Locks, Waiters
  <2>2. lock'.queue = Append(l.queue, e)
    BY <1>4
  <2> HIDE DEF e
  <2>0. /\ Len(Append(l.queue, e)) = Len(l.queue) + 1 /\ Append(l.queue, e)[Len(l.queue) + 1] = e
        /\ \A k \in 1..Len(l.queue) : Append(l.queue, e)[k] = l.queue[k]
    BY <2>1, AppendProperties
  <2>3. /\ Len(lock'.queue) = m + 1 /\ lock'.queue[m + 1] = e
        /\ \A k \in 1..m : lock'.queue[k] = l.queue[k]
    BY <1>1, <2>0, <2>2
  <2>4. ASSUME NEW k \in 1..Len(lock'.queue)
        PROVE  \/ k + n \in 1..Len(lock.queue) /\ lock'.queue[k] = lock.queue[k + n]
               \/ k = m + 1 /\ lock'.queue[k] = e
    <3>1. k \in 1..m \/ k = m + 1
      BY <1>1, <2>3
    <3> QED
      BY <1>2, <2>3, <3>1
  <2>5. Len(lock'.queue) \in Nat
    BY <1>1, <2>3
  <2> QED
    BY <1>4, <2>4, <2>5 DEF m, e, LockTurns
<1> QED
  BY <1>3, <1>4
-------------------------------------------------------------------------------
(* A task that is polled waits for no guard.                                   *)

\* The guards a task may have or await when it stands at label.
MayClaim(t, g, label) ==
    /\ g = PublishGuard(t) => label \in PublishSections
    /\ g = HandlerGuard(t) => label \notin {"unborn", "update"}

\* A step of task t in these terms: of the queues, and of the guards it claims when
\* it stands at label.  The lock is l when n of its waiters are served, and t asks for
\* a guard (b = 1) or not.
EnterReady(t, w, s, a) ==
    \/ a = 0 /\ ready' = Rest(s) \o w
    \/ a = 1 /\ ready' = Append(Rest(s) \o w, t)
EnterLock(t, l, b) ==
    \/ b = 0 /\ lock'.queue = l.queue
    \/ b = 1 /\ \E g \in OwnGuards(t), mode \in Modes :
                    lock'.queue = Append(l.queue, [guard |-> g, mode |-> mode])
ExecStep(t, label, l, n, w, s, a, b) ==
    /\ Goto(t, label) /\ inbox' = inbox
    /\ n \in Nat /\ WokenBy(w, n) /\ l \in Locks(Guards(Sent)) /\ Served(lock, l, n)
    /\ s \in {0, 1} /\ a \in {0, 1} /\ b \in {0, 1}
    /\ s = 1 => ready # <<>> /\ Head(ready) = t
    /\ EnterReady(t, w, s, a) /\ EnterLock(t, l, b)
    /\ NotWaiting(t)
    /\ a = 1 => s = 1 \/ NotReady(t)
    /\ b = 1 => s = 1 /\ a = 0 /\ label \notin AwaitsOther
    /\ \A h : Holds(lock', h) => Holds(l, h) \/ h \in OwnGuards(t)
    /\ \A h \in OwnGuards(t) : Claims(lock', h) => MayClaim(t, h, label)

LEMMA ExecStepKeeps ==
    ASSUME IInv, IInv', ExecInv, NEW t \in Sent, NEW label, NEW l, NEW n, NEW w,
           NEW s, NEW a, NEW b, ExecStep(t, label, l, n, w, s, a, b)
    PROVE  ExecInv'
<1>0. /\ TypeOK /\ TypeOK' /\ Len(lock.queue) \in Nat /\ n \in 0..Len(lock.queue)
      /\ ReadyOnce /\ WaitersOnce /\ WaitersNotReady /\ WaitersAwaitLock /\ ClaimsAreDue
      /\ Goto(t, label) /\ inbox' = inbox /\ NotWaiting(t)
      /\ s \in {0, 1} /\ a \in {0, 1} /\ b \in {0, 1}
      /\ a = 1 => s = 1 \/ NotReady(t)
      /\ b = 1 => s = 1 /\ a = 0 /\ label \notin AwaitsOther
  BY QueueTypes DEF IInv, ExecInv, Served, ExecStep
<1>1. ReadyTurns(t, s, n, a)
  <2>1. s = 1 => ready # <<>>
    BY DEF ExecStep
  <2>2. n \in Nat /\ WokenBy(w, n) /\ EnterReady(t, w, s, a)
    BY DEF ExecStep
  <2> QED
    BY <1>0, <2>1, <2>2, ReadyTurnsOf DEF EnterReady
<1>2. LockTurns(t, n, b)
  <2>1. l \in Locks(Guards(Sent)) /\ Served(lock, l, n) /\ EnterLock(t, l, b)
    BY DEF ExecStep
  <2>2. HandlerGuard(t) \in OwnGuards(t) /\ "read" \in Modes
    BY DEF OwnGuards, Modes
  <2>3. PICK g \in OwnGuards(t), mode \in Modes :
            \/ b = 0 /\ lock'.queue = l.queue
            \/ b = 1 /\ lock'.queue = Append(l.queue, [guard |-> g, mode |-> mode])
    BY <2>1, <2>2 DEF EnterLock
  <2> QED
    BY <1>0, <2>1, <2>3, LockTurnsOf
<1>3. \A k \in 1..Len(lock'.queue) :
          \/ k + n \in 1..Len(lock.queue) /\ WaiterOf(k)' = WaiterOf(k + n)
          \/ b = 1 /\ WaiterOf(k)' = t
  BY <1>2 DEF LockTurns, WaiterOf, OwnGuards, HandlerGuard, PublishGuard
<1>4. Turns(t, s, n, a, b)
  <2>1. s = 1 => 1 \in 1..Len(ready) /\ ready[1] = t
    <3>1. ready \in Seq(Sent)
      BY <1>0 DEF TypeOK, ExecutorOK
    <3>2. s = 1 => ready # <<>> /\ Head(ready) = t
      BY DEF ExecStep
    <3> QED
      BY <3>1, <3>2
  <2> QED
    BY <1>0, <1>1, <1>2, <2>1 DEF Turns
<1>5. ReadyOnce' /\ WaitersOnce' /\ WaitersNotReady'
  BY <1>0, <1>4, TurnsKeepOnce
<1>6. pc'[t] = label /\ \A u \in Sent : u # t => pc'[u] = pc[u]
  BY <1>0 DEF Goto, TypeOK, ExecutorOK
<1>7. WaitersAwaitLock'
  <2>1. SUFFICES ASSUME NEW k \in 1..Len(lock'.queue)
                 PROVE  pc'[WaiterOf(k)'] \notin AwaitsOther
    BY DEF WaitersAwaitLock, AwaitsOther, InputOutput
  <2>2. CASE k + n \in 1..Len(lock.queue) /\ WaiterOf(k)' = WaiterOf(k + n)
    <3>1. WaiterOf(k + n) \in Sent /\ WaiterOf(k + n) # t
      BY <1>0, <2>2, QueueTypes DEF NotWaiting
    <3> QED
      BY <1>0, <1>6, <2>2, <3>1 DEF WaitersAwaitLock
  <2>3. CASE b = 1 /\ WaiterOf(k)' = t
    BY <1>0, <1>6, <2>3
  <2> QED
    BY <1>3, <2>2, <2>3
<1>8. ClaimsAreDue'
  <2>1. Sent' = Sent
    BY <1>0 DEF Sent
  <2>2. SUFFICES ASSUME NEW u \in Sent
                 PROVE  /\ Claims(lock', PublishGuard(u)) => pc'[u] \in PublishSections
                        /\ Claims(lock', HandlerGuard(u)) => pc'[u] \notin {"unborn", "update"}
    BY <2>1 DEF ClaimsAreDue, Claims, Holds, Waits, PublishGuard, HandlerGuard, PublishSections
  <2>3. CASE u = t
    BY <1>6, <2>3 DEF MayClaim, OwnGuards, ExecStep
  <2>4. CASE u # t
    <3>1. ASSUME NEW h \in OwnGuards(u), Claims(lock', h)
          PROVE  Claims(lock, h)
      <4>1. h \notin OwnGuards(t)
        BY <2>4 DEF OwnGuards, HandlerGuard, PublishGuard
      <4>2. CASE Holds(lock', h)
        <5>1. Holds(l, h)
          BY <4>1, <4>2 DEF ExecStep
        <5>2. Holds(lock, h) \/ \E k \in 1..n : h = lock.queue[k].guard
          BY <5>1 DEF Served, ExecStep
        <5>3. \A k \in 1..n : k \in 1..Len(lock.queue)
          BY <1>0
        <5> QED
          BY <5>2, <5>3 DEF Claims, Waits
      <4>3. CASE Waits(lock', h)
        <5>1. PICK k \in 1..Len(lock'.queue) : lock'.queue[k].guard = h
          BY <4>3 DEF Waits
        <5>3. k + n \in 1..Len(lock.queue) /\ lock.queue[k + n].guard = h
          BY <1>2, <4>1, <5>1 DEF LockTurns
        <5> QED
          BY <5>3 DEF Claims, Waits
      <4> QED
        BY <3>1, <4>2, <4>3 DEF Claims
    <3>2. PublishGuard(u) \in OwnGuards(u) /\ HandlerGuard(u) \in OwnGuards(u)
      BY DEF OwnGuards
    <3> QED
      BY <1>0, <1>6, <2>4, <3>1, <3>2 DEF ClaimsAreDue
  <2> QED
    BY <2>3, <2>4
<1> QED
  BY <1>5, <1>7, <1>8 DEF ExecInv

\* A guard that is dropped is not claimed any more.
LEMMA ReleaseDrops ==
    ASSUME NEW G, NEW l \in Locks(G), NEW g, ~Waits(l, g)
    PROVE  ~Holds(Release(l, g), g)
<1> DEFINE rest == [l EXCEPT !.write = l.write \ {g}, !.read = l.read \ {g}]
<1>1. Release(l, g) = IF Free(rest) THEN Wake(rest) ELSE rest
  BY DEF Release
<1>2. rest \in Locks(G) /\ rest.queue = l.queue /\ ~Holds(rest, g)
  BY DEF Locks, Holds
<1> HIDE DEF rest
<1>3. PICK n \in 0..Len(rest.queue) : Served(rest, Wake(rest), n)
  BY <1>2, WakeServes
<1>4. ASSUME Holds(Wake(rest), g)
      PROVE  FALSE
  <2>1. PICK k \in 1..n : g = l.queue[k].guard
    BY <1>2, <1>3, <1>4 DEF Served
  <2>2. Len(l.queue) \in Nat
    BY LenProperties DEF Locks
  <2>3. k \in 1..Len(l.queue)
    BY <1>2, <2>1, <2>2
  <2> QED
    BY <2>1, <2>3 DEF Waits
<1> QED
  BY <1>1, <1>2, <1>4

\* The running task stands in no queue but as the head of the executor's.
LEMMA RunningAlone ==
    ASSUME IInv, ExecInv, NEW t \in Tasks, NEW label, Runs(t, label)
    PROVE  /\ NotWaiting(t) /\ t \in Sent /\ ready # <<>> /\ Head(ready) = t /\ pc[t] = label
           /\ ~Waits(lock, HandlerGuard(t)) /\ ~Waits(lock, PublishGuard(t))
           /\ OwnGuards(t) \subseteq Guards(Sent)
           /\ HandlerGuard(t) \in OwnGuards(t) /\ PublishGuard(t) \in OwnGuards(t)
<1>1. t \in Sent /\ ready # <<>> /\ Head(ready) = t /\ pc[t] = label
  BY RunningTask DEF Runs
<1>2. ready \in Seq(Sent)
  BY DEF IInv, TypeOK, ExecutorOK
<1>3. 1 \in 1..Len(ready) /\ ready[1] = t
  BY <1>1, <1>2
<1>4. NotWaiting(t)
  BY <1>3 DEF ExecInv, WaitersNotReady, NotWaiting
<1>5. ~Waits(lock, HandlerGuard(t)) /\ ~Waits(lock, PublishGuard(t))
  BY <1>4 DEF NotWaiting, Waits, WaiterOf, HandlerGuard, PublishGuard
<1> QED
  BY <1>1, <1>4, <1>5 DEF OwnGuards, HandlerGuard, PublishGuard, Guards

\* What is claimed when a guard that is not waited for was dropped.
LEMMA ReleaseClaims ==
    ASSUME IInv, NEW g, NEW n, Served(lock, Release(lock, g), n),
           NEW h, ~Waits(lock, h), Claims(Release(lock, g), h)
    PROVE  h # g /\ Claims(lock, h)
<1> DEFINE l == Release(lock, g)
<1>1. /\ lock \in Locks(Guards(Sent)) /\ Len(lock.queue) \in Nat
      /\ n \in 0..Len(lock.queue) /\ Len(l.queue) = Len(lock.queue) - n
      /\ \A i \in 1..(Len(lock.queue) - n) : l.queue[i] = lock.queue[i + n]
  BY QueueTypes DEF IInv, TypeOK, WorldOK, Served
<1>2. Holds(l, h) => Holds(lock, h) \/ \E k \in 1..n : h = lock.queue[k].guard
  BY DEF Served
<1>3. h = g => ~Holds(l, h)
  BY <1>1, ReleaseDrops
<1> HIDE DEF l
<1>4. ~Waits(l, h)
  <2>1. ASSUME NEW k \in 1..Len(l.queue), l.queue[k].guard = h
        PROVE  FALSE
    <3>1. k + n \in 1..Len(lock.queue) /\ lock.queue[k + n].guard = h
      BY <1>1, <2>1
    <3> QED
      BY <3>1 DEF Waits
  <2> QED
    BY <2>1 DEF Waits
<1>5. \A k \in 1..n : k \in 1..Len(lock.queue)
  BY <1>1
<1> QED
  BY <1>2, <1>3, <1>4, <1>5 DEF Claims, Waits, l

\* The task keeps its guards.
LEMMA KeepingExec ==
    ASSUME IInv, IInv', ExecInv, NEW t \in Sent, NEW label, Goto(t, label), inbox' = inbox,
           UNCHANGED lock, NotWaiting(t),
           \/ /\ ready # <<>> /\ Head(ready) = t
              /\ ready' \in {ready, Tail(ready), Append(Tail(ready) \o <<>>, t)}
           \/ NotReady(t) /\ ready' = Append(ready, t),
           pc[t] \in PublishSections => label \in PublishSections,
           label \in {"unborn", "update"} => pc[t] \in {"unborn", "update"}
    PROVE  ExecInv'
<1>1. lock \in Locks(Guards(Sent)) /\ Len(lock.queue) \in Nat /\ ready \in Seq(Sent)
  BY QueueTypes DEF IInv, TypeOK, WorldOK, ExecutorOK
<1>2. WokenBy(<<>>, 0) /\ Served(lock, lock, 0)
  BY <1>1, EmptySeq DEF WokenBy, Served
<1>3. PICK s \in {0, 1}, a \in {0, 1} :
          /\ s = 1 => ready # <<>> /\ Head(ready) = t
          /\ a = 1 => s = 1 \/ NotReady(t)
          /\ EnterReady(t, <<>>, s, a)
  <2> USE DEF EnterReady
  <2>1. Rest(0) = ready /\ Rest(0) \o <<>> = ready
    BY <1>1, ConcatEmptySeq DEF Rest
  <2>2. CASE NotReady(t) /\ ready' = Append(ready, t)
    BY <2>1, <2>2
  <2>3. CASE /\ ready # <<>> /\ Head(ready) = t
             /\ ready' \in {ready, Tail(ready), Append(Tail(ready) \o <<>>, t)}
    <3>1. Tail(ready) \in Seq(Sent)
      BY <1>1, <2>3, HeadTailProperties
    <3>2. Rest(1) = Tail(ready) /\ Rest(1) \o <<>> = Tail(ready)
      BY <3>1, ConcatEmptySeq DEF Rest
    <3> QED
      BY <2>1, <2>3, <3>2
  <2> QED
    BY <2>2, <2>3
<1>4. \A h \in OwnGuards(t) : Claims(lock', h) => MayClaim(t, h, label)
  BY DEF ExecInv, ClaimsAreDue, MayClaim, OwnGuards, HandlerGuard, PublishGuard
<1>5. EnterLock(t, lock, 0) /\ \A h : Holds(lock', h) => Holds(lock, h)
  BY DEF EnterLock
<1>6. ExecStep(t, label, lock, 0, <<>>, s, a, 0)
  BY <1>1, <1>2, <1>3, <1>4, <1>5 DEF ExecStep
<1> QED
  BY <1>6, ExecStepKeeps

\* The task drops a guard.
LEMMA DroppingExec ==
    ASSUME IInv, IInv', ExecInv, NEW t \in Tasks, NEW from, Runs(t, from),
           NEW label, Goto(t, label), inbox' = inbox,
           NEW g \in OwnGuards(t), lock' = Release(lock, g),
           \/ ready' = ready \o Woken(g)
           \/ ready' = Tail(ready) \o Woken(g)
           \/ ready' = Append(Tail(ready) \o Woken(g), t),
           from \in PublishSections /\ label \notin PublishSections => g = PublishGuard(t),
           label \notin {"unborn", "update"}
    PROVE  ExecInv'
<1>1. /\ NotWaiting(t) /\ t \in Sent /\ ready # <<>> /\ Head(ready) = t /\ pc[t] = from
      /\ ~Waits(lock, HandlerGuard(t)) /\ ~Waits(lock, PublishGuard(t))
      /\ g \in Guards(Sent) /\ lock \in Locks(Guards(Sent))
  BY RunningAlone DEF IInv, TypeOK, WorldOK
<1>2. PICK n \in Nat : /\ WokenBy(Woken(g), n) /\ Served(lock, Release(lock, g), n)
                       /\ Release(lock, g) \in Locks(Guards(Sent))
  BY <1>1, DropServes
<1>3. PICK s \in {0, 1}, a \in {0, 1} :
          /\ s = 1 => ready # <<>> /\ Head(ready) = t
          /\ a = 1 => s = 1
          /\ EnterReady(t, Woken(g), s, a)
  BY <1>1 DEF Rest, EnterReady
<1>4. ASSUME NEW h \in OwnGuards(t), Claims(lock', h)
      PROVE  h # g /\ Claims(lock, h)
  <2>1. ~Waits(lock, h)
    BY <1>1 DEF OwnGuards
  <2> QED
    BY <1>2, <1>4, <2>1, ReleaseClaims
<1>5. \A h \in OwnGuards(t) : Claims(lock', h) => MayClaim(t, h, label)
  <2>1. SUFFICES ASSUME NEW h \in OwnGuards(t), h # g, Claims(lock, h)
                 PROVE  MayClaim(t, h, label)
    BY <1>4
  <2>2. ASSUME h = PublishGuard(t)
        PROVE  label \in PublishSections
    <3>1. from \in PublishSections
      BY <1>1, <2>1, <2>2 DEF ExecInv, ClaimsAreDue
    <3> QED
      BY <2>1, <2>2, <3>1
  <2> QED
    BY <2>2 DEF MayClaim
<1>6. /\ EnterLock(t, Release(lock, g), 0)
      /\ \A h : Holds(lock', h) => Holds(Release(lock, g), h)
  BY DEF EnterLock
<1>7. ExecStep(t, label, Release(lock, g), n, Woken(g), s, a, 0)
  BY <1>1, <1>2, <1>3, <1>5, <1>6 DEF ExecStep
<1> QED
  BY <1>1, <1>7, ExecStepKeeps

\* The task takes a guard, of the lock as it is or after it dropped one.
LEMMA TakingExec ==
    ASSUME IInv, IInv', ExecInv, NEW t \in Tasks, NEW from, Runs(t, from),
           NEW label, inbox' = inbox, NEW l, l \in Locks(Guards(Sent)),
           NEW n \in Nat, Served(lock, l, n), NEW w, WokenBy(w, n),
           NEW g \in OwnGuards(t), NEW mode \in Modes, TakeLock(l, w, t, g, mode, label),
           ~Holds(l, g), ~Waits(l, g),
           \A h \in OwnGuards(t) : h = g \/ Claims(l, h) => MayClaim(t, h, label),
           label \notin AwaitsOther
    PROVE  ExecInv'
<1>1. /\ NotWaiting(t) /\ t \in Sent /\ ready # <<>> /\ Head(ready) = t
  BY RunningAlone
<1>2. /\ lock' = Acquire(l, g, mode) /\ Goto(t, label)
      /\ ready' = IF Holds(lock', g) THEN ready \o w ELSE Tail(ready) \o w
  BY DEF TakeLock
<1>3. \/ /\ l.queue = <<>> /\ lock'.queue = <<>> /\ Holds(lock', g)
         /\ \A h : Holds(lock', h) => Holds(l, h) \/ h = g
      \/ /\ lock'.queue = Append(l.queue, [guard |-> g, mode |-> mode])
         /\ \A h : Holds(lock', h) <=> Holds(l, h)
  BY <1>2, AcquireQueues
<1>4. PICK s \in {0, 1}, b \in {0, 1} :
          /\ b = 1 => s = 1
          /\ EnterReady(t, w, s, 0) /\ EnterLock(t, l, b)
  <2>1. CASE Holds(lock', g)
    <3>1. EnterReady(t, w, 0, 0) /\ EnterLock(t, l, 0)
      BY <1>2, <1>3, <2>1 DEF EnterReady, EnterLock, Rest
    <3> QED
      BY <3>1
  <2>2. CASE ~Holds(lock', g)
    <3>1. EnterReady(t, w, 1, 0) /\ EnterLock(t, l, 1)
      BY <1>2, <1>3, <2>2 DEF EnterReady, EnterLock, Rest
    <3> QED
      BY <3>1
  <2> QED
    BY <2>1, <2>2
<1>5. \A h : Holds(lock', h) => Holds(l, h) \/ h \in OwnGuards(t)
  BY <1>3
<1>6. ASSUME NEW h \in OwnGuards(t), Claims(lock', h)
      PROVE  MayClaim(t, h, label)
  <2>1. CASE h = g
    BY <2>1
  <2>2. CASE h # g
    <3>1. Holds(lock', h) => Holds(l, h)
      BY <1>3, <2>2
    <3>2. ASSUME Waits(lock', h)
          PROVE  Waits(l, h)
      <4>1. PICK k \in 1..Len(lock'.queue) : lock'.queue[k].guard = h
        BY <3>2 DEF Waits
      <4>2. CASE lock'.queue = <<>>
        BY <4>1, <4>2
      <4>3. CASE lock'.queue = Append(l.queue, [guard |-> g, mode |-> mode])
        <5> DEFINE e == [guard |-> g, mode |-> mode]
        <5>1. l.queue \in Seq(Waiters(Guards(Sent))) /\ e.guard = g
          BY DEF Locks, Waiters
        <5>2. lock'.queue = Append(l.queue, e)
          BY <4>3
        <5> HIDE DEF e
        <5>3. /\ Len(Append(l.queue, e)) = Len(l.queue) + 1
              /\ Append(l.queue, e)[Len(l.queue) + 1] = e
              /\ \A i \in 1..Len(l.queue) : Append(l.queue, e)[i] = l.queue[i]
          BY <5>1, AppendProperties
        <5>4. Len(l.queue) \in Nat
          BY <5>1, LenProperties
        <5>5. k \in 1..Len(l.queue) \/ k = Len(l.queue) + 1
          BY <4>1, <5>2, <5>3, <5>4
        <5>6. k \in 1..Len(l.queue) /\ l.queue[k].guard = h
          BY <2>2, <4>1, <5>1, <5>2, <5>3, <5>5
        <5> QED
          BY <5>6 DEF Waits
      <4> QED
        BY <1>3, <4>2, <4>3
    <3> QED
      BY <1>6, <3>1, <3>2 DEF Claims
  <2> QED
    BY <2>1, <2>2
<1>7. ExecStep(t, label, l, n, w, s, 0, b)
  BY <1>1, <1>2, <1>4, <1>5, <1>6 DEF ExecStep
<1> QED
  BY <1>1, <1>7, ExecStepKeeps

LEMMA TakingFirstExec ==
    ASSUME IInv, IInv', ExecInv, NEW t \in Tasks, NEW from, Runs(t, from),
           NEW label, inbox' = inbox, NEW g \in OwnGuards(t), NEW mode \in Modes,
           TakeLock(lock, <<>>, t, g, mode, label), ~Claims(lock, g),
           g = PublishGuard(t) \/ from \in PublishSections => label \in PublishSections,
           label \notin AwaitsOther \cup {"unborn", "update"}
    PROVE  ExecInv'
<1>1. lock \in Locks(Guards(Sent)) /\ Len(lock.queue) \in Nat /\ t \in Sent /\ pc[t] = from
  BY QueueTypes, RunningAlone DEF IInv, TypeOK, WorldOK
<1>2. WokenBy(<<>>, 0) /\ Served(lock, lock, 0)
  BY <1>1, EmptySeq DEF WokenBy, Served
<1>3. ASSUME NEW h \in OwnGuards(t), h = g \/ Claims(lock, h)
      PROVE  MayClaim(t, h, label)
  BY <1>1, <1>3 DEF MayClaim, ExecInv, ClaimsAreDue
<1> QED
  BY <1>1, <1>2, <1>3, TakingExec DEF Claims

LEMMA ExchangingExec ==
    ASSUME IInv, IInv', ExecInv, NEW t \in Tasks, NEW from, Runs(t, from),
           NEW label, inbox' = inbox, NEW g \in OwnGuards(t), NEW h \in OwnGuards(t),
           NEW mode \in Modes, DropAndTake(t, g, h, mode, label),
           g # h => ~Claims(lock, h),
           h = PublishGuard(t) \/ from \in PublishSections => label \in PublishSections,
           label \notin AwaitsOther \cup {"unborn", "update"}
    PROVE  ExecInv'
<1>1. /\ t \in Sent /\ pc[t] = from /\ g \in Guards(Sent)
      /\ \A k \in OwnGuards(t) : ~Waits(lock, k)
  BY RunningAlone DEF OwnGuards
<1>2. PICK n \in Nat : /\ WokenBy(Woken(g), n) /\ Served(lock, Release(lock, g), n)
                       /\ Release(lock, g) \in Locks(Guards(Sent))
  BY <1>1, DropServes
<1>3. \A k \in OwnGuards(t) : Claims(Release(lock, g), k) => k # g /\ Claims(lock, k)
  BY <1>1, <1>2, ReleaseClaims
<1>4. ~Holds(Release(lock, g), h) /\ ~Waits(Release(lock, g), h)
  BY <1>3 DEF Claims
<1>5. ASSUME NEW k \in OwnGuards(t), k = h \/ Claims(Release(lock, g), k)
      PROVE  MayClaim(t, k, label)
  BY <1>1, <1>3, <1>5 DEF MayClaim, ExecInv, ClaimsAreDue
<1>6. TakeLock(Release(lock, g), Woken(g), t, h, mode, label)
  BY DEF DropAndTake
<1> QED
  BY <1>2, <1>4, <1>5, <1>6, TakingExec
-------------------------------------------------------------------------------
(* Every step keeps it.                                                        *)

LEMMA ReturnExec ==
    ASSUME IInv, IInv', ExecInv, NEW t \in Tasks, NEW from \in PublishSections, Runs(t, from),
           ReturnFromPublish(t), inbox' = inbox
    PROVE  ExecInv'
<1>1. PublishGuard(t) \in OwnGuards(t)
  BY DEF OwnGuards
<1>2. CASE Kind(t) = "associate"
  BY <1>1, <1>2, DroppingExec DEF ReturnFromPublish, DropAndContinue
<1>3. CASE Kind(t) # "associate"
  BY <1>1, <1>3, DroppingExec DEF ReturnFromPublish, DropAndFinish
<1> QED
  BY <1>2, <1>3

LEMMA FinishExec ==
    ASSUME IInv, IInv', ExecInv, NEW t \in Tasks, NEW from, from \notin PublishSections,
           Runs(t, from), DropAndFinish(t, HandlerGuard(t)), inbox' = inbox
    PROVE  ExecInv'
<1>1. /\ HandlerGuard(t) \in OwnGuards(t) /\ lock' = Release(lock, HandlerGuard(t))
      /\ Goto(t, "done") /\ ready' = Tail(ready) \o Woken(HandlerGuard(t))
      /\ "done" \notin {"unborn", "update"}
  BY DEF OwnGuards, DropAndFinish
<1> QED
  BY <1>1, DroppingExec

LEMMA ClosingExec ==
    ASSUME IInv, IInv', ExecInv, NEW t \in Tasks, Runs(t, "remove"), inbox' = inbox,
           lock' = Release(lock, HandlerGuard(t)), Goto(t, "clear"),
           ready' = Append(Tail(ready) \o Woken(HandlerGuard(t)), t)
    PROVE  ExecInv'
<1>1. /\ HandlerGuard(t) \in OwnGuards(t)
      /\ "remove" \notin PublishSections /\ "clear" \notin {"unborn", "update"}
  BY DEF OwnGuards, PublishSections
<1> QED
  BY <1>1, DroppingExec

LEMMA StayExec ==
    ASSUME IInv, IInv', ExecInv, NEW t \in Tasks, NEW from, Runs(t, from),
           NEW label, Goto(t, label), inbox' = inbox, UNCHANGED lock,
           ready' \in {ready, Tail(ready), Append(Tail(ready) \o <<>>, t)},
           from \in PublishSections => label \in PublishSections,
           label \in {"unborn", "update"} => from = "unborn"
    PROVE  ExecInv'
BY RunningAlone, KeepingExec

LEMMA PublishExec ==
    ASSUME IInv, IInv', ExecInv, NEW t \in Tasks,
           \/ PublishSyntaxErrors(t) \/ PublishDomErrors(t)
           \/ ReadForSchema(t) \/ PublishSchemaErrors(t)
    PROVE  ExecInv'
<1>1. ASSUME NEW from \in PublishSections, NothingToPublish(t, from)
      PROVE  ExecInv'
  BY <1>1, ReturnExec DEF NothingToPublish, client
<1>2. ASSUME NEW from \in {"syntax", "dom"}, NEW next \in {"dom", "schema"},
             PublishStage(t, from, next)
      PROVE  ExecInv'
  <2>1. /\ Runs(t, from) /\ from \in PublishSections /\ inbox' = inbox
        /\ PublishGuard(t) \in OwnGuards(t) /\ "read" \in Modes
    BY <1>2 DEF PublishStage, PublishSections, client, OwnGuards, Modes
  <2>2. CASE ReturnFromPublish(t)
    BY <2>1, <2>2, ReturnExec
  <2>3. CASE DropAndTake(t, PublishGuard(t), PublishGuard(t), "read", next)
    <3>1. next \in PublishSections /\ next \notin AwaitsOther \cup {"unborn", "update"}
      BY DEF PublishSections, AwaitsOther, InputOutput
    <3> QED
      BY <2>1, <2>3, <3>1, ExchangingExec
  <2> QED
    BY <1>2, <2>2, <2>3 DEF PublishStage
<1>3. CASE PublishSchemaErrors(t)
  BY <1>3, ReturnExec DEF PublishSchemaErrors, PublishSections, client
<1>4. CASE /\ Runs(t, "schema") /\ MaySuspend(t, "validate")
           /\ UNCHANGED <<client, lock, local, world, shown>>
  BY <1>4, StayExec DEF MaySuspend, PublishSections, client
<1> QED
  BY <1>1, <1>2, <1>3, <1>4
     DEF PublishSyntaxErrors, PublishDomErrors, ReadForSchema, PublishSections

LEMMA FirstPollExec ==
    ASSUME IInv, IInv', OrderInv, ExecInv, NEW t \in Tasks, FirstPoll(t)
    PROVE  ExecInv'
<1>1. Runs(t, "unborn") /\ inbox' = inbox /\ "unborn" \notin PublishSections
  BY DEF FirstPoll, client, PublishSections
<1>2. CASE Kind(t) = "initialized"
  BY <1>1, <1>2, StayExec DEF FirstPoll, SpawnAndFinish
<1>3. CASE Kind(t) # "initialized"
  <2>1. /\ HandlerLock[Kind(t)] \in Modes /\ HandlerBody[Kind(t)] \in Bodies
        /\ TakeLock(lock, <<>>, t, HandlerGuard(t), HandlerLock[Kind(t)], HandlerBody[Kind(t)])
    BY <1>3, FirstPollQueues DEF FirstPoll
  <2>2. HandlerBody[Kind(t)] \notin AwaitsOther \cup {"unborn", "update"}
    BY <2>1 DEF Bodies, AwaitsOther, InputOutput
  <2>3. HandlerGuard(t) \in OwnGuards(t) /\ HandlerGuard(t) # PublishGuard(t)
    BY DEF OwnGuards, HandlerGuard, PublishGuard
  <2>4. ~Claims(lock, HandlerGuard(t))
    BY <1>1, RunningAlone DEF ExecInv, ClaimsAreDue
  <2> QED
    BY <1>1, <2>1, <2>2, <2>3, <2>4, TakingFirstExec
<1> QED
  BY <1>2, <1>3

LEMMA DocumentExec ==
    ASSUME IInv, IInv', ExecInv, NEW t \in Tasks,
           \/ StoreDocument(t) \/ DocumentClose(t) \/ ClearDiagnostics(t)
           \/ AnswerQuery(t) \/ ReplyToQuery(t)
    PROVE  ExecInv'
<1> USE DEF client, PublishSections
<1>1. CASE StoreDocument(t)
  <2>1. /\ Runs(t, "store") /\ inbox' = inbox
        /\ \/ DropAndTake(t, HandlerGuard(t), PublishGuard(t), "read", "syntax")
           \/ DropAndFinish(t, HandlerGuard(t))
    BY <1>1 DEF StoreDocument
  <2>2. HandlerGuard(t) \in OwnGuards(t) /\ PublishGuard(t) \in OwnGuards(t) /\ "read" \in Modes
    BY DEF OwnGuards, Modes
  <2>3. ~Claims(lock, PublishGuard(t))
    BY <2>1, RunningAlone DEF ExecInv, ClaimsAreDue
  <2>4. "syntax" \notin AwaitsOther \cup {"unborn", "update"}
    BY DEF AwaitsOther, InputOutput
  <2>5. CASE DropAndTake(t, HandlerGuard(t), PublishGuard(t), "read", "syntax")
    BY <2>1, <2>2, <2>3, <2>4, <2>5, ExchangingExec
  <2>6. CASE DropAndFinish(t, HandlerGuard(t))
    BY <2>1, <2>6, FinishExec
  <2> QED
    BY <2>1, <2>5, <2>6
<1>2. CASE DocumentClose(t)
  BY <1>2, ClosingExec DEF DocumentClose, SpawnAndFinish
<1>3. CASE ClearDiagnostics(t)
  BY <1>3, StayExec DEF ClearDiagnostics, Suspend
<1>4. CASE AnswerQuery(t)
  BY <1>4, StayExec DEF AnswerQuery, MaySuspend
<1>5. CASE ReplyToQuery(t)
  BY <1>5, FinishExec DEF ReplyToQuery
<1> QED
  BY <1>1, <1>2, <1>3, <1>4, <1>5

LEMMA WorkspaceExec ==
    ASSUME IInv, IInv', ExecInv, NEW t \in Tasks,
           \/ ConfigurationChange(t) \/ ConfigurationDone(t)
           \/ UpdateConfiguration(t) \/ RequestConfiguration(t) \/ HandleResponse(t)
           \/ InitializeWorkspace(t, "initialize") \/ InitializeWorkspace(t, "initialize_added")
           \/ WorkspaceChange(t) \/ WorkspaceChangeDone(t)
    PROVE  ExecInv'
<1> USE DEF client, PublishSections
<1>1. CASE ConfigurationChange(t)
  BY <1>1, StayExec DEF ConfigurationChange, Continue
<1>2. CASE ConfigurationDone(t)
  BY <1>2, FinishExec DEF ConfigurationDone
<1>3. CASE UpdateConfiguration(t)
  <2>1. Runs(t, "update") /\ inbox' = inbox
        /\ TakeLock(lock, <<>>, t, HandlerGuard(t), "write", "request")
    BY <1>3 DEF UpdateConfiguration
  <2>2. ~Claims(lock, HandlerGuard(t))
    BY <2>1, RunningAlone DEF ExecInv, ClaimsAreDue
  <2>3. /\ "request" \notin AwaitsOther \cup {"unborn", "update"} /\ "write" \in Modes
        /\ HandlerGuard(t) \in OwnGuards(t) /\ HandlerGuard(t) # PublishGuard(t)
    BY DEF AwaitsOther, InputOutput, Modes, OwnGuards, HandlerGuard, PublishGuard
  <2> QED
    BY <2>1, <2>2, <2>3, TakingFirstExec
<1>4. CASE RequestConfiguration(t)
  BY <1>4, StayExec DEF RequestConfiguration, Suspend
<1>5. CASE HandleResponse(t)
  BY <1>5, StayExec DEF HandleResponse, SpawnAndFinish
<1>6. CASE InitializeWorkspace(t, "initialize") \/ InitializeWorkspace(t, "initialize_added")
  BY <1>6, StayExec DEF InitializeWorkspace, MaySuspend
<1>7. CASE WorkspaceChange(t)
  BY <1>7, StayExec DEF WorkspaceChange, Continue
<1>8. CASE WorkspaceChangeDone(t)
  <2>1. Runs(t, "initialize_added") /\ inbox' = inbox
        /\ DropAndTake(t, HandlerGuard(t), HandlerGuard(t), "write", "request")
    BY <1>8 DEF WorkspaceChangeDone
  <2>2. /\ "request" \notin AwaitsOther \cup {"unborn", "update"} /\ "write" \in Modes
        /\ HandlerGuard(t) \in OwnGuards(t) /\ HandlerGuard(t) # PublishGuard(t)
    BY DEF AwaitsOther, InputOutput, Modes, OwnGuards, HandlerGuard, PublishGuard
  <2> QED
    BY <2>1, <2>2, ExchangingExec
<1> QED
  BY <1>1, <1>2, <1>3, <1>4, <1>5, <1>6, <1>7, <1>8

LEMMA AssociateExec ==
    ASSUME IInv, IInv', ExecInv, NEW t \in Tasks,
           \/ AssociateSchema(t) \/ AssociateInWorkspace(t) \/ AssociateSchemaDone(t)
           \/ AssociatePattern(t)
    PROVE  ExecInv'
<1> USE DEF client, PublishSections
<1>1. CASE AssociateSchema(t)
  BY <1>1, StayExec DEF AssociateSchema, Continue
<1>2. CASE AssociateInWorkspace(t)
  <2>1. Runs(t, "associate_next") /\ inbox' = inbox
        /\ TakeLock(lock, <<>>, t, PublishGuard(t), "read", "syntax")
    BY <1>2 DEF AssociateInWorkspace
  <2>2. ~Claims(lock, PublishGuard(t))
    BY <2>1, RunningAlone DEF ExecInv, ClaimsAreDue
  <2>3. /\ "syntax" \notin AwaitsOther \cup {"unborn", "update"} /\ "read" \in Modes
        /\ PublishGuard(t) \in OwnGuards(t)
    BY DEF AwaitsOther, InputOutput, Modes, OwnGuards
  <2> QED
    BY <2>1, <2>2, <2>3, TakingFirstExec
<1>3. CASE AssociateSchemaDone(t)
  BY <1>3, FinishExec DEF AssociateSchemaDone
<1>4. CASE AssociatePattern(t)
  BY <1>4, FinishExec DEF AssociatePattern
<1> QED
  BY <1>1, <1>2, <1>3, <1>4

\* A task that is woken stood in no queue.
LEMMA WakingExec ==
    ASSUME IInv, IInv', ExecInv, NEW t \in Tasks, InputOutputDone(t) \/ ClientAnswers(t)
    PROVE  ExecInv'
<1>1. pc \in [Tasks -> Labels] /\ pc[t] \in AwaitsOther /\ inbox' = inbox /\ UNCHANGED lock
  BY DEF InputOutputDone, ClientAnswers, AwaitsOther, IInv, TypeOK, ExecutorOK, client
<1>2. NotWaiting(t)
  BY <1>1 DEF ExecInv, WaitersAwaitLock, NotWaiting
<1>3. t \in Sent
  BY <1>1 DEF IInv, KindsOfSections, SectionKind, AwaitsOther, InputOutput
<1>4. CASE InputOutputDone(t)
  <2>1. Goto(t, pc[t]) /\ ready' = Append(ready, t) /\ NotReady(t) /\ pc[t] \in InputOutput
    BY <1>1, <1>4 DEF InputOutputDone, Goto, NotReady
  <2> QED
    BY <1>1, <1>2, <1>3, <2>1, KeepingExec
<1>5. CASE ClientAnswers(t)
  <2>1. Goto(t, "response") /\ ready' = Append(ready, t) /\ NotReady(t) /\ pc[t] = "asked"
    BY <1>5 DEF ClientAnswers, LoopMayRun, NotReady
  <2> QED
    BY <1>1, <1>2, <1>3, <2>1, KeepingExec DEF PublishSections
<1> QED
  BY <1>4, <1>5

\* A message sent is a task not polled before.
LEMMA SendingExec ==
    ASSUME IInv, IInv', ExecInv, ClientSends
    PROVE  ExecInv'
<1> DEFINE new == Len(inbox) + 1
<1>1. /\ Sent' = Sent \cup {new} /\ UNCHANGED <<pc, lock>> /\ ready' = Append(ready, new)
      /\ pc[new] = "unborn"
  <2>1. ready' = Append(ready, new)
    BY DEF ClientSends, OpenDocument, EditDocument, CloseDocument, AskAboutDocument,
           SelectSchema, ChangeFolders, SendPlain, Send, NextMessage
  <2> QED
    BY <2>1, Sending DEF ClientSends
<1>2. /\ ready \in Seq(Sent) /\ Len(ready) \in Nat /\ \A i \in 1..Len(ready) : ready[i] \in Sent
      /\ \A k \in 1..Len(lock.queue) : WaiterOf(k) \in Sent
      /\ lock \in Locks(Guards(Sent)) /\ new \notin Sent
  <2>1. Len(inbox) \in Nat
    BY QueueTypes DEF IInv
  <2>2. new \notin Sent
    BY <2>1 DEF Sent
  <2> QED
    BY <2>2, QueueTypes DEF IInv, TypeOK, ExecutorOK, WorldOK
<1> HIDE DEF new
<1>3. /\ Len(ready') = Len(ready) + 1 /\ ready'[Len(ready) + 1] = new
      /\ \A i \in 1..Len(ready) : ready'[i] = ready[i]
  <2>1. ready \in Seq(Sent \cup {new})
    BY <1>2
  <2>2. /\ Len(Append(ready, new)) = Len(ready) + 1 /\ Append(ready, new)[Len(ready) + 1] = new
        /\ \A i \in 1..Len(ready) : Append(ready, new)[i] = ready[i]
    BY <2>1, AppendProperties
  <2> QED
    BY <1>1, <2>2
<1>4. ReadyOnce'
  <2>1. SUFFICES ASSUME NEW i \in 1..Len(ready'), NEW j \in 1..Len(ready'), ready'[i] = ready'[j]
                 PROVE  i = j
    BY DEF ReadyOnce
  <2>2. \A x \in 1..Len(ready') : x \in 1..Len(ready) \/ x = Len(ready) + 1
    BY <1>2, <1>3
  <2>3. CASE i \in 1..Len(ready) /\ j \in 1..Len(ready)
    BY <1>3, <2>1, <2>3 DEF ExecInv, ReadyOnce
  <2>4. CASE i \in 1..Len(ready) /\ j = Len(ready) + 1
    <3>1. ready'[i] \in Sent /\ ready'[j] = new
      BY <1>2, <1>3, <2>4
    <3> QED
      BY <1>2, <2>1, <3>1
  <2>5. CASE j \in 1..Len(ready) /\ i = Len(ready) + 1
    <3>1. ready'[j] \in Sent /\ ready'[i] = new
      BY <1>2, <1>3, <2>5
    <3> QED
      BY <1>2, <2>1, <3>1
  <2> QED
    BY <2>2, <2>3, <2>4, <2>5
<1>5. WaitersOnce' /\ WaitersAwaitLock'
  BY <1>1 DEF ExecInv, WaitersOnce, WaitersAwaitLock, WaiterOf, AwaitsOther, InputOutput
<1>6. WaitersNotReady'
  <2>1. SUFFICES ASSUME NEW i \in 1..Len(ready'), NEW k \in 1..Len(lock.queue)
                 PROVE  ready'[i] # WaiterOf(k)
    BY <1>1 DEF WaitersNotReady, WaiterOf
  <2>2. i \in 1..Len(ready) \/ i = Len(ready) + 1
    BY <1>2, <1>3
  <2>3. CASE i \in 1..Len(ready)
    BY <1>3, <2>3 DEF ExecInv, WaitersNotReady
  <2>4. CASE i = Len(ready) + 1
    <3>1. WaiterOf(k) \in Sent /\ ready'[i] = new
      BY <1>2, <1>3, <2>4
    <3> QED
      BY <1>2, <3>1
  <2> QED
    BY <2>2, <2>3, <2>4
<1>7. ClaimsAreDue'
  <2>1. SUFFICES ASSUME NEW u \in Sent \cup {new}
                 PROVE  /\ Claims(lock, PublishGuard(u)) => pc[u] \in PublishSections
                        /\ Claims(lock, HandlerGuard(u)) => pc[u] \notin {"unborn", "update"}
    BY <1>1 DEF ClaimsAreDue, Claims, Holds, Waits, PublishGuard, HandlerGuard, PublishSections
  <2>2. CASE u \in Sent
    BY <2>2 DEF ExecInv, ClaimsAreDue
  <2>3. CASE u = new
    <3>1. ASSUME NEW h \in OwnGuards(u), Claims(lock, h)
          PROVE  FALSE
      <4>1. h.task = u
        BY DEF OwnGuards, HandlerGuard, PublishGuard
      <4>2. CASE Holds(lock, h)
        BY <1>2, <2>3, <4>1, <4>2 DEF Holds, Locks, Guards
      <4>3. CASE Waits(lock, h)
        BY <1>2, <2>3, <4>1, <4>3 DEF Waits, WaiterOf
      <4> QED
        BY <3>1, <4>2, <4>3 DEF Claims
    <3> QED
      BY <3>1 DEF OwnGuards
  <2> QED
    BY <2>1, <2>2, <2>3
<1> QED
  BY <1>4, <1>5, <1>6, <1>7 DEF ExecInv

LEMMA ExecInvariance ==
    ASSUME IInv, IInv', OrderInv, ExecInv, [Next]_vars
    PROVE  ExecInv'
<1>1. CASE ClientSends
  BY <1>1, SendingExec
<1>2. ASSUME NEW t \in Tasks, Run(t)
      PROVE  ExecInv'
  BY <1>2, PublishExec, FirstPollExec, DocumentExec, WorkspaceExec, AssociateExec
     DEF Run, DocumentOpen, DocumentChange
<1>3. ASSUME NEW t \in Tasks, InputOutputDone(t) \/ ClientAnswers(t)
      PROVE  ExecInv'
  BY <1>3, WakingExec
<1>4. CASE UNCHANGED vars
  <2>1. UNCHANGED <<ready, pc, lock>> /\ Sent' = Sent
    BY <1>4 DEF vars, Sent
  <2>2. ReadyOnce' /\ WaitersOnce' /\ WaitersNotReady' /\ WaitersAwaitLock'
    BY <2>1 DEF ExecInv, ReadyOnce, WaitersOnce, WaitersNotReady, WaitersAwaitLock, WaiterOf,
                AwaitsOther, InputOutput
  <2>3. ClaimsAreDue'
    BY <2>1 DEF ExecInv, ClaimsAreDue, Claims, Holds, Waits, PublishGuard, HandlerGuard,
                PublishSections
  <2> QED
    BY <2>2, <2>3 DEF ExecInv
<1> QED
  BY <1>1, <1>2, <1>3, <1>4 DEF Next, Idle

LEMMA InitExec == Init => ExecInv
<1> SUFFICES ASSUME Init PROVE ExecInv
  OBVIOUS
<1>1. Len(ready) = 0 /\ Len(lock.queue) = 0 /\ Sent = {}
  BY DEF Init, NewLock, Sent
<1> QED
  BY <1>1 DEF ExecInv, ReadyOnce, WaitersOnce, WaitersNotReady, WaitersAwaitLock, ClaimsAreDue
-------------------------------------------------------------------------------
(* What the steps do to labels, notes and diagnostics.                         *)

\* A handler of a close does nothing but remove the document and clear what is shown
\* of it.
LEMMA ClosingStep ==
    ASSUME IInv, NEW t \in Sent, Kind(t) = "close",
           pc[t] \in {"unborn", "remove", "clear", "done"},
           Run(t) \/ InputOutputDone(t) \/ ClientAnswers(t)
    PROVE  /\ pc'[t] \in {"unborn", "remove", "clear", "done"}
           /\ pc'[t] = "done" => ClearDiagnostics(t)
<1>0. pc \in [Tasks -> Labels] /\ t \in Tasks
  BY SentAreTasks DEF IInv, TypeOK, ExecutorOK
<1> USE DEF Goto
<1>1. CASE FirstPoll(t)
  <2>1. pc' = [pc EXCEPT ![t] = "remove"]
    BY <1>1 DEF FirstPoll, TakeLock, HandlerBody
  <2> QED
    BY <1>0, <2>1
<1>2. CASE DocumentClose(t)
  BY <1>0, <1>2 DEF DocumentClose, SpawnAndFinish
<1>3. CASE ClearDiagnostics(t)
  BY <1>0, <1>3 DEF ClearDiagnostics, Suspend
<1>4. CASE ~(FirstPoll(t) \/ DocumentClose(t) \/ ClearDiagnostics(t))
  <2>1. CASE InputOutputDone(t) \/ ClientAnswers(t)
    BY <2>1 DEF InputOutputDone, InputOutput, ClientAnswers
  <2>2. CASE DocumentOpen(t) \/ DocumentChange(t)
    BY <2>2 DEF DocumentOpen, DocumentChange
  <2>3. CASE \/ PublishSyntaxErrors(t) \/ PublishDomErrors(t)
             \/ ReadForSchema(t) \/ PublishSchemaErrors(t)
    BY <2>3 DEF PublishSyntaxErrors, PublishDomErrors, PublishStage, NothingToPublish,
                ReadForSchema, PublishSchemaErrors, Runs
  <2>4. CASE \/ AnswerQuery(t) \/ ReplyToQuery(t)
             \/ ConfigurationChange(t) \/ ConfigurationDone(t) \/ UpdateConfiguration(t)
             \/ RequestConfiguration(t) \/ HandleResponse(t)
    BY <2>4 DEF AnswerQuery, ReplyToQuery, ConfigurationChange, ConfigurationDone,
                UpdateConfiguration, RequestConfiguration, HandleResponse, Runs
  <2>5. CASE \/ InitializeWorkspace(t, "initialize")
             \/ InitializeWorkspace(t, "initialize_added")
             \/ WorkspaceChange(t) \/ WorkspaceChangeDone(t)
             \/ AssociateSchema(t) \/ AssociateInWorkspace(t) \/ AssociateSchemaDone(t)
             \/ AssociatePattern(t)
    BY <2>5 DEF InitializeWorkspace, WorkspaceChange, WorkspaceChangeDone, AssociateSchema,
                AssociateInWorkspace, AssociateSchemaDone, AssociatePattern, Runs
  <2> QED
    BY <1>4, <2>1, <2>2, <2>3, <2>4, <2>5 DEF Run
<1> QED
  BY <1>1, <1>2, <1>3, <1>4

\* A task leaves the others where they stand, with what they noted.
LEMMA OthersUntouched ==
    ASSUME IInv, NEW t \in Tasks, Run(t) \/ InputOutputDone(t) \/ ClientAnswers(t),
           NEW u \in Tasks, u # t
    PROVE  pc'[u] = pc[u] /\ local'[u] = local[u]
<1>0. pc \in [Tasks -> Labels] /\ local \in [Tasks -> LocalState]
  BY DEF IInv, TypeOK, ExecutorOK
<1> DEFINE Moved == pc' = pc \/ \E label : pc' = [pc EXCEPT ![t] = label]
           Noted == \/ local' = local
                    \/ \E x : local' = [local EXCEPT ![t].ws = x]
                    \/ \E x : local' = [local EXCEPT ![t].dom = x]
                    \/ \E x : local' = [local EXCEPT ![t].todo = x]
                    \/ \E x, y : local' = [local EXCEPT ![t].ws = x, ![t].todo = y]
<1> USE DEF Goto
<1>1. CASE InputOutputDone(t)
  BY <1>1 DEF InputOutputDone
<1>2. CASE ClientAnswers(t)
  BY <1>0, <1>2 DEF ClientAnswers
<1>3. CASE FirstPoll(t)
  <2>1. Moved
    BY <1>3 DEF FirstPoll, SpawnAndFinish, TakeLock
  <2> QED
    BY <1>0, <1>3, <2>1 DEF FirstPoll
<1>4. CASE DocumentOpen(t) \/ DocumentChange(t)
  <2>1. StoreDocument(t)
    BY <1>4 DEF DocumentOpen, DocumentChange
  <2>2. Moved
    BY <2>1 DEF StoreDocument, DropAndTake, TakeLock, DropAndFinish
  <2>3. Noted
    BY <2>1 DEF StoreDocument
  <2> QED
    BY <1>0, <2>2, <2>3
<1>5. CASE DocumentClose(t) \/ ClearDiagnostics(t)
  BY <1>0, <1>5 DEF DocumentClose, ClearDiagnostics, SpawnAndFinish, Suspend
<1>6. CASE PublishSyntaxErrors(t) \/ PublishDomErrors(t)
  <2>1. Moved
    BY <1>6 DEF PublishSyntaxErrors, PublishDomErrors, PublishStage, NothingToPublish,
                ReturnFromPublish, DropAndContinue, DropAndFinish, DropAndTake, TakeLock
  <2>2. Noted
    BY <1>6 DEF PublishSyntaxErrors, PublishDomErrors, PublishStage, NothingToPublish
  <2> QED
    BY <1>0, <2>1, <2>2
<1>7. CASE ReadForSchema(t) \/ PublishSchemaErrors(t)
  <2>1. Moved
    BY <1>7 DEF ReadForSchema, PublishSchemaErrors, NothingToPublish, MaySuspend,
                ReturnFromPublish, DropAndContinue, DropAndFinish
  <2>2. local' = local
    BY <1>7 DEF ReadForSchema, PublishSchemaErrors, NothingToPublish
  <2> QED
    BY <1>0, <2>1, <2>2
<1>8. CASE \/ AnswerQuery(t) \/ ConfigurationChange(t) \/ WorkspaceChange(t)
           \/ AssociateSchema(t) \/ InitializeWorkspace(t, "initialize")
           \/ InitializeWorkspace(t, "initialize_added")
  <2>1. Moved
    BY <1>8 DEF AnswerQuery, ConfigurationChange, WorkspaceChange, AssociateSchema,
                InitializeWorkspace, Continue, MaySuspend
  <2>2. Noted
    BY <1>8 DEF AnswerQuery, ConfigurationChange, WorkspaceChange, AssociateSchema,
                InitializeWorkspace
  <2> QED
    BY <1>0, <2>1, <2>2
<1>9. CASE \/ ReplyToQuery(t) \/ ConfigurationDone(t) \/ UpdateConfiguration(t)
           \/ RequestConfiguration(t) \/ HandleResponse(t) \/ WorkspaceChangeDone(t)
           \/ AssociateSchemaDone(t) \/ AssociatePattern(t)
  <2>1. Moved
    <3>1. CASE ReplyToQuery(t) \/ ConfigurationDone(t) \/ AssociateSchemaDone(t)
               \/ AssociatePattern(t)
      BY <3>1 DEF ReplyToQuery, ConfigurationDone, AssociateSchemaDone, AssociatePattern,
                  DropAndFinish
    <3>2. CASE UpdateConfiguration(t) \/ WorkspaceChangeDone(t)
      BY <3>2 DEF UpdateConfiguration, WorkspaceChangeDone, DropAndTake, TakeLock
    <3>3. CASE RequestConfiguration(t) \/ HandleResponse(t)
      BY <3>3 DEF RequestConfiguration, HandleResponse, Suspend, SpawnAndFinish
    <3> QED
      BY <1>9, <3>1, <3>2, <3>3
  <2>2. local' = local
    BY <1>9 DEF ReplyToQuery, ConfigurationDone, UpdateConfiguration, RequestConfiguration,
                HandleResponse, WorkspaceChangeDone, AssociateSchemaDone, AssociatePattern
  <2> QED
    BY <1>0, <2>1, <2>2
<1>10. CASE AssociateInWorkspace(t)
  <2>1. Moved
    BY <1>10 DEF AssociateInWorkspace, TakeLock
  <2>2. PICK w \in local[t].todo :
            local' = [local EXCEPT ![t].ws = w, ![t].todo = local[t].todo \ {w}]
    BY <1>10 DEF AssociateInWorkspace
  <2> QED
    BY <1>0, <2>1, <2>2
<1> QED
  BY <1>1, <1>2, <1>3, <1>4, <1>5, <1>6, <1>7, <1>8, <1>9, <1>10 DEF Run

\* A task comes to validate only when the text of the stage before is there.
LEMMA ComesToValidate ==
    ASSUME IInv, NEW t \in Tasks, Run(t) \/ InputOutputDone(t) \/ ClientAnswers(t),
           pc'[t] = "validate"
    PROVE  \/ ReadForSchema(t) /\ docs[local[t].ws][Doc(t)] # NoText
           \/ InputOutputDone(t) /\ pc[t] = "validate"
<1>0. pc \in [Tasks -> Labels]
  BY DEF IInv, TypeOK, ExecutorOK
<1> DEFINE Elsewhere == \E label \in Labels \ {"validate"} : pc' = [pc EXCEPT ![t] = label]
<1> USE DEF Goto
<1>1. CASE InputOutputDone(t)
  BY <1>1 DEF InputOutputDone
<1>2. CASE ClientAnswers(t)
  BY <1>0, <1>2 DEF ClientAnswers
<1>3. CASE FirstPoll(t)
  <2>1. CASE Kind(t) = "initialized"
    BY <1>0, <1>3, <2>1 DEF FirstPoll, SpawnAndFinish
  <2>2. CASE Kind(t) # "initialized"
    <3>1. Kind(t) \in Kinds
      BY <1>3, RunningTask, KindsOfSent DEF FirstPoll
    <3>2. pc' = [pc EXCEPT ![t] = HandlerBody[Kind(t)]]
      BY <1>3, <2>2 DEF FirstPoll, TakeLock
    <3>3. HandlerBody[Kind(t)] # "validate"
      BY <2>2, <3>1 DEF Kinds, HandlerBody
    <3> QED
      BY <1>0, <3>2, <3>3
  <2> QED
    BY <2>1, <2>2
<1>4. CASE DocumentOpen(t) \/ DocumentChange(t) \/ DocumentClose(t) \/ ClearDiagnostics(t)
  <2>1. CASE StoreDocument(t)
    <3>1. Elsewhere
      BY <2>1 DEF StoreDocument, DropAndTake, TakeLock, DropAndFinish, Labels
    <3> QED
      BY <1>0, <3>1
  <2>2. CASE DocumentClose(t) \/ ClearDiagnostics(t)
    BY <1>0, <2>2 DEF DocumentClose, ClearDiagnostics, SpawnAndFinish, Suspend
  <2> QED
    BY <1>4, <2>1, <2>2 DEF DocumentOpen, DocumentChange
<1>5. ASSUME ReturnFromPublish(t)
      PROVE  Elsewhere
  BY <1>5 DEF ReturnFromPublish, DropAndContinue, DropAndFinish, Labels
<1>6. CASE PublishSyntaxErrors(t) \/ PublishDomErrors(t) \/ PublishSchemaErrors(t)
  <2>1. CASE ReturnFromPublish(t)
    BY <1>0, <1>5, <2>1
  <2>2. CASE ~ReturnFromPublish(t)
    <3>1. Elsewhere
      BY <1>6, <2>2 DEF PublishSyntaxErrors, PublishDomErrors, PublishStage, NothingToPublish,
                        PublishSchemaErrors, DropAndTake, TakeLock, Labels
    <3> QED
      BY <1>0, <3>1
  <2> QED
    BY <2>1, <2>2
<1>7. CASE ReadForSchema(t)
  BY <1>0, <1>5, <1>7 DEF ReadForSchema, NothingToPublish
<1>8. CASE \/ AnswerQuery(t) \/ ConfigurationChange(t) \/ WorkspaceChange(t)
           \/ AssociateSchema(t) \/ InitializeWorkspace(t, "initialize")
           \/ InitializeWorkspace(t, "initialize_added")
  <2>1. Elsewhere
    BY <1>8 DEF AnswerQuery, ConfigurationChange, WorkspaceChange, AssociateSchema,
                InitializeWorkspace, Continue, MaySuspend, Labels
  <2> QED
    BY <1>0, <2>1
<1>9. CASE \/ ReplyToQuery(t) \/ ConfigurationDone(t) \/ AssociateSchemaDone(t)
           \/ AssociatePattern(t)
  <2>1. Elsewhere
    BY <1>9 DEF ReplyToQuery, ConfigurationDone, AssociateSchemaDone, AssociatePattern,
                DropAndFinish, Labels
  <2> QED
    BY <1>0, <2>1
<1>10. CASE UpdateConfiguration(t) \/ WorkspaceChangeDone(t) \/ AssociateInWorkspace(t)
  <2>1. Elsewhere
    BY <1>10 DEF UpdateConfiguration, WorkspaceChangeDone, AssociateInWorkspace, DropAndTake,
                 TakeLock, Labels
  <2> QED
    BY <1>0, <2>1
<1>11. CASE RequestConfiguration(t) \/ HandleResponse(t)
  BY <1>0, <1>11 DEF RequestConfiguration, HandleResponse, Suspend, SpawnAndFinish
<1> QED
  BY <1>1, <1>2, <1>3, <1>4, <1>6, <1>7, <1>8, <1>9, <1>10, <1>11 DEF Run

\* What a step publishes: the text of a document as it is, that a document is
\* excluded, or nothing of a closed one.
PublishesText(t) ==
    /\ t \in Sent /\ Doc(t) \in Docs /\ local[t].ws \in Workspaces /\ docs' = docs
    /\ docs[local[t].ws][Doc(t)] # NoText
    /\ \E dom, errors : Publish(Doc(t), docs[local[t].ws][Doc(t)], dom, errors)
PublishesExclusion(t) ==
    /\ t \in Sent /\ Doc(t) \in Docs /\ docs' = docs
    /\ Runs(t, "store") /\ Publish(Doc(t), NoText, NoText, "excluded")

LEMMA Publications ==
    ASSUME IInv, NEW t \in Tasks, Run(t) \/ InputOutputDone(t) \/ ClientAnswers(t), Validating
    PROVE  \/ shown' = shown
           \/ PublishesText(t)
           \/ PublishesExclusion(t)
           \/ /\ t \in Sent /\ Doc(t) \in Docs /\ ClearDiagnostics(t)
              /\ shown' = [shown EXCEPT ![Doc(t)] = Cleared]
<1>1. CASE StoreDocument(t)
  <2>1. t \in Sent /\ Doc(t) \in Docs
    BY <1>1, RunningSection DEF StoreDocument, DocSections
  <2> QED
    BY <1>1, <2>1 DEF StoreDocument, PublishesExclusion
<1>2. ASSUME NEW label \in {"syntax", "dom"}, NEW next, PublishStage(t, label, next)
      PROVE  PublishesText(t)
  <2>1. t \in Sent /\ Doc(t) \in Docs /\ local[t].ws \in Workspaces
    BY <1>2, RunningSection DEF PublishStage, DocSections, LocalState
  <2> QED
    BY <1>2, <2>1 DEF PublishStage, PublishesText, world
<1>3. CASE PublishSchemaErrors(t)
  <2>1. t \in Sent /\ Doc(t) \in Docs /\ local[t].ws \in Workspaces /\ pc[t] = "validate"
    BY <1>3, RunningSection DEF PublishSchemaErrors, DocSections, LocalState, Runs
  <2>2. docs[local[t].ws][Doc(t)] # NoText /\ docs' = docs
    BY <1>3, <2>1 DEF Validating, Validated, PublishSchemaErrors, world
  <2>3. \E dom, errors : Publish(Doc(t), docs[local[t].ws][Doc(t)], dom, errors)
    BY <1>3 DEF PublishSchemaErrors
  <2> QED
    BY <2>1, <2>2, <2>3 DEF PublishesText
<1>4. CASE ClearDiagnostics(t)
  BY <1>4, RunningSection DEF ClearDiagnostics, DocSections
<1>5. CASE FirstPoll(t) \/ InputOutputDone(t) \/ ClientAnswers(t) \/ DocumentClose(t)
  BY <1>5 DEF FirstPoll, InputOutputDone, ClientAnswers, DocumentClose
<1>6. CASE PublishSyntaxErrors(t) \/ PublishDomErrors(t) \/ ReadForSchema(t)
  BY <1>2, <1>6 DEF PublishSyntaxErrors, PublishDomErrors, NothingToPublish, ReadForSchema
<1>7. CASE \/ AnswerQuery(t) \/ ReplyToQuery(t)
           \/ ConfigurationChange(t) \/ ConfigurationDone(t) \/ UpdateConfiguration(t)
           \/ RequestConfiguration(t) \/ HandleResponse(t)
  BY <1>7 DEF AnswerQuery, ReplyToQuery, ConfigurationChange, ConfigurationDone,
              UpdateConfiguration, RequestConfiguration, HandleResponse
<1>8. CASE \/ InitializeWorkspace(t, "initialize")
           \/ InitializeWorkspace(t, "initialize_added")
           \/ WorkspaceChange(t) \/ WorkspaceChangeDone(t)
           \/ AssociateSchema(t) \/ AssociateInWorkspace(t) \/ AssociateSchemaDone(t)
           \/ AssociatePattern(t)
  BY <1>8 DEF InitializeWorkspace, WorkspaceChange, WorkspaceChangeDone, AssociateSchema,
              AssociateInWorkspace, AssociateSchemaDone, AssociatePattern
<1> QED
  BY <1>1, <1>3, <1>4, <1>5, <1>6, <1>7, <1>8 DEF Run, DocumentOpen, DocumentChange
-------------------------------------------------------------------------------
(* The texts of the world while the folders stay.                              *)

\* No workspace comes or goes, and so the workspace of a document is the same.
LEMMA FoldersKept ==
    ASSUME IInv, SteadyTraffic, NEW t \in Tasks,
           Run(t) \/ InputOutputDone(t) \/ ClientAnswers(t)
    PROVE  ~WorkspaceChange(t) /\ folders' = folders /\ \A d : ByDocument(d)' = ByDocument(d)
<1>1. ASSUME WorkspaceChange(t)
      PROVE  FALSE
  <2>1. t \in Sent /\ pc[t] = "change_folders"
    BY <1>1, RunningTask DEF WorkspaceChange
  <2>2. Kind(t) = "folders"
    BY <2>1 DEF IInv, KindsOfSections, SectionKind
  <2> QED
    BY <2>1, <2>2 DEF SteadyTraffic, FoldersStay
<1>2. folders' = folders
  <2>1. CASE StoreDocument(t) \/ DocumentClose(t)
    BY <2>1 DEF StoreDocument, DocumentClose
  <2>2. CASE ~(StoreDocument(t) \/ DocumentClose(t))
    BY <1>1, <2>2, OtherStepsKeepTexts
  <2> QED
    BY <2>1, <2>2
<1> QED
  BY <1>1, <1>2 DEF ByDocument

\* A text of a document comes from the handler that stores it, in the workspace of the
\* document, and that of a close removes it there.
LEMMA PlacedTexts ==
    ASSUME IInv, SteadyTraffic, TextsInPlace, NEW t \in Tasks,
           Run(t) \/ InputOutputDone(t) \/ ClientAnswers(t),
           NEW w \in Workspaces, NEW d \in Docs, docs'[w][d] # NoText
    PROVE  /\ w = ByDocument(d)
           /\ DocumentClose(t) => Doc(t) # d
           /\ \/ docs'[w][d] = docs[w][d]
              \/ docs'[w][d] = t /\ d = Doc(t) /\ StoreDocument(t)
<1>0. docs \in [Workspaces -> [Docs -> 0..Len(inbox)]]
  BY DEF IInv, TypeOK, WorldOK
<1>1. CASE StoreDocument(t)
  <2>1. /\ docs' = docs \/ docs' = [docs EXCEPT ![ByDocument(Doc(t))][Doc(t)] = t]
        /\ ~DocumentClose(t)
    BY <1>1 DEF StoreDocument, DocumentClose, Runs
  <2> QED
    BY <1>0, <1>1, <2>1 DEF TextsInPlace
<1>2. CASE DocumentClose(t)
  <2>1. docs' = [docs EXCEPT ![ByDocument(Doc(t))][Doc(t)] = NoText]
    BY <1>2 DEF DocumentClose
  <2>2. docs'[w][d] = docs[w][d]
    BY <1>0, <2>1
  <2>3. w = ByDocument(d)
    BY <2>2 DEF TextsInPlace
  <2> QED
    BY <1>0, <2>1, <2>2, <2>3
<1>3. CASE ~(StoreDocument(t) \/ DocumentClose(t))
  BY <1>3, FoldersKept, OtherStepsKeepTexts DEF TextsInPlace
<1> QED
  BY <1>1, <1>2, <1>3

\* What the handler of a document knows of the messages after its own: those of
\* handlers that write did nothing yet.
LEMMA LaterAreUnserved ==
    ASSUME TextInv, NEW t \in Tasks, StoreDocument(t)
    PROVE  /\ t \in Sent /\ Doc(t) \in Docs /\ Stores(t, Doc(t)) /\ pc[t] \in Unserved
           /\ \A j \in Sent : /\ j # t \/ pc[j] \in Unserved
                              /\ \A d : (Stores(j, d) \/ Closes(j, d)) /\ j > t
                                        => pc[j] \in Unserved
<1>0. IInv /\ BodiesOfKinds /\ ServedInOrder
  BY DEF TextInv, OrderInv
<1>1. t \in Sent /\ Doc(t) \in Docs /\ pc[t] = "store"
  BY <1>0, RunningSection, RunningTask DEF StoreDocument, DocSections
<1>2. Kind(t) \in {"open", "change"} /\ Kind(t) # "initialized" /\ Writes(t)
  BY <1>0, <1>1, StoringKinds
<1>3. pc[t] \in Unserved /\ Stores(t, Doc(t))
  BY <1>1, <1>2 DEF Unserved, Bodies, Stores
<1>4. ASSUME NEW j \in Sent, NEW d, Stores(j, d) \/ Closes(j, d), j > t
      PROVE  pc[j] \in Unserved
  <2>1. Kind(j) # "initialized" /\ t < j
    <3>1. t \in Nat /\ j \in Nat
      BY <1>0, <1>1, QueueTypes DEF IInv
    <3> QED
      BY <1>4, <3>1 DEF Stores, Closes
  <2> QED
    BY <1>0, <1>1, <1>2, <1>3, <2>1 DEF ServedInOrder
<1> QED
  BY <1>1, <1>3, <1>4

\* A text that is stored is of the last message served of its document, and a close
\* that is served removes the text it finds.
LEMMA TextsNotClosedKept ==
    ASSUME TextInv, SteadyTraffic, TextsInPlace, TextsNotClosed, NEW t \in Tasks,
           Run(t) \/ InputOutputDone(t) \/ ClientAnswers(t)
    PROVE  TextsInPlace' /\ TextsNotClosed'
<1>0. IInv /\ OrderInv /\ inbox' = inbox /\ Sent' = Sent
  BY RunKeepsClient DEF TextInv, client, Sent
<1>1. TextsInPlace'
  BY <1>0, PlacedTexts, FoldersKept DEF TextsInPlace
<1>2. SUFFICES ASSUME NEW w \in Workspaces, NEW d \in Docs, docs'[w][d] # NoText,
                      NEW j \in Sent, Closes(j, d), j > docs'[w][d], pc'[j] \notin Unserved
               PROVE  FALSE
  BY <1>0, <1>1 DEF TextsNotClosed, Closes, Kind, Doc
<1>3. /\ DocumentClose(t) => Doc(t) # d
      /\ \/ docs'[w][d] = docs[w][d]
         \/ docs'[w][d] = t /\ d = Doc(t) /\ StoreDocument(t)
  BY <1>0, <1>2, PlacedTexts
<1>4. Edits(inbox, j, d) /\ Kind(j) = "close"
  BY <1>2 DEF Closes, Edits, Kind, Doc
<1>5. pc[j] \in Unserved
  <2>1. CASE docs'[w][d] = docs[w][d]
    BY <1>2, <2>1 DEF TextsNotClosed
  <2>2. CASE docs'[w][d] = t /\ StoreDocument(t)
    BY <1>2, <2>2, LaterAreUnserved
  <2> QED
    BY <1>3, <2>1, <2>2
<1>6. j = t /\ d = Doc(t) /\ (StoreDocument(t) \/ DocumentClose(t))
  BY <1>0, <1>2, <1>4, <1>5, NewlyServed
<1>7. StoreDocument(t)
  BY <1>3, <1>6
<1> QED
  BY <1>4, <1>6, <1>7, LaterAreUnserved DEF Stores

LEMMA ClosingLabelsKept ==
    ASSUME IInv, ClosingLabels, NEW t \in Tasks,
           Run(t) \/ InputOutputDone(t) \/ ClientAnswers(t)
    PROVE  ClosingLabels'
<1>1. inbox' = inbox
  BY RunKeepsClient DEF client
<1>2. SUFFICES ASSUME NEW u \in Sent, Kind(u) = "close"
               PROVE  pc'[u] \in {"unborn", "remove", "clear", "done"}
  BY <1>1 DEF ClosingLabels, Sent, Kind
<1>3. pc[u] \in {"unborn", "remove", "clear", "done"} /\ u \in Tasks
  BY <1>2, SentAreTasks DEF ClosingLabels, IInv
<1> QED
  BY <1>2, <1>3, ClosingStep, OthersUntouched

\* While a task validates, nobody stores a text.
LEMMA ValidatingKept ==
    ASSUME IInv, IInv', OrderInv, ExecInv, SteadyTraffic, Validating, NEW t \in Tasks,
           Run(t) \/ InputOutputDone(t) \/ ClientAnswers(t)
    PROVE  Validating'
<1>1. inbox' = inbox
  BY RunKeepsClient DEF client
<1>2. SUFFICES ASSUME NEW u \in Sent, pc'[u] = "validate"
               PROVE  ~Waits(lock', PublishGuard(u)) /\ docs'[local'[u].ws][Doc(u)] # NoText
  BY <1>1 DEF Validating, Validated, Sent, Doc, PublishGuard
<1>3. u \in Tasks
  BY SentAreTasks DEF IInv
<1>4. CASE ReadForSchema(t) /\ u = t
  <2>1. docs[local[t].ws][Doc(t)] # NoText
    BY <1>2, <1>4, ComesToValidate DEF InputOutputDone, InputOutput, ReadForSchema, NothingToPublish, Runs
  <2>2. UNCHANGED <<lock, local, docs>>
    BY <1>4, <2>1 DEF ReadForSchema, NothingToPublish, world
  <2>3. ~Waits(lock, PublishGuard(t))
    BY <1>4, RunningAlone DEF ReadForSchema, NothingToPublish
  <2> QED
    BY <1>4, <2>1, <2>2, <2>3
<1>5. CASE InputOutputDone(t) /\ u = t
  BY <1>2, <1>5 DEF InputOutputDone, Validating, Validated, world
<1>6. CASE u # t
  <2>1. pc[u] = "validate" /\ local'[u] = local[u]
    BY <1>2, <1>3, <1>6, OthersUntouched
  <2>2. ~Waits(lock, PublishGuard(u)) /\ docs[local[u].ws][Doc(u)] # NoText
    BY <2>1 DEF Validating, Validated
  <2>3. PublishGuard(u) \notin OwnGuards(t)
    BY <1>6 DEF OwnGuards, HandlerGuard, PublishGuard
  <2>4. ~Waits(lock', PublishGuard(u))
    BY <2>2, <2>3, NoNewWaiter
  <2>5. PublishGuard(u) \in lock.read
    <3>1. Asked(lock, PublishGuard(u), "read")
      BY <1>3, <2>1 DEF IInv, SectionsAreGuarded, SectionGuard, PublishSections
    <3> QED
      BY <2>2, <3>1, AskedAndNotWaiting
  <2>6. ASSUME StoreDocument(t) \/ DocumentClose(t)
        PROVE  FALSE
    <3>1. PICK label \in {"store", "remove"} : Runs(t, label)
      BY <2>6 DEF StoreDocument, DocumentClose
    <3>2. Asked(lock, HandlerGuard(t), "write")
      BY <3>1, RunningSection DEF WriteSections
    <3>3. HandlerGuard(t) \in lock.write
      BY <3>1, <3>2, RunningAlone, AskedAndNotWaiting
    <3> QED
      BY <2>5, <3>3 DEF IInv, TypeOK, WorldOK, WellFormed
  <2>7. docs' = docs
    BY <2>6, FoldersKept, OtherStepsKeepTexts
  <2> QED
    BY <2>1, <2>2, <2>4, <2>7
<1> QED
  BY <1>2, <1>4, <1>5, <1>6, ComesToValidate
-------------------------------------------------------------------------------
(* The diagnostics shown.                                                      *)

\* The text published is the only one the world has of the document.
LEMMA PublishedText ==
    ASSUME TextInv, TextsInPlace, NEW t \in Tasks, PublishesText(t), NEW d \in Docs, d = Doc(t)
    PROVE  \E k \in Sent :
               /\ k # NoText /\ shown'[d].text = k /\ Stores(k, d) /\ pc[k] \notin Unserved
               /\ docs[ByDocument(d)][d] = k
<1>1. PICK dom, errors : Publish(d, docs[local[t].ws][d], dom, errors)
  BY DEF PublishesText
<1>2. local[t].ws \in Workspaces /\ docs[local[t].ws][d] # NoText
  BY DEF PublishesText
<1>3. shown \in [Docs -> Diagnostics]
  BY DEF TextInv, IInv, TypeOK, ClientOK
<1>4. shown'[d].text = docs[local[t].ws][d]
  BY <1>1, <1>3 DEF Publish
<1>5. local[t].ws = ByDocument(d)
  BY <1>2 DEF TextsInPlace
<1> QED
  BY <1>2, <1>4, <1>5 DEF TextInv, TextsAreServed, Stores

\* What a step leaves of the diagnostics of one document.
LEMMA ShownStep ==
    ASSUME TextInv, TextsInPlace, Validating, NEW t \in Tasks,
           Run(t) \/ InputOutputDone(t) \/ ClientAnswers(t), NEW d \in Docs
    PROVE  \/ shown'[d] = shown[d] /\ ~(ClearDiagnostics(t) /\ Doc(t) = d)
           \/ shown'[d] = Cleared
           \/ shown'[d].text = NoText /\ d = Doc(t) /\ StoreDocument(t)
           \/ /\ docs' = docs /\ docs[ByDocument(d)][d] # NoText
              /\ shown'[d].text = docs[ByDocument(d)][d]
<1>0. IInv /\ shown \in [Docs -> Diagnostics]
  BY DEF TextInv, IInv, TypeOK, ClientOK
<1>1. CASE shown' = shown
  <2>1. CASE ClearDiagnostics(t) /\ Doc(t) = d
    BY <1>0, <2>1 DEF ClearDiagnostics
  <2> QED
    BY <1>1, <2>1
<1>2. CASE PublishesText(t)
  <2>1. CASE d = Doc(t)
    BY <1>2, <2>1, PublishedText DEF PublishesText
  <2>2. CASE d # Doc(t)
    BY <1>0, <1>2, <2>2 DEF PublishesText, Publish
  <2> QED
    BY <2>1, <2>2
<1>3. CASE PublishesExclusion(t)
  <2>1. CASE d = Doc(t)
    <3>1. shown'[d].text = NoText
      BY <1>0, <1>3, <2>1 DEF PublishesExclusion, Publish
    <3>2. pc[t] = "store" /\ ~InputOutputDone(t) /\ ~ClientAnswers(t)
      BY <1>3 DEF PublishesExclusion, Runs, InputOutputDone, InputOutput, ClientAnswers
    <3> QED
      BY <2>1, <3>1, <3>2, BodySteps
  <2>2. CASE d # Doc(t)
    BY <1>0, <1>3, <2>2 DEF PublishesExclusion, Publish
  <2> QED
    BY <2>1, <2>2
<1>4. CASE ClearDiagnostics(t) /\ shown' = [shown EXCEPT ![Doc(t)] = Cleared]
  BY <1>0, <1>4
<1> QED
  BY <1>0, <1>1, <1>2, <1>3, <1>4, Publications

LEMMA ShownTextsKept ==
    ASSUME TextInv, SteadyTraffic, TextsInPlace, Validating, ShownTexts, NEW t \in Tasks,
           Run(t) \/ InputOutputDone(t) \/ ClientAnswers(t)
    PROVE  ShownTexts'
<1>0. IInv /\ OrderInv /\ inbox' = inbox /\ Sent' = Sent
  BY RunKeepsClient DEF TextInv, client, Sent
<1>1. SUFFICES ASSUME NEW d \in Docs, NEW k, k = shown'[d].text, k # NoText
               PROVE  /\ k \in Sent /\ Stores(k, d) /\ pc'[k] \notin Unserved
                      /\ \A w \in Workspaces : docs'[w][d] # NoText => docs'[w][d] >= k
  BY <1>0 DEF ShownTexts, Stores, Kind, Doc
<1>2. CASE shown'[d] = shown[d]
  <2>1. /\ k \in Sent /\ Stores(k, d) /\ pc[k] \notin Unserved
        /\ \A w \in Workspaces : docs[w][d] # NoText => docs[w][d] >= k
    BY <1>1, <1>2 DEF ShownTexts
  <2>2. ASSUME NEW w \in Workspaces, docs'[w][d] # NoText
        PROVE  docs'[w][d] >= k
    <3>1. CASE docs'[w][d] = docs[w][d]
      BY <2>1, <2>2, <3>1
    <3>2. CASE docs'[w][d] = t /\ StoreDocument(t)
      <4>1. t \in Nat /\ k \in Nat
        BY <1>0, <2>1, <3>2, LaterAreUnserved, QueueTypes DEF IInv
      <4>2. ~(k > t)
        BY <2>1, <3>2, LaterAreUnserved
      <4> QED
        BY <3>2, <4>1, <4>2
    <3> QED
      BY <1>0, <2>2, <3>1, <3>2, PlacedTexts
  <2> QED
    BY <1>0, <2>1, <2>2, Serving
<1>3. CASE docs' = docs /\ docs[ByDocument(d)][d] # NoText /\ k = docs[ByDocument(d)][d]
  <2>1. ByDocument(d) \in Workspaces
    BY <1>0, ByDocumentPresent DEF IInv, TypeOK, WorldOK
  <2>2. k \in Sent /\ Stores(k, d) /\ pc[k] \notin Unserved
    BY <1>3, <2>1 DEF TextInv, TextsAreServed, Stores
  <2>3. ASSUME NEW w \in Workspaces, docs'[w][d] # NoText
        PROVE  docs'[w][d] >= k
    <3>1. docs'[w][d] = k
      BY <1>3, <2>3 DEF TextsInPlace
    <3>2. k \in Nat
      BY <1>0, <2>2, QueueTypes DEF IInv
    <3> QED
      BY <3>1, <3>2
  <2> QED
    BY <1>0, <2>2, <2>3, Serving
<1> QED
  BY <1>1, <1>2, <1>3, ShownStep DEF Cleared

\* A close is done when it cleared what was shown.
LEMMA ShownIsLiveKept ==
    ASSUME TextInv, SteadyTraffic, TextsInPlace, TextsNotClosed, ClosingLabels, Validating,
           ShownIsLive, NEW t \in Tasks, Run(t) \/ InputOutputDone(t) \/ ClientAnswers(t)
    PROVE  ShownIsLive'
<1>0. IInv /\ OrderInv /\ inbox' = inbox /\ Sent' = Sent
  BY RunKeepsClient DEF TextInv, client, Sent
<1>1. SUFFICES ASSUME NEW d \in Docs, shown'[d] # Cleared
               PROVE  \E k \in Sent : /\ Stores(k, d)
                                      /\ \A j \in Sent : Closes(j, d) /\ j > k => pc'[j] # "done"
  BY <1>0 DEF ShownIsLive, Stores, Closes, Kind, Doc
<1>2. ASSUME NEW j \in Sent, Closes(j, d), pc[j] # "done", pc'[j] = "done"
      PROVE  ClearDiagnostics(t) /\ Doc(t) = d
  <2>1. j \in Tasks /\ Kind(j) = "close" /\ pc[j] \in {"unborn", "remove", "clear", "done"}
    BY <1>0, <1>2, SentAreTasks DEF ClosingLabels, IInv, Closes
  <2>2. j = t
    BY <1>0, <1>2, <2>1, OthersUntouched
  <2> QED
    BY <1>0, <1>2, <2>1, <2>2, ClosingStep DEF Closes
<1>3. CASE shown'[d] = shown[d] /\ ~(ClearDiagnostics(t) /\ Doc(t) = d)
  <2>1. PICK k \in Sent : /\ Stores(k, d)
                          /\ \A j \in Sent : Closes(j, d) /\ j > k => pc[j] # "done"
    BY <1>1, <1>3 DEF ShownIsLive
  <2> QED
    BY <1>2, <1>3, <2>1
<1>4. CASE d = Doc(t) /\ StoreDocument(t)
  <2>1. t \in Sent /\ Stores(t, d)
    BY <1>4, LaterAreUnserved
  <2>2. ASSUME NEW j \in Sent, Closes(j, d), j > t
        PROVE  pc'[j] # "done"
    <3>1. pc[j] # "done"
      BY <1>4, <2>2, LaterAreUnserved DEF Unserved, Bodies
    <3>2. ~ClearDiagnostics(t)
      BY <1>4 DEF StoreDocument, ClearDiagnostics, Runs
    <3> QED
      BY <1>2, <2>2, <3>1, <3>2
  <2> QED
    BY <2>1, <2>2
<1>5. CASE /\ docs' = docs /\ docs[ByDocument(d)][d] # NoText
           /\ shown'[d].text = docs[ByDocument(d)][d]
  <2> DEFINE k == docs[ByDocument(d)][d]
  <2>1. ByDocument(d) \in Workspaces /\ ByDocument(d)' = ByDocument(d)
    BY <1>0, ByDocumentPresent, FoldersKept DEF IInv, TypeOK, WorldOK
  <2>2. k \in Sent /\ Stores(k, d)
    BY <1>5, <2>1 DEF TextInv, TextsAreServed, Stores
  <2>3. TextsNotClosed'
    BY TextsNotClosedKept
  <2>4. ASSUME NEW j \in Sent, Closes(j, d), j > k
        PROVE  pc'[j] # "done"
    <3>1. Closes(j, d)' /\ docs'[ByDocument(d)][d] = k /\ k # NoText
      BY <1>0, <1>5, <2>4 DEF Closes, Kind, Doc
    <3>2. pc'[j] \in Unserved
      BY <1>0, <2>1, <2>3, <2>4, <3>1 DEF TextsNotClosed
    <3> QED
      BY <3>2 DEF Unserved, Bodies
  <2> QED
    BY <2>2, <2>4
<1> QED
  BY <1>1, <1>3, <1>4, <1>5, ShownStep
-------------------------------------------------------------------------------
(* The theorems.                                                               *)

LEMMA RunningKeepsDiagnostics ==
    ASSUME DiagInv, TextInv', ExecInv', NEW t \in Tasks,
           Run(t) \/ InputOutputDone(t) \/ ClientAnswers(t)
    PROVE  DiagInv'
<1>0. /\ TextInv /\ IInv /\ IInv' /\ OrderInv /\ ExecInv /\ SteadyTraffic /\ TextsInPlace
      /\ TextsNotClosed /\ ClosingLabels /\ Validating /\ ShownTexts /\ ShownIsLive
  BY DEF DiagInv, TextInv
<1>1. UNCHANGED client
  BY RunKeepsClient
<1>2. SteadyTraffic' /\ EditorTexts'
  BY <1>1 DEF DiagInv, SteadyTraffic, FoldersStay, EditorTexts, client, Sent, Kind
<1>3. TextsInPlace' /\ TextsNotClosed' /\ ClosingLabels' /\ Validating'
  BY <1>0, TextsNotClosedKept, ClosingLabelsKept, ValidatingKept
<1>4. ShownTexts' /\ ShownIsLive'
  BY <1>0, ShownTextsKept, ShownIsLiveKept
<1> QED
  BY <1>2, <1>3, <1>4 DEF DiagInv

LEMMA SendingKeepsDiagnostics ==
    ASSUME DiagInv, TextInv', ExecInv', ClientSends
    PROVE  DiagInv'
<1> DEFINE new == Len(inbox) + 1
<1>0. TextInv /\ IInv
  BY DEF DiagInv, TextInv
<1>1. /\ Sent' = Sent \cup {new} /\ \A t \in Sent : inbox'[t] = inbox[t]
      /\ pc[new] = "unborn" /\ \A t \in Sent : t \in Nat
  BY <1>0, Sending, QueueTypes DEF IInv
<1>2. PICK m \in Messages : inbox' = Append(inbox, m) /\ m.kind \in Traffic
  BY <1>0, EditorStep
<1>3. inbox'[new] = m
  <2>1. inbox \in Seq(Messages)
    BY <1>0 DEF IInv, TypeOK, ClientOK
  <2> QED
    BY <1>2, <2>1
<1>4. UNCHANGED <<pc, local, lock, folders, docs, shown>>
  BY DEF ClientSends, world
<1> HIDE DEF new
<1>5. SteadyTraffic'
  <2>1. \A t \in Sent' : inbox'[t].kind \in Traffic
    BY <1>1, <1>2, <1>3 DEF DiagInv, SteadyTraffic, Kind
  <2> QED
    BY <2>1 DEF DiagInv, SteadyTraffic, FoldersStay, Kind
<1>6. EditorTexts'
  BY <1>0, SendingKeepsEditorTexts DEF DiagInv
<1>7. TextsInPlace'
  BY <1>4 DEF DiagInv, TextsInPlace, ByDocument
<1>8. \A t \in Sent : Kind(t)' = Kind(t) /\ Doc(t)' = Doc(t)
  BY <1>1 DEF Kind, Doc
<1>9. TextsNotClosed'
  <2>1. SUFFICES ASSUME NEW w \in Workspaces, NEW d \in Docs, docs[w][d] # NoText,
                        NEW j \in Sent \cup {new}, Closes(j, d)', j > docs[w][d]
                 PROVE  pc[j] \in Unserved
    BY <1>1, <1>4 DEF TextsNotClosed
  <2>2. CASE j \in Sent
    BY <1>8, <2>1, <2>2 DEF DiagInv, TextsNotClosed, Closes
  <2>3. CASE j = new
    BY <1>1, <2>3 DEF Unserved
  <2> QED
    BY <2>1, <2>2, <2>3
<1>10. ClosingLabels' /\ Validating'
  <2>1. ClosingLabels'
    BY <1>1, <1>4, <1>8 DEF DiagInv, ClosingLabels
  <2>2. SUFFICES ASSUME NEW t \in Sent', pc[t] = "validate"
                 PROVE  Validated(t)'
    BY <1>4, <2>1 DEF Validating
  <2>3. t \in Sent /\ Validated(t)
    BY <1>1, <2>2 DEF DiagInv, Validating
  <2> QED
    BY <1>4, <1>8, <2>3 DEF Validated, PublishGuard
<1>11. ShownTexts'
  <2>1. SUFFICES ASSUME NEW d \in Docs, shown[d].text # NoText
                 PROVE  /\ shown[d].text \in Sent' /\ Stores(shown[d].text, d)'
                        /\ pc[shown[d].text] \notin Unserved
                        /\ \A w \in Workspaces :
                               docs[w][d] # NoText => docs[w][d] >= shown[d].text
    BY <1>4 DEF ShownTexts, Stores
  <2>2. /\ shown[d].text \in Sent /\ Stores(shown[d].text, d)
        /\ pc[shown[d].text] \notin Unserved
        /\ \A w \in Workspaces : docs[w][d] # NoText => docs[w][d] >= shown[d].text
    BY <2>1 DEF DiagInv, ShownTexts
  <2>3. Stores(shown[d].text, d)'
    BY <1>4, <1>8, <2>2 DEF Stores
  <2> QED
    BY <1>1, <2>2, <2>3
<1>12. ShownIsLive'
  <2>1. SUFFICES ASSUME NEW d \in Docs, shown[d] # Cleared
                 PROVE  \E k \in Sent' : /\ Stores(k, d)'
                                         /\ \A j \in Sent' :
                                                Closes(j, d)' /\ j > k => pc[j] # "done"
    BY <1>4 DEF ShownIsLive, Stores, Closes
  <2>2. PICK k \in Sent : /\ Stores(k, d)
                          /\ \A j \in Sent : Closes(j, d) /\ j > k => pc[j] # "done"
    BY <2>1 DEF DiagInv, ShownIsLive
  <2>3. k \in Sent' /\ Stores(k, d)'
    BY <1>1, <1>8, <2>2 DEF Stores
  <2>4. \A j \in Sent' : Closes(j, d)' /\ j > k => pc[j] # "done"
    BY <1>1, <1>8, <2>2 DEF Closes
  <2> QED
    BY <2>3, <2>4
<1> QED
  BY <1>5, <1>6, <1>7, <1>9, <1>10, <1>11, <1>12 DEF DiagInv

LEMMA StutterKeepsDiagnostics ==
    ASSUME DiagInv, TextInv', ExecInv', UNCHANGED vars
    PROVE  DiagInv'
<1>1. /\ Sent' = Sent /\ UNCHANGED <<inbox, current, shown, pc, local, lock, folders, docs>>
      /\ \A d : ByDocument(d)' = ByDocument(d)
  BY DEF vars, Sent, ByDocument
<1>2. SteadyTraffic' /\ EditorTexts' /\ TextsInPlace'
  BY <1>1 DEF DiagInv, SteadyTraffic, FoldersStay, EditorTexts, TextsInPlace, Kind
<1>3. TextsNotClosed' /\ ClosingLabels' /\ Validating'
  BY <1>1 DEF DiagInv, TextsNotClosed, ClosingLabels, Validating, Validated, Closes, Kind, Doc,
              PublishGuard
<1>4. ShownTexts' /\ ShownIsLive'
  BY <1>1 DEF DiagInv, ShownTexts, ShownIsLive, Stores, Closes, Kind, Doc
<1> QED
  BY <1>2, <1>3, <1>4 DEF DiagInv

\* The executor's part needs no assumption.
OrderedExec == TextInv /\ ExecInv

LEMMA ExecKept == OrderedExec /\ [Next]_vars => OrderedExec'
<1> SUFFICES ASSUME OrderedExec, [Next]_vars PROVE OrderedExec'
  OBVIOUS
<1>1. TextInv' /\ IInv /\ IInv' /\ OrderInv
  BY TextInvariance DEF OrderedExec, TextInv
<1> QED
  BY <1>1, ExecInvariance DEF OrderedExec

LEMMA DiagInvariance == DiagInv /\ [Next]_vars => DiagInv'
<1> SUFFICES ASSUME DiagInv, [Next]_vars PROVE DiagInv'
  OBVIOUS
<1>1. TextInv' /\ ExecInv'
  BY ExecKept DEF DiagInv, OrderedExec
<1> QED
  BY <1>1, RunningKeepsDiagnostics, SendingKeepsDiagnostics, StutterKeepsDiagnostics
     DEF Next, Idle

LEMMA InitDiagnostics == FoldersStay /\ Init => DiagInv
<1> SUFFICES ASSUME FoldersStay, Init PROVE DiagInv
  OBVIOUS
<1>1. TextInv /\ ExecInv /\ Sent = {}
  BY InitTexts, InitExec DEF Init, Sent
<1>2. EditorTexts
  BY <1>1 DEF EditorTexts, TextAfter, Init, Closed, NoText
<1>3. TextsInPlace /\ TextsNotClosed
  BY DEF Init, TextsInPlace, TextsNotClosed
<1>4. ShownTexts /\ ShownIsLive
  BY DEF Init, ShownTexts, ShownIsLive, Cleared
<1> QED
  BY <1>1, <1>2, <1>3, <1>4 DEF DiagInv, SteadyTraffic, ClosingLabels, Validating

\* A task stands in the queues of the executor and of the lock once and in one of them,
\* and claims no guard but those of the section it is in: the task that is polled waits
\* for nothing, whatever the client sends and the folders do (world.rs, diagnostics.rs).
THEOREM TasksStandOnce == Spec => []ExecInv
<1>1. Init => OrderedExec
  BY InitTexts, InitExec DEF OrderedExec
<1>2. OrderedExec => ExecInv
  BY DEF OrderedExec
<1> QED
  BY <1>1, <1>2, ExecKept, PTL DEF Spec

\* What is shown of a document is of the one text the world has of it or of an earlier
\* one, and of none closed for good, as DiagInv says.
THEOREM DiagnosticsInvariant == FoldersStay /\ Spec => []DiagInv
<1> QED
  BY InitDiagnostics, DiagInvariance, PTL DEF Spec

\* A document the client closed for good ends without diagnostics: clear_diagnostics,
\* which the close spawns, comes after every publication of its texts (diagnostics.rs,
\* handlers/documents.rs).
THEOREM ClosedStaysClear == FoldersStay /\ Spec => []ClosedIsClear
<1>1. DiagInv => ClosedIsClear
  <2> SUFFICES ASSUME DiagInv, Quiet, NEW d \in Docs, current[d] = Closed, shown[d] # Cleared
               PROVE  FALSE
    BY DEF ClosedIsClear
  <2>1. PICK k \in Sent : /\ Stores(k, d)
                          /\ \A j \in Sent : Closes(j, d) /\ j > k => pc[j] # "done"
    BY DEF DiagInv, ShownIsLive
  <2>2. TextAfter(inbox, Sent, d, NoText) /\ Edits(inbox, k, d) /\ Kind(k) # "close"
    BY <2>1 DEF DiagInv, EditorTexts, Closed, NoText, Stores, Edits, Kind, Doc
  <2>3. PICK j \in Sent : /\ Edits(inbox, j, d) /\ NoText = TextLeft(inbox, j)
                          /\ \A i \in Sent : Edits(inbox, i, d) => i <= j
    BY <2>2 DEF TextAfter
  <2>4. j \in Nat /\ k \in Nat /\ j # NoText
    <3>1. Len(inbox) \in Nat
      BY QueueTypes DEF DiagInv, TextInv, IInv
    <3> QED
      BY <3>1 DEF Sent, NoText
  <2>5. Closes(j, d)
    BY <2>3, <2>4 DEF TextLeft, Edits, Closes, Kind, Doc
  <2>6. k <= j /\ k # j
    BY <2>2, <2>3, <2>5 DEF Closes
  <2>7. j > k
    BY <2>4, <2>6
  <2> QED
    BY <2>1, <2>5, <2>7 DEF Quiet, Sent
<1> QED
  BY <1>1, DiagnosticsInvariant, PTL

\* Diagnostics are published in the order of the texts: publish_diagnostics
\* (diagnostics.rs) never shows an older text of a document after a newer one, however
\* many of its stages are under way.
THEOREM DiagnosticsFollow == FoldersStay /\ Spec => DiagnosticsNeverGoBack
<1>1. DiagInv /\ [Next]_vars =>
          [\A d \in Docs : shown'[d] # shown[d] /\ shown'[d].text # NoText
                           => shown'[d].text >= shown[d].text]_vars
  <2> SUFFICES ASSUME DiagInv, Next, NEW d \in Docs, shown'[d] # shown[d],
                      shown'[d].text # NoText
               PROVE  shown'[d].text >= shown[d].text
    OBVIOUS
  <2>1. PICK t \in Tasks : Run(t) \/ InputOutputDone(t) \/ ClientAnswers(t)
    BY DEF Next, Idle, ClientSends, vars
  <2>2. TextInv /\ TextsInPlace /\ Validating /\ IInv
    BY DEF DiagInv, TextInv
  <2>3. /\ docs[ByDocument(d)][d] # NoText /\ shown'[d].text = docs[ByDocument(d)][d]
        /\ ByDocument(d) \in Workspaces
    <3>1. ByDocument(d) \in Workspaces
      BY <2>2, ByDocumentPresent DEF IInv, TypeOK, WorldOK
    <3> QED
      BY <2>1, <2>2, <3>1, ShownStep DEF Cleared
  <2>4. CASE shown[d].text # NoText
    BY <2>3, <2>4 DEF DiagInv, ShownTexts
  <2>5. CASE shown[d].text = NoText
    <3>1. docs[ByDocument(d)][d] \in Nat
      BY <2>2, <2>3, QueueTypes DEF IInv, TypeOK, WorldOK
    <3> QED
      BY <2>3, <2>5, <3>1 DEF NoText
  <2> QED
    BY <2>4, <2>5
<1> QED
  BY <1>1, DiagnosticsInvariant, PTL DEF Spec, DiagnosticsNeverGoBack
=================================================================================
