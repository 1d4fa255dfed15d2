---------------------------- MODULE RpcServer_proof ----------------------------
(* For every number of messages: the server's variables keep their types, and the *)
(* server keeps its contract with the client (RpcContract).                       *)
(*                                                                              *)
(* A step of the server is one of the contract because the tasks are polled first *)
(* in the order of their messages (QueueOK), so that the two flags of the life    *)
(* cycle say what the contract reads off the messages and answers (HistoryOK).    *)
EXTENDS RpcServer, TLAPS, SequenceTheorems

\* A task in the queue has something to do, is there once, and is polled first
\* after all the tasks of earlier messages.
Queue(q, p, n, end) ==
    /\ \A i \in 1..Len(q) : p[q[i]] \in {"spawned", "handling", "consulted"}
    /\ \A i, j \in 1..Len(q) :
           i < j => q[i] # q[j] /\ (p[q[j]] = "spawned" => q[i] < q[j])
    /\ \A t \in Tasks : p[t] = "spawned" => \E i \in 1..Len(q) : q[i] = t
    /\ \A s, t \in Tasks : p[t] = "spawned" /\ p[s] \notin {"unread", "spawned"} => s < t
    /\ \A t \in Tasks : p[t] # "unread" => t <= n
    /\ \A t \in Tasks : end = "running" /\ t <= n => p[t] # "unread"

QueueOK == Queue(ready, pc, read, loop)

\* What the past steps of a task say of its message, its answers and the flags.
KindsOK ==
    \A t \in Tasks :
        /\ pc[t] = "handling" => Kind(t) \in {"initialize", "work"}
        /\ pc[t] \in {"asking", "consulted"} => Kind(t) = "consult"

AnswersOK ==
    \A i \in 1..Len(outbox) : outbox[i].id \in Tasks => pc[outbox[i].id] = "done"

InitializedOK ==
    initialized <=> \E t \in 1..Len(inbox), i \in 1..Len(outbox) :
                        /\ Kind(t) = "initialize"
                        /\ outbox[i].id = t /\ outbox[i].result \in {"success", "error"}

ShutdownOK ==
    loop = "running" =>
        (shutting_down <=> \E s \in 1..Len(inbox) : pc[s] = "done" /\ Kind(s) = "shutdown")

HistoryOK == KindsOK /\ AnswersOK /\ InitializedOK /\ ShutdownOK

IInv == TypeOK /\ QueueOK /\ HistoryOK

-------------------------------------------------------------------------------
(* The queue.                                                                   *)

\* The head of the queue is polled.
LEMMA PollKeepsQueue ==
    ASSUME NEW n \in 0..MaxMessages, NEW q \in Seq(1..n), NEW p \in [Tasks -> Labels], NEW end,
           Queue(q, p, n, end), q # <<>>,
           NEW label \in {"handling", "asking", "done"}
    PROVE  LET np == [p EXCEPT ![Head(q)] = label]
           IN  /\ Queue(Tail(q), np, n, end)
               /\ label = "handling" => Queue(q, np, n, end)
<1> DEFINE t == Head(q)
           np == [p EXCEPT ![t] = label]
<1>0. MaxMessages \in Nat /\ n \in Nat /\ 1..n \subseteq Tasks
  BY ServerAssumption DEF Tasks
<1>1. /\ Len(q) \in Nat \ {0} /\ t = q[1] /\ t \in Tasks /\ t <= n
      /\ \A i \in 1..Len(q) : q[i] \in 1..n /\ q[i] \in Tasks
  BY <1>0, EmptySeq, ElementOfSeq DEF Tasks
<1>2. /\ Len(Tail(q)) = Len(q) - 1
      /\ \A i \in 1..Len(Tail(q)) : Tail(q)[i] = q[i + 1]
  BY HeadTailProperties
<1>3. /\ np[t] = label
      /\ \A u \in Tasks : u # t => np[u] = p[u]
  BY <1>1
<1>4. \A i \in 2..Len(q) : q[i] # t /\ np[q[i]] = p[q[i]] /\ (p[q[i]] = "spawned" => t < q[i])
  BY <1>1, <1>3 DEF Queue
<1>5. \A u \in Tasks : np[u] = "spawned" => u # t /\ p[u] = "spawned" /\ \E i \in 2..Len(q) : q[i] = u
  BY <1>1, <1>3 DEF Queue
<1>6. \A s, u \in Tasks : np[u] = "spawned" /\ np[s] \notin {"unread", "spawned"} => s < u
  <2> SUFFICES ASSUME NEW s \in Tasks, NEW u \in Tasks, np[u] = "spawned",
                      np[s] \notin {"unread", "spawned"}
               PROVE  s < u
    OBVIOUS
  <2>1. CASE s = t
    BY <2>1, <1>4, <1>5
  <2>2. CASE s # t
    BY <2>2, <1>3, <1>5 DEF Queue
  <2> QED
    BY <2>1, <2>2
<1>7. /\ \A u \in Tasks : np[u] # "unread" => u <= n
      /\ \A u \in Tasks : end = "running" /\ u <= n => np[u] # "unread"
  BY <1>1, <1>3 DEF Queue
<1>8. Queue(Tail(q), np, n, end)
  <2>1. \A i \in 1..Len(Tail(q)) : i + 1 \in 2..Len(q) /\ Tail(q)[i] = q[i + 1]
    BY <1>1, <1>2
  <2>2. \A i \in 1..Len(Tail(q)) : np[Tail(q)[i]] \in {"spawned", "handling", "consulted"}
    BY <2>1, <1>4, <1>1 DEF Queue
  <2>3. ASSUME NEW i \in 1..Len(Tail(q)), NEW j \in 1..Len(Tail(q)), i < j
        PROVE  Tail(q)[i] # Tail(q)[j]
               /\ (np[Tail(q)[j]] = "spawned" => Tail(q)[i] < Tail(q)[j])
    <3>1. i + 1 \in 1..Len(q) /\ j + 1 \in 1..Len(q) /\ i + 1 < j + 1 /\ j + 1 \in 2..Len(q)
      BY <2>1, <2>3, <1>1, <1>2
    <3> QED
      BY <3>1, <2>1, <1>4 DEF Queue
  <2>4. \A u \in Tasks : np[u] = "spawned" => \E i \in 1..Len(Tail(q)) : Tail(q)[i] = u
    <3> SUFFICES ASSUME NEW u \in Tasks, np[u] = "spawned"
                 PROVE  \E i \in 1..Len(Tail(q)) : Tail(q)[i] = u
      OBVIOUS
    <3>1. PICK i \in 2..Len(q) : q[i] = u
      BY <1>5
    <3>2. i - 1 \in 1..Len(Tail(q)) /\ (i - 1) + 1 = i
      BY <1>1, <1>2
    <3> QED
      BY <3>1, <3>2, <2>1
  <2> QED
    BY <2>2, <2>3, <2>4, <1>6, <1>7 DEF Queue
<1>9. ASSUME label = "handling" PROVE Queue(q, np, n, end)
  <2>1. \A i \in 1..Len(q) : i = 1 \/ i \in 2..Len(q)
    BY <1>1
  <2>2. \A i \in 1..Len(q) : np[q[i]] \in {"spawned", "handling", "consulted"}
    BY <2>1, <1>1, <1>3, <1>4, <1>9 DEF Queue
  <2>3. ASSUME NEW i \in 1..Len(q), NEW j \in 1..Len(q), i < j
        PROVE  q[i] # q[j] /\ (np[q[j]] = "spawned" => q[i] < q[j])
    BY <2>3, <1>1, <1>4 DEF Queue
  <2>4. \A u \in Tasks : np[u] = "spawned" => \E i \in 1..Len(q) : q[i] = u
    BY <1>5 DEF Queue
  <2> QED
    BY <2>2, <2>3, <2>4, <1>6, <1>7 DEF Queue
<1> QED
  BY <1>8, <1>9

\* A task that was polled before is put behind the others.
LEMMA WakeKeepsQueue ==
    ASSUME NEW n \in 0..MaxMessages, NEW q \in Seq(1..n), NEW p \in [Tasks -> Labels], NEW end,
           Queue(q, p, n, end), NEW u \in Tasks, p[u] \in {"handling", "asking"},
           \A i \in 1..Len(q) : q[i] # u,
           NEW label \in {"handling", "consulted"}
    PROVE  u \in 1..n /\ Queue(Append(q, u), [p EXCEPT ![u] = label], n, end)
<1> DEFINE np == [p EXCEPT ![u] = label]
           nq == Append(q, u)
<1>0. MaxMessages \in Nat /\ n \in Nat /\ 1..n \subseteq Tasks /\ u \in 1..n
  BY ServerAssumption DEF Tasks, Queue
<1>1. /\ Len(q) \in Nat
      /\ \A i \in 1..Len(q) : q[i] \in Tasks /\ q[i] # u
  BY <1>0, LenProperties, ElementOfSeq
<1>2. /\ Len(nq) = Len(q) + 1 /\ nq[Len(q) + 1] = u
      /\ \A i \in 1..Len(q) : nq[i] = q[i]
  BY <1>0, AppendProperties
<1>3. np[u] = label /\ \A v \in Tasks : v # u => np[v] = p[v]
  OBVIOUS
<1>4. \A i \in 1..Len(nq) : \/ i \in 1..Len(q) /\ nq[i] = q[i] /\ np[nq[i]] = p[q[i]]
                            \/ i = Len(q) + 1 /\ nq[i] = u /\ np[nq[i]] = label
  BY <1>1, <1>2, <1>3
<1>5. \A i \in 1..Len(nq) : np[nq[i]] \in {"spawned", "handling", "consulted"}
  BY <1>4 DEF Queue
<1>6. ASSUME NEW i \in 1..Len(nq), NEW j \in 1..Len(nq), i < j
      PROVE  nq[i] # nq[j] /\ (np[nq[j]] = "spawned" => nq[i] < nq[j])
  <2>1. i \in 1..Len(q)
    BY <1>6, <1>1, <1>2
  <2> QED
    BY <2>1, <1>1, <1>4, <1>6 DEF Queue
<1>7. \A t \in Tasks : np[t] = "spawned" => \E i \in 1..Len(nq) : nq[i] = t
  <2> SUFFICES ASSUME NEW t \in Tasks, np[t] = "spawned" PROVE \E i \in 1..Len(nq) : nq[i] = t
    OBVIOUS
  <2>1. PICK i \in 1..Len(q) : q[i] = t
    BY <1>3 DEF Queue
  <2> QED
    BY <2>1, <1>1, <1>2
<1>8. \A s, t \in Tasks : np[t] = "spawned" /\ np[s] \notin {"unread", "spawned"} => s < t
  BY <1>3 DEF Queue
<1>9. /\ \A t \in Tasks : np[t] # "unread" => t <= n
      /\ \A t \in Tasks : end = "running" /\ t <= n => np[t] # "unread"
  BY <1>0, <1>3 DEF Queue
<1> QED
  BY <1>0, <1>5, <1>6, <1>7, <1>8, <1>9 DEF Queue

\* The task of the next message is spawned.
LEMMA SpawnKeepsQueue ==
    ASSUME NEW n \in 0..MaxMessages, n + 1 \in Tasks, NEW q \in Seq(1..n),
           NEW p \in [Tasks -> Labels], NEW end, Queue(q, p, n, end)
    PROVE  Queue(Append(q, n + 1), [p EXCEPT ![n + 1] = "spawned"], n + 1, end)
<1> DEFINE u == n + 1
           np == [p EXCEPT ![u] = "spawned"]
           nq == Append(q, u)
<1>0. MaxMessages \in Nat /\ n \in Nat /\ 1..n \subseteq Tasks /\ Tasks \subseteq Nat
  BY ServerAssumption DEF Tasks
<1>1. /\ Len(q) \in Nat
      /\ \A i \in 1..Len(q) : q[i] \in 1..n /\ q[i] \in Tasks /\ q[i] < u
  BY <1>0, LenProperties, ElementOfSeq
<1>2. /\ Len(nq) = Len(q) + 1 /\ nq[Len(q) + 1] = u
      /\ \A i \in 1..Len(q) : nq[i] = q[i]
  <2>1. q \in Seq(1..u)
    BY <1>0, SeqMonotonic, 1..n \subseteq 1..u
  <2> QED
    BY <2>1, <1>0, AppendProperties, u \in 1..u
<1>3. np[u] = "spawned" /\ p[u] = "unread" /\ \A v \in Tasks : v # u => np[v] = p[v]
  BY <1>0 DEF Queue
<1>4. \A i \in 1..Len(nq) : \/ i \in 1..Len(q) /\ nq[i] = q[i] /\ np[nq[i]] = p[q[i]]
                            \/ i = Len(q) + 1 /\ nq[i] = u /\ np[nq[i]] = "spawned"
  BY <1>1, <1>2, <1>3
<1>5. \A i \in 1..Len(nq) : np[nq[i]] \in {"spawned", "handling", "consulted"}
  BY <1>4 DEF Queue
<1>6. ASSUME NEW i \in 1..Len(nq), NEW j \in 1..Len(nq), i < j
      PROVE  nq[i] # nq[j] /\ (np[nq[j]] = "spawned" => nq[i] < nq[j])
  <2>1. i \in 1..Len(q) /\ q[i] < u /\ q[i] # u
    BY <1>0, <1>6, <1>1, <1>2
  <2> QED
    BY <2>1, <1>1, <1>4, <1>6 DEF Queue
<1>7. \A t \in Tasks : np[t] = "spawned" => \E i \in 1..Len(nq) : nq[i] = t
  <2> SUFFICES ASSUME NEW t \in Tasks, np[t] = "spawned" PROVE \E i \in 1..Len(nq) : nq[i] = t
    OBVIOUS
  <2>1. CASE t = u
    BY <2>1, <1>1, <1>2
  <2>2. CASE t # u
    <3>1. PICK i \in 1..Len(q) : q[i] = t
      BY <1>3, <2>2 DEF Queue
    <3> QED
      BY <3>1, <1>1, <1>2
  <2> QED
    BY <2>1, <2>2
<1>8. \A s, t \in Tasks : np[t] = "spawned" /\ np[s] \notin {"unread", "spawned"} => s < t
  <2> SUFFICES ASSUME NEW s \in Tasks, NEW t \in Tasks, np[t] = "spawned",
                      np[s] \notin {"unread", "spawned"}
               PROVE  s < t
    OBVIOUS
  <2>1. s # u /\ p[s] = np[s] /\ s <= n
    BY <1>3 DEF Queue
  <2> QED
    BY <2>1, <1>0, <1>3 DEF Queue
<1>9. /\ \A t \in Tasks : np[t] # "unread" => t <= n + 1
      /\ \A t \in Tasks : end = "running" /\ t <= n + 1 => np[t] # "unread"
  BY <1>0, <1>3 DEF Queue
<1> QED
  BY <1>5, <1>6, <1>7, <1>8, <1>9 DEF Queue

-------------------------------------------------------------------------------
(* The steps tasks are made of.                                                 *)

LEMMA Basics ==
    ASSUME TypeOK
    PROVE  /\ MaxMessages \in Nat /\ read \in Nat /\ Len(inbox) \in Nat /\ Len(outbox) \in Nat
           /\ read <= Len(inbox) /\ Len(inbox) <= MaxMessages
           /\ read \in 0..MaxMessages
           /\ 1..read \subseteq 1..Len(inbox) /\ 1..Len(inbox) \subseteq Tasks
           /\ \A t \in 1..Len(inbox) : t \in Nat /\ Kind(t) \in Kinds
           /\ \A i \in 1..Len(outbox) : outbox[i].id \in 0..MaxMessages + 1
                                       /\ outbox[i].result \in Results
<1>1. MaxMessages \in Nat /\ Len(inbox) \in Nat /\ Len(outbox) \in Nat
  BY ServerAssumption, LenProperties DEF TypeOK
<1>2. \A t \in 1..Len(inbox) : inbox[t] \in [kind : Kinds, about : Nat]
  BY ElementOfSeq DEF TypeOK
<1>3. \A i \in 1..Len(outbox) : outbox[i] \in [id : 0..MaxMessages + 1, result : Results]
  BY ElementOfSeq DEF TypeOK
<1> QED
  BY <1>1, <1>2, <1>3 DEF TypeOK, Tasks, Kind

\* The head of the queue runs.
LEMMA RunningTask ==
    ASSUME TypeOK, NEW t \in Tasks, NEW label, Runs(t, label)
    PROVE  /\ t \in 1..read /\ t \in 1..Len(inbox) /\ pc[t] = label /\ loop = "running"
           /\ ready # <<>> /\ Head(ready) = t /\ Tail(ready) \in Seq(1..read)
BY Basics, HeadTailProperties DEF TypeOK, Runs

\* A task that is polled first finds its request not answered, and is told of the
\* shutdown requests sent before its own by the flag.
LEMMA FirstPoll ==
    ASSUME IInv, NEW t \in Tasks, Runs(t, "spawned")
    PROVE  /\ \A i \in 1..Len(outbox) : outbox[i].id # t
           /\ shutting_down <=> \E s \in 1..Len(inbox) : s < t /\ Kind(s) = "shutdown"
<1> USE DEF IInv, HistoryOK
<1>1. /\ t \in 1..read /\ pc[t] = "spawned" /\ loop = "running"
      /\ ready # <<>> /\ Head(ready) = t /\ ready[1] = t
  BY RunningTask
<1>2. \A i \in 1..Len(outbox) : outbox[i].id # t
  BY <1>1 DEF AnswersOK
<1>3. ASSUME NEW s \in 1..Len(inbox), s < t, Kind(s) = "shutdown"
      PROVE  shutting_down
  <2>0. s \in Tasks /\ s <= read
    BY <1>1, <1>3, Basics
  <2>1. s \in Tasks /\ s <= read /\ pc[s] # "unread"
    BY <1>1, <2>0 DEF QueueOK, Queue
  <2>2. pc[s] # "spawned"
    <3>1. Len(ready) \in Nat /\ \A i \in 1..Len(ready) : ready[i] \in Nat
      BY LenProperties, ElementOfSeq, Basics DEF TypeOK
    <3>2. ASSUME pc[s] = "spawned" PROVE FALSE
      <4>1. PICK i \in 1..Len(ready) : ready[i] = s
        BY <2>1, <3>2 DEF QueueOK, Queue
      <4>2. i # 1 /\ 1 \in 1..Len(ready) /\ 1 < i
        BY <1>1, <1>3, <3>1, <4>1, Basics
      <4>3. ready[1] < ready[i]
        BY <4>1, <4>2, <3>2 DEF QueueOK, Queue
      <4> QED
        BY <1>1, <1>3, <4>1, <4>3, <3>1, Basics
    <3> QED
      BY <3>2
  <2>3. pc[s] = "done"
    BY <2>1, <2>2, <1>3 DEF KindsOK, TypeOK, Labels
  <2> QED
    BY <1>1, <1>3, <2>3 DEF ShutdownOK
<1>4. ASSUME shutting_down
      PROVE  \E s \in 1..Len(inbox) : s < t /\ Kind(s) = "shutdown"
  <2>1. PICK s \in 1..Len(inbox) : pc[s] = "done" /\ Kind(s) = "shutdown"
    BY <1>1, <1>4 DEF ShutdownOK
  <2>2. s < t
    BY <1>1, <2>1, Basics DEF QueueOK, Queue
  <2> QED
    BY <2>1, <2>2
<1> QED
  BY <1>2, <1>3, <1>4

Initializes(id, result) ==
    id \in 1..Len(inbox) /\ Kind(id) = "initialize" /\ result \in {"success", "error"}

\* An answer is written, for a task that is done or for nobody.
LEMMA AnswerKeepsHistory ==
    ASSUME IInv, inbox' = inbox, \A u \in Tasks : pc[u] = "done" => pc'[u] = "done",
           NEW id \in 0..MaxMessages + 1, NEW result \in Results,
           outbox' = Append(outbox, [id |-> id, result |-> result]),
           id \in Tasks => pc'[id] = "done",
           initialized' <=> initialized \/ Initializes(id, result)
    PROVE  AnswersOK' /\ InitializedOK'
<1> DEFINE answer == [id |-> id, result |-> result]
<1> USE DEF IInv, HistoryOK
<1>1. \A u \in 1..Len(inbox) : u \in Tasks /\ Kind(u)' = Kind(u)
  BY Basics DEF Kind
<1>2. /\ Len(outbox) \in Nat /\ Len(outbox') = Len(outbox) + 1
      /\ outbox'[Len(outbox) + 1] = answer
      /\ \A i \in 1..Len(outbox) : outbox'[i] = outbox[i]
  BY Basics, AppendProperties DEF TypeOK
<1>3. \A i \in 1..Len(outbox') : i \in 1..Len(outbox) \/ i = Len(outbox) + 1
  BY <1>2
<1>4. AnswersOK'
  <2> SUFFICES ASSUME NEW i \in 1..Len(outbox'), outbox'[i].id \in Tasks
               PROVE  pc'[outbox'[i].id] = "done"
    BY DEF AnswersOK
  <2>1. CASE i \in 1..Len(outbox)
    BY <2>1, <1>2 DEF AnswersOK
  <2>2. CASE i = Len(outbox) + 1
    BY <2>2, <1>2
  <2> QED
    BY <2>1, <2>2, <1>3
<1>5. InitializedOK'
  <2>1. ASSUME initialized'
        PROVE  \E u \in 1..Len(inbox), i \in 1..Len(outbox') :
                   /\ Kind(u) = "initialize"
                   /\ outbox'[i].id = u /\ outbox'[i].result \in {"success", "error"}
    <3>1. CASE initialized
      <4>1. PICK u \in 1..Len(inbox), i \in 1..Len(outbox) :
                   /\ Kind(u) = "initialize"
                   /\ outbox[i].id = u /\ outbox[i].result \in {"success", "error"}
        BY <3>1 DEF InitializedOK
      <4>2. i \in 1..Len(outbox') /\ outbox'[i] = outbox[i]
        BY <1>2
      <4> QED
        BY <4>1, <4>2
    <3>2. CASE Initializes(id, result)
      <4>1. Len(outbox) + 1 \in 1..Len(outbox')
        BY <1>2
      <4> QED
        BY <4>1, <1>2, <3>2 DEF Initializes
    <3> QED
      BY <2>1, <3>1, <3>2
  <2>2. ASSUME NEW u \in 1..Len(inbox), NEW i \in 1..Len(outbox'), Kind(u) = "initialize",
               outbox'[i].id = u, outbox'[i].result \in {"success", "error"}
        PROVE  initialized'
    <3>1. CASE i \in 1..Len(outbox)
      BY <2>2, <3>1, <1>2 DEF InitializedOK
    <3>2. CASE i = Len(outbox) + 1
      BY <2>2, <3>2, <1>2 DEF Initializes
    <3> QED
      BY <3>1, <3>2, <1>3
  <2> QED
    BY <2>1, <2>2, <1>1 DEF InitializedOK
<1> QED
  BY <1>4, <1>5

\* A step of task t that goes to a label, and answers its request as its last one.
LEMMA StepKeepsHistory ==
    ASSUME IInv, NEW t \in 1..Len(inbox), pc[t] # "done", UNCHANGED <<inbox, loop>>,
           pc' \in [Tasks -> Labels], NEW label, pc'[t] = label,
           \A u \in Tasks \ {t} :
               pc'[u] = pc[u] \/ (pc[u] = "asking" /\ pc'[u] = "consulted"),
           label = "handling" => Kind(t) \in {"initialize", "work"},
           label \in {"asking", "consulted"} => Kind(t) = "consult",
           \/ UNCHANGED <<outbox, initialized>>
           \/ \E id \in {t, DefaultId}, result \in Results :
                 /\ outbox' = Append(outbox, [id |-> id, result |-> result])
                 /\ label = "done"
                 /\ initialized' <=> initialized \/ Initializes(id, result),
           shutting_down' <=> shutting_down \/ (label = "done" /\ Kind(t) = "shutdown")
    PROVE  HistoryOK'
<1> USE DEF IInv, HistoryOK
<1>1. /\ t \in Tasks /\ t \in Nat /\ MaxMessages \in Nat /\ 1..Len(inbox) \subseteq Tasks
      /\ \A u \in 1..Len(inbox) : Kind(u)' = Kind(u)
      /\ \A u \in Tasks : Kind(u)' = Kind(u)
  BY Basics DEF Kind
<1>2. KindsOK'
  BY <1>1 DEF KindsOK
<1>3. ShutdownOK'
  <2>1. \A u \in 1..Len(inbox) : u # t => (pc'[u] = "done" <=> pc[u] = "done")
    BY <1>1
  <2> QED
    BY <1>1, <2>1 DEF ShutdownOK
<1>4. ASSUME UNCHANGED <<outbox, initialized>>
      PROVE  AnswersOK' /\ InitializedOK'
  <2>1. AnswersOK'
    BY <1>4 DEF AnswersOK
  <2> QED
    BY <1>1, <1>4, <2>1 DEF InitializedOK
<1>5. ASSUME NEW id \in {t, DefaultId}, NEW result \in Results,
             outbox' = Append(outbox, [id |-> id, result |-> result]), label = "done",
             initialized' <=> initialized \/ Initializes(id, result)
      PROVE  AnswersOK' /\ InitializedOK'
  <2>1. id \in 0..MaxMessages + 1 /\ (id \in Tasks => pc'[id] = "done")
    BY <1>1, <1>5 DEF Tasks, DefaultId
  <2>2. \A u \in Tasks : pc[u] = "done" => pc'[u] = "done"
    OBVIOUS
  <2> QED
    BY <1>5, <2>1, <2>2, AnswerKeepsHistory
<1> QED
  BY <1>2, <1>3, <1>4, <1>5

-------------------------------------------------------------------------------
(* Every step keeps the invariant.                                              *)

LEMMA SendKeeps ==
    ASSUME IInv, NEW kind \in Kinds, NEW about \in Nat, Send(kind, about)
    PROVE  IInv'
<1> DEFINE message == [kind |-> kind, about |-> about]
           Message == [kind : Kinds, about : Nat]
<1> USE DEF IInv, HistoryOK
<1>1. /\ inbox' = Append(inbox, message) /\ message \in Message
      /\ UNCHANGED <<read, loop, outbox, ready, pc, life, tokens, asking>>
  BY DEF Send
<1>2. /\ inbox' \in Seq(Message) /\ Len(inbox') = Len(inbox) + 1
      /\ \A t \in 1..Len(inbox) : inbox'[t] = inbox[t]
  BY <1>1, AppendProperties DEF TypeOK
<1>3. Len(inbox) < MaxMessages
  BY DEF Send, MaySend
<1>4. TypeOK'
  <2>1. read' = read /\ read \in 0..Len(inbox') /\ Len(inbox') <= MaxMessages
    BY <1>1, <1>2, <1>3, Basics
  <2> QED
    BY <1>1, <1>2, <2>1 DEF TypeOK, life, tokens, asking
<1>5. QueueOK'
  BY <1>1 DEF QueueOK
<1>6. \A t \in Tasks : pc[t] # "unread" => t \in 1..Len(inbox) /\ Kind(t)' = Kind(t)
  <2>1. \A t \in Tasks : pc[t] # "unread" => t \in 1..Len(inbox)
    BY Basics DEF QueueOK, Queue, Tasks
  <2> QED
    BY <2>1, <1>2 DEF Kind
<1>7. KindsOK'
  BY <1>1, <1>6 DEF KindsOK
<1>8. AnswersOK'
  BY <1>1 DEF AnswersOK
<1>9. InitializedOK'
  <2>1. \A t \in 1..Len(inbox') : t \in 1..Len(inbox) \/ t = Len(inbox) + 1
    BY <1>2, Basics
  <2>2. Len(inbox) + 1 \in Tasks /\ pc[Len(inbox) + 1] = "unread"
    BY <1>3, <1>6, Basics DEF Tasks
  <2>3. \A i \in 1..Len(outbox) : outbox[i].id # Len(inbox) + 1
    BY <2>2 DEF AnswersOK
  <2>4. \A t \in 1..Len(inbox) : t \in 1..Len(inbox') /\ Kind(t)' = Kind(t)
    BY <1>2, Basics DEF Kind
  <2> QED
    BY <1>1, <2>1, <2>3, <2>4 DEF InitializedOK, life
<1>10. ShutdownOK'
  <2>1. \A t \in 1..Len(inbox') : t \in Tasks
    BY <1>2, <1>3, Basics DEF Tasks
  <2>2. \A t \in 1..Len(inbox) : t \in 1..Len(inbox') /\ t \in Tasks
    BY <1>2, Basics
  <2> QED
    BY <1>1, <1>6, <2>1, <2>2 DEF ShutdownOK, life
<1> QED
  BY <1>4, <1>5, <1>7, <1>8, <1>9, <1>10

LEMMA ClientKeeps ==
    ASSUME IInv, Client
    PROVE  IInv'
<1>1. \A t \in 1..Len(inbox) : t \in Nat
  OBVIOUS
<1>2. \A r \in requests : r \in Nat
  BY DEF IInv, TypeOK
<1> QED
  BY <1>1, <1>2, SendKeeps DEF Client, ClientRequests, ClientNotifies, ClientCancels,
     ClientAnswers, Kinds, Requests

\* The loop ends.
LEMMA EndKeeps ==
    ASSUME IInv, loop' \in {"ok", "failed"}, shutting_down' \in BOOLEAN,
           read' \in {read, read + 1}, read' <= Len(inbox),
           UNCHANGED <<inbox, ready, pc, initialized, tokens, asking>>,
           \/ UNCHANGED outbox
           \/ \E result \in Results : Respond(ExternalId, result)
    PROVE  IInv'
<1> USE DEF IInv, HistoryOK
<1>1. /\ \A t \in Tasks : Kind(t)' = Kind(t)
      /\ \A u \in 1..Len(inbox) : Kind(u)' = Kind(u)
      /\ inbox' = inbox /\ pc' = pc /\ ready' = ready /\ initialized' = initialized
      /\ tasks' = tasks /\ cancelled' = cancelled
      /\ asked' = asked /\ requests' = requests /\ next_request_id' = next_request_id
  BY DEF Kind, tokens, asking
<1>2. /\ read \in Nat /\ MaxMessages \in Nat /\ Len(inbox) \in Nat /\ read' \in 0..Len(inbox)
      /\ 1..read \subseteq 1..read' /\ 1..read' \subseteq 1..Len(inbox)
  BY Basics
<1>3. ready \in Seq(1..read')
  BY <1>2, SeqMonotonic DEF TypeOK
<1>4. ASSUME NEW result \in Results, Respond(ExternalId, result)
      PROVE  /\ outbox' \in Seq([id : 0..MaxMessages + 1, result : Results])
             /\ AnswersOK' /\ InitializedOK'
  <2>1. ExternalId \in 0..MaxMessages + 1 /\ ExternalId \notin Tasks /\ ExternalId \notin 1..Len(inbox)
    BY Basics DEF ExternalId, Tasks
  <2>2. outbox' = Append(outbox, [id |-> ExternalId, result |-> result])
    BY <1>4 DEF Respond
  <2>3. outbox' \in Seq([id : 0..MaxMessages + 1, result : Results])
    BY <2>1, <2>2, AppendProperties DEF TypeOK
  <2>4. initialized' <=> initialized \/ Initializes(ExternalId, result)
    BY <2>1, <1>1 DEF Initializes
  <2> QED
    BY <1>1, <2>1, <2>2, <2>3, <2>4, AnswerKeepsHistory
<1>5. ASSUME outbox' = outbox
      PROVE  /\ outbox' \in Seq([id : 0..MaxMessages + 1, result : Results])
             /\ AnswersOK' /\ InitializedOK'
  <2>1. AnswersOK'
    BY <1>1, <1>5 DEF AnswersOK
  <2>2. InitializedOK'
    BY <1>1, <1>5 DEF InitializedOK
  <2> QED
    BY <1>5, <2>1, <2>2 DEF TypeOK
<1>6. /\ outbox' \in Seq([id : 0..MaxMessages + 1, result : Results])
      /\ AnswersOK' /\ InitializedOK'
  BY <1>4, <1>5
<1>7. TypeOK'
  <2>1. tasks \subseteq 1..read' /\ cancelled \subseteq 1..read'
    BY <1>2 DEF TypeOK
  <2> QED
    BY <1>1, <1>2, <1>3, <1>6, <2>1 DEF TypeOK
<1>8. QueueOK'
  BY <1>1, <1>2 DEF QueueOK, Queue, Tasks
<1>9. KindsOK' /\ ShutdownOK'
  BY <1>1 DEF KindsOK, ShutdownOK
<1> QED
  BY <1>6, <1>7, <1>8, <1>9

LEMMA ReadKeeps ==
    ASSUME IInv, Read
    PROVE  IInv'
<1> DEFINE t == read + 1
<1>1. /\ t \in 1..Len(inbox) /\ t \in Tasks /\ loop = "running"
      /\ read \in 0..MaxMessages /\ read \in Nat
  BY Basics DEF IInv, Read, LoopMayRun
<1>2. CASE Kind(t) = "exit"
  <2>1. /\ loop' \in {"ok", "failed"} /\ read' = t
        /\ UNCHANGED <<inbox, ready, pc, outbox, life, tokens, asking>>
    BY <1>2 DEF Read, EndLoop
  <2> QED
    BY <1>1, <2>1, EndKeeps DEF life, IInv, TypeOK
<1>3. CASE Kind(t) # "exit"
  <2>1. /\ ready' = Append(ready, t) /\ pc' = [pc EXCEPT ![t] = "spawned"] /\ read' = t
        /\ UNCHANGED <<inbox, loop, outbox, initialized, shutting_down, tokens, asking>>
    BY <1>3 DEF Read, life
  <2>2. QueueOK'
    BY <1>1, <2>1, SpawnKeepsQueue DEF IInv, TypeOK, QueueOK
  <2>3. pc[t] = "unread"
    BY <1>1 DEF IInv, QueueOK, Queue
  <2>4. pc' \in [Tasks -> Labels] /\ pc'[t] = "spawned" /\ \A u \in Tasks \ {t} : pc'[u] = pc[u]
    BY <1>1, <2>1 DEF IInv, TypeOK, Labels
  <2>5. HistoryOK'
    BY <1>1, <2>1, <2>3, <2>4, StepKeepsHistory
  <2>6. ready' \in Seq(1..t)
    <3>1. 1..read \subseteq 1..t /\ t \in 1..t
      BY <1>1
    <3>2. ready \in Seq(1..t)
      BY <3>1, SeqMonotonic DEF IInv, TypeOK
    <3> QED
      BY <2>1, <3>1, <3>2, AppendProperties
  <2>7. TypeOK'
    BY <1>1, <2>1, <2>4, <2>6 DEF IInv, TypeOK, tokens, asking
  <2> QED
    BY <2>2, <2>5, <2>7 DEF IInv
<1> QED
  BY <1>2, <1>3

LEMMA SignalKeeps ==
    ASSUME IInv, Signal \/ InputCloses
    PROVE  IInv'
<1>1. read \in Nat /\ read <= Len(inbox)
  BY Basics DEF IInv
<1>2. CASE Signal
  <2>1. UNCHANGED <<inbox, read, ready, pc, initialized, tokens, asking>>
    BY <1>2 DEF Signal
  <2>2. CASE shutting_down' = TRUE /\ loop' = "ok" /\ Respond(ExternalId, ShutdownResult)
    <3>1. ShutdownResult \in Results
      BY DEF ShutdownResult, Results
    <3> QED
      BY <1>1, <2>1, <2>2, <3>1, EndKeeps
  <2>3. CASE EndLoop /\ UNCHANGED <<outbox, shutting_down>>
    BY <1>1, <2>1, <2>3, EndKeeps DEF EndLoop, IInv, TypeOK
  <2> QED
    BY <1>2, <2>2, <2>3 DEF Signal
<1>3. CASE InputCloses
  BY <1>1, <1>3, EndKeeps DEF InputCloses, EndLoop, IInv, TypeOK, life
<1> QED
  BY <1>2, <1>3

\* A polled task goes on to a label.
LEMMA PollKeeps ==
    ASSUME IInv, NEW t \in Tasks, NEW from \in {"spawned", "handling", "consulted"}, Runs(t, from),
           NEW label \in {"handling", "asking", "done"},
           pc' = [pc EXCEPT ![t] = label],
           ready' = Tail(ready) \/ (label = "handling" /\ ready' = ready),
           UNCHANGED network,
           label = "handling" => Kind(t) \in {"initialize", "work"},
           label = "asking" => Kind(t) = "consult",
           \/ UNCHANGED <<outbox, initialized>>
           \/ \E id \in {t, DefaultId}, result \in Results :
                 /\ outbox' = Append(outbox, [id |-> id, result |-> result])
                 /\ label = "done"
                 /\ initialized' <=> initialized \/ Initializes(id, result),
           shutting_down' <=> shutting_down \/ (label = "done" /\ Kind(t) = "shutdown"),
           initialized' \in BOOLEAN, shutting_down' \in BOOLEAN,
           tasks' \subseteq 1..read, cancelled' \subseteq 1..read,
           next_request_id' \in Nat, requests' \subseteq {r \in Nat : r < next_request_id'},
           asked' \in [Tasks -> Nat]
    PROVE  IInv'
<1>1. /\ t \in 1..read /\ t \in 1..Len(inbox) /\ pc[t] = from /\ pc[t] # "done" /\ loop = "running"
      /\ ready # <<>> /\ Head(ready) = t /\ Tail(ready) \in Seq(1..read)
      /\ ready \in Seq(1..read) /\ read \in 0..MaxMessages /\ MaxMessages \in Nat
      /\ pc \in [Tasks -> Labels]
  BY RunningTask, Basics DEF IInv, TypeOK
<1>2. inbox' = inbox /\ read' = read /\ loop' = loop
  BY DEF network
<1>3. pc' \in [Tasks -> Labels] /\ pc'[t] = label /\ \A u \in Tasks \ {t} : pc'[u] = pc[u]
  BY <1>1 DEF Labels
<1>4. QueueOK'
  <2>1. Queue(ready, pc, read, loop)
    BY DEF IInv, QueueOK
  <2>2. /\ Queue(Tail(ready), [pc EXCEPT ![t] = label], read, loop)
        /\ label = "handling" => Queue(ready, [pc EXCEPT ![t] = label], read, loop)
    BY <1>1, <2>1, PollKeepsQueue
  <2> QED
    BY <1>2, <2>2 DEF QueueOK
<1>5. HistoryOK'
  BY <1>1, <1>2, <1>3, StepKeepsHistory, ZenonT(60)
<1>6. ready' \in Seq(1..read)
  BY <1>1
<1>7. outbox' \in Seq([id : 0..MaxMessages + 1, result : Results])
  <2>1. CASE UNCHANGED <<outbox, initialized>>
    BY <2>1 DEF IInv, TypeOK
  <2>2. ASSUME NEW id \in {t, DefaultId}, NEW result \in Results,
               outbox' = Append(outbox, [id |-> id, result |-> result])
        PROVE  outbox' \in Seq([id : 0..MaxMessages + 1, result : Results])
    <3>1. id \in 0..MaxMessages + 1
      BY <1>1 DEF Tasks, DefaultId
    <3> QED
      BY <2>2, <3>1, AppendProperties DEF IInv, TypeOK
  <2> QED
    BY <2>1, <2>2
<1>8. TypeOK'
  BY <1>2, <1>3, <1>6, <1>7 DEF IInv, TypeOK
<1> QED
  BY <1>4, <1>5, <1>8 DEF IInv

\* A request is answered at its first poll.
LEMMA RefuseKeeps ==
    ASSUME IInv, NEW t \in Tasks, Runs(t, "spawned"),
           NEW id \in {t, DefaultId}, NEW result \in Results \ {"success", "error"},
           Refuse(t, id, result), shutting_down' \in BOOLEAN,
           shutting_down' <=> shutting_down \/ Kind(t) = "shutdown"
    PROVE  IInv'
<1>1. /\ tasks' = tasks /\ cancelled' = cancelled /\ initialized' = initialized
      /\ asked' = asked /\ requests' = requests /\ next_request_id' = next_request_id
      /\ outbox' = Append(outbox, [id |-> id, result |-> result])
      /\ pc' = [pc EXCEPT ![t] = "done"] /\ ready' = Tail(ready) /\ UNCHANGED network
  BY DEF Refuse, Respond, Finish, tokens, asking
<1>2. initialized' <=> initialized \/ Initializes(id, result)
  BY <1>1 DEF Initializes
<1> QED
  BY <1>1, <1>2, PollKeeps DEF IInv, TypeOK

\* A shutdown request that succeeds has one of the results of a handler.
LEMMA ShutdownKeeps ==
    ASSUME IInv, NEW t \in Tasks, ShutdownRequest(t)
    PROVE  IInv'
<1>1. /\ tasks' = tasks /\ cancelled' = cancelled /\ initialized' = initialized
      /\ asked' = asked /\ requests' = requests /\ next_request_id' = next_request_id
      /\ outbox' = Append(outbox, [id |-> t, result |-> ShutdownResult])
      /\ pc' = [pc EXCEPT ![t] = "done"] /\ ready' = Tail(ready) /\ UNCHANGED network
      /\ Runs(t, "spawned") /\ Kind(t) = "shutdown" /\ shutting_down' = TRUE
  BY DEF ShutdownRequest, OwnRequest, Refuse, Respond, Finish, tokens, asking
<1>2. ShutdownResult \in Results
  BY DEF ShutdownResult, Results
<1>3. initialized' <=> initialized \/ Initializes(t, ShutdownResult)
  BY <1>1 DEF Initializes
<1> QED
  BY <1>1, <1>2, <1>3, PollKeeps DEF IInv, TypeOK

LEMMA FinishRequestKeeps ==
    ASSUME IInv, NEW t \in Tasks, FinishRequest(t)
    PROVE  IInv'
<1>1. PICK result \in {"success", "error"} : Respond(t, result)
  BY DEF FinishRequest
<1>2. /\ asked' = asked /\ requests' = requests /\ next_request_id' = next_request_id
      /\ tasks' = tasks \ {t} /\ cancelled' = cancelled \cup (tasks \cap {t})
      /\ initialized' = (initialized \/ Kind(t) = "initialize")
      /\ shutting_down' = shutting_down
      /\ outbox' = Append(outbox, [id |-> t, result |-> result])
      /\ pc' = [pc EXCEPT ![t] = "done"] /\ ready' = Tail(ready) /\ UNCHANGED network
      /\ Runs(t, "handling") /\ result \in Results
  BY <1>1 DEF FinishRequest, Respond, TaskDone, Finish, asking, Results
<1>3. t \in 1..Len(inbox) /\ pc[t] = "handling" /\ Kind(t) \in {"initialize", "work"}
  BY <1>2, RunningTask DEF IInv, HistoryOK, KindsOK
<1>4. initialized' <=> initialized \/ Initializes(t, result)
  BY <1>2, <1>3 DEF Initializes
<1> QED
  BY <1>2, <1>3, <1>4, PollKeeps DEF IInv, TypeOK

\* What a task waits for happens, and it is put behind the others.
LEMMA WakeKeeps ==
    ASSUME IInv, NEW t \in Tasks, HandlerWakes(t)
    PROVE  IInv'
<1>1. /\ loop = "running" /\ pc[t] = "handling" /\ \A i \in 1..Len(ready) : ready[i] # t
      /\ ready' = Append(ready, t)
      /\ UNCHANGED <<network, outbox, pc, life, tokens, asking>>
  BY DEF HandlerWakes
<1>2. /\ ready \in Seq(1..read) /\ read \in 0..MaxMessages /\ pc \in [Tasks -> Labels]
      /\ Queue(ready, pc, read, loop)
  BY Basics DEF IInv, TypeOK, QueueOK
<1>3. t \in 1..read /\ Queue(Append(ready, t), [pc EXCEPT ![t] = "handling"], read, loop)
  BY <1>1, <1>2, WakeKeepsQueue
<1>4. [pc EXCEPT ![t] = "handling"] = pc
  BY <1>1, <1>2
<1>5. QueueOK'
  BY <1>1, <1>3, <1>4 DEF QueueOK, network
<1>6. Append(ready, t) \in Seq(1..read)
  BY <1>2, <1>3, AppendProperties
<1>7. TypeOK'
  BY <1>1, <1>6 DEF IInv, TypeOK, network, life, tokens, asking
<1>8. HistoryOK'
  BY <1>1 DEF IInv, HistoryOK, KindsOK, AnswersOK, InitializedOK, ShutdownOK, Kind, network, life
<1> QED
  BY <1>5, <1>7, <1>8 DEF IInv

\* An answer of the client that a task waits for wakes it.
LEMMA HandleResponseKeeps ==
    ASSUME IInv, NEW t \in Tasks, HandleResponse(t)
    PROVE  IInv'
<1> DEFINE r == inbox[t].about
           waiting == {u \in Tasks : pc[u] = "asking" /\ asked[u] = r}
<1>1. /\ Runs(t, "spawned") /\ Kind(t) = "answer" /\ requests' = requests \ {r}
      /\ UNCHANGED network
      /\ outbox' = outbox /\ initialized' = initialized /\ shutting_down' = shutting_down
      /\ tasks' = tasks /\ cancelled' = cancelled
      /\ asked' = asked /\ next_request_id' = next_request_id
  BY DEF HandleResponse, life, tokens
<1>2. CASE Finish(t)
  BY <1>1, <1>2, PollKeeps DEF Finish, IInv, TypeOK
<1>3. ASSUME NEW u \in waiting,
             ready' = Append(Tail(ready), u),
             pc' = [pc EXCEPT ![t] = "done", ![u] = "consulted"]
      PROVE  IInv'
  <2> DEFINE p1 == [pc EXCEPT ![t] = "done"]
  <2>1. /\ t \in 1..read /\ t \in 1..Len(inbox) /\ pc[t] = "spawned" /\ loop = "running"
        /\ ready # <<>> /\ Head(ready) = t /\ Tail(ready) \in Seq(1..read)
        /\ ready \in Seq(1..read) /\ read \in 0..MaxMessages /\ pc \in [Tasks -> Labels]
        /\ Queue(ready, pc, read, loop)
    BY <1>1, RunningTask, Basics DEF IInv, TypeOK, QueueOK
  <2>2. u \in Tasks /\ u # t /\ p1[u] = "asking" /\ p1 \in [Tasks -> Labels]
    BY <2>1 DEF Labels
  <2>3. Queue(Tail(ready), p1, read, loop)
    BY <2>1, PollKeepsQueue
  <2>4. \A i \in 1..Len(Tail(ready)) : Tail(ready)[i] # u
    BY <2>2, <2>3 DEF Queue
  <2>5. /\ u \in 1..read
        /\ Queue(Append(Tail(ready), u), [p1 EXCEPT ![u] = "consulted"], read, loop)
    BY <2>1, <2>2, <2>3, <2>4, WakeKeepsQueue
  <2>6. pc' = [p1 EXCEPT ![u] = "consulted"]
    BY <1>3, <2>1, <2>2
  <2>7. QueueOK'
    BY <1>1, <1>3, <2>5, <2>6 DEF QueueOK, network
  <2>8. ready' \in Seq(1..read)
    BY <1>3, <2>1, <2>5, AppendProperties
  <2>9. /\ pc' \in [Tasks -> Labels] /\ pc'[t] = "done"
        /\ \A v \in Tasks \ {t} :
               pc'[v] = pc[v] \/ (pc[v] = "asking" /\ pc'[v] = "consulted")
    BY <1>3, <2>1, <2>2 DEF Labels
  <2>10. UNCHANGED <<inbox, loop>>
    BY <1>1 DEF network
  <2>11. HistoryOK'
    BY <1>1, <2>1, <2>9, <2>10, StepKeepsHistory
  <2>12. TypeOK'
    BY <1>1, <2>8, <2>9 DEF IInv, TypeOK, network
  <2> QED
    BY <2>7, <2>11, <2>12 DEF IInv
<1> QED
  BY <1>2, <1>3 DEF HandleResponse

LEMMA TaskKeeps ==
    ASSUME IInv, NEW t \in Tasks, Run(t)
    PROVE  IInv'
<1>1. CASE AlienRequest(t)
  <2>1. "invalid" \in Results \ {"success", "error"}
    BY DEF Results
  <2>2. /\ Runs(t, "spawned") /\ Refuse(t, DefaultId, "invalid") /\ Kind(t) # "shutdown"
        /\ shutting_down' = shutting_down
    BY <1>1 DEF AlienRequest
  <2> QED
    BY <2>1, <2>2, RefuseKeeps DEF IInv, TypeOK
<1>2. CASE LateRequest(t)
  <2>1. "shutting_down" \in Results \ {"success", "error"}
    BY DEF Results
  <2>2. /\ Runs(t, "spawned") /\ Refuse(t, t, "shutting_down") /\ shutting_down
        /\ shutting_down' = shutting_down
    BY <1>2 DEF LateRequest, OwnRequest
  <2> QED
    BY <2>1, <2>2, RefuseKeeps DEF IInv, TypeOK
<1>3. CASE ShutdownRequest(t)
  BY <1>3, ShutdownKeeps
<1>4. CASE EarlyRequest(t)
  <2>1. "not_initialized" \in Results \ {"success", "error"}
    BY DEF Results
  <2>2. /\ Runs(t, "spawned") /\ Refuse(t, t, "not_initialized") /\ Kind(t) # "shutdown"
        /\ shutting_down' = shutting_down
    BY <1>4 DEF EarlyRequest, OwnRequest
  <2> QED
    BY <2>1, <2>2, RefuseKeeps DEF IInv, TypeOK
<1>5. CASE UnknownRequest(t)
  <2>1. "method_not_found" \in Results \ {"success", "error"}
    BY DEF Results
  <2>2. /\ Runs(t, "spawned") /\ Refuse(t, t, "method_not_found") /\ Kind(t) # "shutdown"
        /\ shutting_down' = shutting_down
    BY <1>5 DEF UnknownRequest, OwnRequest
  <2> QED
    BY <2>1, <2>2, RefuseKeeps DEF IInv, TypeOK
<1>6. CASE HandledRequest(t)
  <2>1. /\ Runs(t, "spawned") /\ Kind(t) \in {"initialize", "work"}
        /\ tasks' = tasks \cup {t} /\ cancelled' = cancelled
        /\ pc' = [pc EXCEPT ![t] = "handling"] /\ ready' \in {ready, Tail(ready)}
        /\ UNCHANGED network /\ UNCHANGED <<outbox, initialized>>
        /\ shutting_down' = shutting_down
        /\ asked' = asked /\ requests' = requests /\ next_request_id' = next_request_id
    BY <1>6 DEF HandledRequest, OwnRequest, life, asking
  <2>2. t \in 1..read
    BY <2>1, RunningTask DEF IInv
  <2> QED
    BY <2>1, <2>2, PollKeeps DEF IInv, TypeOK
<1>7. CASE FinishRequest(t)
  BY <1>7, FinishRequestKeeps
<1>8. CASE CancelNotification(t)
  <2>1. /\ Runs(t, "spawned") /\ Kind(t) = "cancel"
        /\ tasks' = tasks \ {inbox[t].about}
        /\ cancelled' = cancelled \cup (tasks \cap {inbox[t].about})
        /\ pc' = [pc EXCEPT ![t] = "done"] /\ ready' = Tail(ready)
        /\ UNCHANGED network /\ UNCHANGED <<outbox, initialized>>
        /\ shutting_down' = shutting_down
        /\ asked' = asked /\ requests' = requests /\ next_request_id' = next_request_id
    BY <1>8 DEF CancelNotification, TaskDone, Finish, life, asking
  <2> QED
    BY <2>1, PollKeeps DEF IInv, TypeOK
<1>9. CASE ConsultClient(t)
  <2>1. /\ Runs(t, "spawned") /\ Kind(t) = "consult"
        /\ tasks' = tasks /\ cancelled' = cancelled
        /\ pc' = [pc EXCEPT ![t] = "asking"] /\ ready' = Tail(ready)
        /\ UNCHANGED network /\ UNCHANGED <<outbox, initialized>>
        /\ shutting_down' = shutting_down
        /\ asked' = [asked EXCEPT ![t] = next_request_id]
        /\ requests' = requests \cup {next_request_id}
        /\ next_request_id' = next_request_id + 1
    BY <1>9 DEF ConsultClient, life, tokens
  <2>2. /\ asked' \in [Tasks -> Nat] /\ next_request_id' \in Nat
        /\ requests' \subseteq {r \in Nat : r < next_request_id'}
    BY <2>1 DEF IInv, TypeOK
  <2> QED
    BY <2>1, <2>2, PollKeeps DEF IInv, TypeOK
<1>10. CASE HandleResponse(t)
  BY <1>10, HandleResponseKeeps
<1>11. CASE FinishConsultation(t)
  <2>1. /\ Runs(t, "consulted")
        /\ tasks' = tasks /\ cancelled' = cancelled
        /\ pc' = [pc EXCEPT ![t] = "done"] /\ ready' = Tail(ready)
        /\ UNCHANGED network /\ UNCHANGED <<outbox, initialized>>
        /\ shutting_down' = shutting_down
        /\ asked' = [asked EXCEPT ![t] = NoRequest]
        /\ requests' = requests /\ next_request_id' = next_request_id
    BY <1>11 DEF FinishConsultation, Finish, life, tokens
  <2>2. NoRequest \in Nat
    BY ServerAssumption DEF NoRequest
  <2>3. asked' \in [Tasks -> Nat]
    BY <2>1, <2>2 DEF IInv, TypeOK
  <2>4. /\ tasks' \subseteq 1..read /\ cancelled' \subseteq 1..read
        /\ next_request_id' \in Nat /\ requests' \subseteq {r \in Nat : r < next_request_id'}
        /\ initialized' \in BOOLEAN /\ shutting_down' \in BOOLEAN
    BY <2>1 DEF IInv, TypeOK
  <2>5. Kind(t) = "consult"
    BY <2>1, RunningTask DEF IInv, HistoryOK, KindsOK
  <2> QED
    BY <2>1, <2>3, <2>4, <2>5, PollKeeps
<1> QED
  BY <1>1, <1>2, <1>3, <1>4, <1>5, <1>6, <1>7, <1>8, <1>9, <1>10, <1>11 DEF Run

LEMMA StutterKeeps ==
    ASSUME IInv, UNCHANGED vars
    PROVE  IInv'
BY DEF vars, network, life, tokens, asking, IInv, TypeOK, QueueOK, HistoryOK, KindsOK, AnswersOK,
       InitializedOK, ShutdownOK, Kind

LEMMA InitHolds == Init => IInv
<1> SUFFICES ASSUME Init PROVE IInv
  OBVIOUS
<1>1. MaxMessages \in Nat
  BY ServerAssumption
<1>2. TypeOK
  <2>1. Len(inbox) = 0 /\ read = 0 /\ 0 \in 0..0
    BY EmptySeq DEF Init
  <2>2. /\ inbox \in Seq([kind : Kinds, about : Nat])
        /\ outbox \in Seq([id : 0..MaxMessages + 1, result : Results])
        /\ ready \in Seq(1..read)
    BY EmptySeq DEF Init
  <2>3. pc \in [Tasks -> Labels] /\ asked \in [Tasks -> Nat]
    BY <1>1 DEF Init, Labels, NoRequest
  <2>4. /\ loop \in {"running", "ok", "failed"} /\ initialized \in BOOLEAN /\ shutting_down \in BOOLEAN
        /\ tasks \subseteq 1..read /\ cancelled \subseteq 1..read
        /\ next_request_id \in Nat /\ requests \subseteq {r \in Nat : r < next_request_id}
    BY DEF Init
  <2>5. read \in 0..Len(inbox) /\ Len(inbox) <= MaxMessages
    BY <1>1, <2>1
  <2> QED
    BY <2>2, <2>3, <2>4, <2>5 DEF TypeOK
<1>3. QueueOK
  BY <1>1, EmptySeq DEF Init, QueueOK, Queue, Tasks
<1>4. HistoryOK
  BY EmptySeq DEF Init, HistoryOK, KindsOK, AnswersOK, InitializedOK, ShutdownOK
<1> QED
  BY <1>2, <1>3, <1>4 DEF IInv

LEMMA NextKeeps == IInv /\ [Next]_vars => IInv'
<1> SUFFICES ASSUME IInv, [Next]_vars PROVE IInv'
  OBVIOUS
<1> QED
  BY ClientKeeps, ReadKeeps, SignalKeeps, TaskKeeps, WakeKeeps, StutterKeeps DEF Next, Ended

\* The invariant holds, and with it the types of the variables: no task is polled
\* that is not there, and no id of the server's own is given twice.
THEOREM TypeCorrect == Spec => []TypeOK
<1>1. Spec => []IInv
  BY InitHolds, NextKeeps, PTL DEF Spec
<1>2. IInv => TypeOK
  BY DEF IInv
<1> QED
  BY <1>1, <1>2, PTL

-------------------------------------------------------------------------------
(* The server implements its contract.                                          *)

Sent == [t \in 1..Len(inbox) |-> Kind(t)]
Working == {t \in Tasks : pc[t] = "handling"}

Message == [kind : Kinds, about : Nat]

LEMMA KindsOfMessages ==
    ASSUME NEW box \in Seq(Message)
    PROVE  LET kinds == [t \in 1..Len(box) |-> box[t].kind]
           IN  kinds \in Seq(Kinds) /\ Len(kinds) = Len(box)
<1> DEFINE kinds == [t \in 1..Len(box) |-> box[t].kind]
<1>1. Len(box) \in Nat /\ \A t \in 1..Len(box) : box[t].kind \in Kinds
  <2>1. \A t \in 1..Len(box) : box[t] \in Message
    BY ElementOfSeq
  <2> QED
    BY <2>1, LenProperties DEF Message
<1>2. kinds \in Seq(Kinds)
  BY <1>1, IsASeq
<1>3. DOMAIN kinds = 1..Len(box) /\ DOMAIN kinds = 1..Len(kinds) /\ Len(kinds) \in Nat
  BY <1>2, LenProperties
<1>4. Len(kinds) = Len(box)
  BY <1>1, <1>3
<1> QED
  BY <1>2, <1>4

LEMMA SentOK ==
    ASSUME TypeOK
    PROVE  /\ Sent \in Seq(Kinds) /\ Len(Sent) = Len(inbox)
           /\ \A t \in 1..Len(inbox) : Sent[t] = Kind(t)
<1>1. inbox \in Seq(Message)
  BY DEF TypeOK, Message
<1> QED
  BY <1>1, KindsOfMessages DEF Sent, Kind

\* What the contract reads off the messages and answers is what the flags say.
LEMMA ContractSees ==
    ASSUME IInv
    PROVE  /\ Contract!Initialized <=> initialized
           /\ Contract!Asked = {t \in 1..Len(inbox) :
                                    Kind(t) \in {"initialize", "work", "unknown", "shutdown"}}
           /\ \A t \in Tasks :
                  /\ Contract!Answered(t) => pc[t] = "done"
                  /\ Contract!AfterShutdown(t) <=>
                         \E s \in 1..Len(inbox) : s < t /\ Kind(s) = "shutdown"
<1>1. Len(Sent) = Len(inbox) /\ \A t \in 1..Len(inbox) : Sent[t] = Kind(t)
  BY SentOK DEF IInv
<1>2. Contract!Initialized <=> initialized
  BY <1>1 DEF Contract!Initialized, Sent, IInv, HistoryOK, InitializedOK
<1>3. Contract!Asked = {t \in 1..Len(inbox) :
                            Kind(t) \in {"initialize", "work", "unknown", "shutdown"}}
  BY <1>1 DEF Contract!Asked, Sent
<1>4. \A t \in Tasks : Contract!Answered(t) => pc[t] = "done"
  BY DEF Contract!Answered, IInv, HistoryOK, AnswersOK
<1>5. \A t \in Tasks : Contract!AfterShutdown(t) <=>
                           \E s \in 1..Len(inbox) : s < t /\ Kind(s) = "shutdown"
  BY <1>1 DEF Contract!AfterShutdown, Sent
<1> QED
  BY <1>2, <1>3, <1>4, <1>5

LEMMA ContractInit == Init => Contract!Init
<1> SUFFICES ASSUME Init PROVE Contract!Init
  OBVIOUS
<1>1. 1..Len(inbox) = {} /\ 1..0 = {}
  BY EmptySeq DEF Init
<1>2. Sent = <<>>
  <2>1. IInv
    BY InitHolds
  <2>2. Sent \in Seq(Kinds) /\ Len(Sent) = 0
    BY <2>1, SentOK, EmptySeq DEF IInv, Init
  <2> QED
    BY <2>2, EmptySeq
<1>3. Working = {}
  BY DEF Init, Working
<1> QED
  BY <1>2, <1>3 DEF Init, Contract!Init, Sent, Working

\* Messages the client sends.
LEMMA ContractSend ==
    ASSUME IInv, NEW kind \in Kinds, NEW about \in Nat, Send(kind, about)
    PROVE  Contract!Send
<1> DEFINE message == [kind |-> kind, about |-> about]
<1>1. /\ inbox' = Append(inbox, message) /\ loop = "running" /\ Len(inbox) < MaxMessages
      /\ outbox' = outbox /\ loop' = loop /\ pc' = pc
  BY DEF Send, MaySend
<1>2. /\ message \in [kind : Kinds, about : Nat]
      /\ Len(inbox) \in Nat /\ MaxMessages \in Nat
  BY Basics DEF IInv
<1>3. /\ Len(inbox') = Len(inbox) + 1 /\ inbox'[Len(inbox) + 1] = message
      /\ \A t \in 1..Len(inbox) : inbox'[t] = inbox[t]
  BY <1>1, <1>2, AppendProperties DEF IInv, TypeOK
<1>4. /\ Sent \in Seq(Kinds) /\ Len(Sent) = Len(inbox)
      /\ \A t \in 1..Len(inbox) : Sent[t] = Kind(t)
  BY SentOK DEF IInv
<1>5. /\ Sent' \in Seq(Kinds) /\ Len(Sent') = Len(inbox')
      /\ \A t \in 1..Len(inbox') : Sent'[t] = inbox'[t].kind
  <2>1. inbox' \in Seq(Message)
    BY <1>1, <1>2, AppendProperties DEF IInv, TypeOK, Message
  <2> QED
    BY <2>1, KindsOfMessages DEF Sent, Kind
<1>6. /\ Append(Sent, kind) \in Seq(Kinds) /\ Len(Append(Sent, kind)) = Len(Sent) + 1
      /\ Append(Sent, kind)[Len(Sent) + 1] = kind
      /\ \A t \in 1..Len(Sent) : Append(Sent, kind)[t] = Sent[t]
  BY <1>4, AppendProperties
<1>7. Sent' = Append(Sent, kind)
  <2>1. \A t \in 1..Len(inbox) : Sent[t] = inbox[t].kind
    BY DEF Sent, Kind
  <2>2. ASSUME NEW t \in 1..Len(inbox')
        PROVE  Sent'[t] = Append(Sent, kind)[t]
    <3>1. CASE t \in 1..Len(inbox)
      BY <3>1, <1>3, <1>4, <1>5, <1>6, <2>1
    <3>2. CASE t = Len(inbox) + 1
      BY <3>2, <1>3, <1>4, <1>5, <1>6
    <3>3. t \in 1..(Len(inbox) + 1)
      BY <1>3
    <3>4. t \in 1..Len(inbox) \/ t = Len(inbox) + 1
      BY <1>2, <3>3
    <3> QED
      BY <3>1, <3>2, <3>4
  <2> QED
    BY <1>3, <1>4, <1>5, <1>6, <2>2, SeqEqual
<1>8. Len(Sent) + 1 \notin {DefaultId, ExternalId}
  BY <1>1, <1>2, <1>4 DEF DefaultId, ExternalId
<1> QED
  BY <1>1, <1>7, <1>8 DEF Contract!Send, Sent, Working

LEMMA ContractClient ==
    ASSUME IInv, Client
    PROVE  Contract!Send
<1>1. \A t \in 1..Len(inbox) : t \in Nat
  OBVIOUS
<1>2. \A r \in requests : r \in Nat
  BY DEF IInv, TypeOK
<1> QED
  BY <1>1, <1>2, ContractSend DEF Client, ClientRequests, ClientNotifies, ClientCancels,
     ClientAnswers, Kinds, Requests

\* The loop ends: in disorder only when no shutdown request had its answer.
LEMMA ContractEnd ==
    ASSUME IInv, loop = "running", Sent' = Sent, Working' = Working,
           loop' = "ok" \/ EndLoop
    PROVE  Contract!End
<1>1. CASE loop' = "failed"
  <2>1. ~shutting_down
    BY <1>1 DEF EndLoop
  <2>2. ASSUME NEW t \in Contract!Asked, Kind(t) = "shutdown", Contract!Answered(t)
        PROVE  FALSE
    <3>1. t \in 1..Len(inbox) /\ t \in Tasks
      BY ContractSees, Basics DEF IInv
    <3>2. pc[t] = "done"
      BY <2>2, <3>1, ContractSees
    <3> QED
      BY <2>1, <2>2, <3>1, <3>2 DEF IInv, HistoryOK, ShutdownOK
  <2>3. \A t \in Contract!Asked : Sent[t] = Kind(t)
    BY ContractSees, SentOK DEF IInv
  <2> QED
    BY <1>1, <2>2, <2>3 DEF Contract!End, Sent, Working
<1>2. CASE loop' = "ok"
  BY <1>2 DEF Contract!End, Sent, Working
<1> QED
  BY <1>1, <1>2 DEF EndLoop

LEMMA ContractLoop ==
    ASSUME IInv, Read \/ Signal \/ InputCloses
    PROVE  Contract!Next \/ UNCHANGED Contract!contract
<1>1. /\ inbox' = inbox /\ loop = "running"
      /\ Sent' = Sent
  BY DEF Read, Signal, InputCloses, LoopMayRun, Sent, Kind
<1>2. CASE Read /\ Kind(read + 1) # "exit"
  <2>1. read + 1 \in Tasks /\ pc \in [Tasks -> Labels]
    BY <1>2, Basics DEF IInv, TypeOK, Read, Tasks
  <2>2. read \in Nat /\ pc[read + 1] = "unread"
    BY <2>1, Basics DEF IInv, QueueOK, Queue
  <2>3. outbox' = outbox /\ loop' = loop /\ pc' = [pc EXCEPT ![read + 1] = "spawned"]
    BY <1>2 DEF Read
  <2>4. Working' = Working
    BY <2>1, <2>2, <2>3 DEF Working
  <2> QED
    BY <1>1, <2>3, <2>4 DEF Contract!contract, Sent, Working
<1>3. CASE (Read /\ Kind(read + 1) = "exit") \/ InputCloses
  <2>1. outbox' = outbox /\ pc' = pc /\ EndLoop
    BY <1>3 DEF Read, InputCloses
  <2>2. Contract!End
    BY <1>1, <2>1, ContractEnd DEF Working
  <2> QED
    BY <2>1, <2>2 DEF Contract!Next
<1>4. CASE Signal
  <2>1. pc' = pc /\ Working' = Working
    BY <1>4 DEF Signal, Working
  <2>2. CASE loop' = "ok" /\ Respond(ExternalId, ShutdownResult)
    <3>1. ShutdownResult \in Results
      BY DEF ShutdownResult, Results
    <3>2. Contract!AnswerNobody
      BY <1>1, <2>1, <2>2, <3>1
      DEF Respond, Contract!AnswerNobody, Contract!Answer, Sent, Working
    <3> QED
      BY <1>1, <2>1, <2>2, <3>2, ContractEnd DEF Contract!Next
  <2>3. CASE EndLoop /\ UNCHANGED <<outbox, shutting_down>>
    BY <1>1, <2>1, <2>3, ContractEnd DEF Contract!Next
  <2> QED
    BY <1>4, <2>2, <2>3 DEF Signal
<1> QED
  BY <1>2, <1>3, <1>4

\* A request that is polled first waits for its answer, and the flag tells it of the
\* shutdown requests before it.
LEMMA ContractFirstPoll ==
    ASSUME IInv, NEW t \in Tasks, OwnRequest(t), Kind(t) \in {"initialize", "work", "unknown", "shutdown"}
    PROVE  /\ Contract!Waits(t) /\ t \in Contract!Asked /\ Sent[t] = Kind(t)
           /\ Contract!AfterShutdown(t) <=> shutting_down
           /\ Contract!Initialized <=> initialized
<1>1. Runs(t, "spawned")
  BY DEF OwnRequest
<1>2. t \in 1..Len(inbox) /\ pc[t] = "spawned" /\ loop = "running"
  BY <1>1, RunningTask DEF IInv
<1>3. t \in Contract!Asked /\ Sent[t] = Kind(t) /\ t \notin Working /\ ~Contract!Answered(t)
  BY <1>2, ContractSees, SentOK DEF IInv, Working
<1>4. Contract!AfterShutdown(t) <=> shutting_down
  BY <1>1, FirstPoll, ContractSees
<1> QED
  BY <1>2, <1>3, <1>4, ContractSees DEF Contract!Waits, Working

\* Tasks that are not handlers do what the client does not see.
LEMMA ContractQuiet ==
    ASSUME IInv, NEW t \in Tasks,
           CancelNotification(t) \/ ConsultClient(t) \/ HandleResponse(t) \/ FinishConsultation(t)
    PROVE  UNCHANGED Contract!contract
<1>1. inbox' = inbox /\ loop' = loop /\ outbox' = outbox /\ pc \in [Tasks -> Labels]
  BY DEF CancelNotification, ConsultClient, HandleResponse, FinishConsultation, network, IInv, TypeOK
<1>2. pc[t] \in {"spawned", "consulted"}
  BY DEF CancelNotification, ConsultClient, HandleResponse, FinishConsultation, Runs
<1>3. \A u \in Tasks : pc'[u] = "handling" <=> pc[u] = "handling"
  <2>1. CASE CancelNotification(t) \/ ConsultClient(t) \/ FinishConsultation(t)
    BY <1>1, <1>2, <2>1 DEF CancelNotification, ConsultClient, FinishConsultation, Finish
  <2>2. CASE HandleResponse(t)
    <3>1. CASE Finish(t)
      BY <1>1, <1>2, <3>1 DEF Finish
    <3>2. ASSUME NEW u \in Tasks, pc[u] = "asking",
                 pc' = [pc EXCEPT ![t] = "done", ![u] = "consulted"]
          PROVE  \A v \in Tasks : pc'[v] = "handling" <=> pc[v] = "handling"
      BY <1>1, <1>2, <3>2
    <3> QED
      BY <2>2, <3>1, <3>2 DEF HandleResponse
  <2> QED
    BY <2>1, <2>2
<1> QED
  BY <1>1, <1>3 DEF Contract!contract, Kind

\* A request that is answered at its first poll is refused for the contract's reason.
LEMMA ContractRefuse ==
    ASSUME IInv, NEW t \in Tasks,
           LateRequest(t) \/ EarlyRequest(t) \/ UnknownRequest(t) \/ ShutdownRequest(t)
    PROVE  Contract!Refuse(t) \/ Contract!Shutdown(t)
<1>1. /\ OwnRequest(t) /\ Kind(t) \in {"initialize", "work", "unknown", "shutdown"}
      /\ pc[t] = "spawned" /\ pc \in [Tasks -> Labels]
  BY DEF LateRequest, EarlyRequest, UnknownRequest, ShutdownRequest, OwnRequest, Requests, Runs,
         IInv, TypeOK
<1>2. /\ Contract!Waits(t) /\ t \in Contract!Asked /\ Sent[t] = Kind(t)
      /\ Contract!AfterShutdown(t) <=> shutting_down
      /\ Contract!Initialized <=> initialized
  BY <1>1, ContractFirstPoll
<1>3. inbox' = inbox /\ loop' = loop /\ pc' = [pc EXCEPT ![t] = "done"]
  BY DEF LateRequest, EarlyRequest, UnknownRequest, ShutdownRequest, Refuse, Finish, network
<1>4. Sent' = Sent /\ Working' = Working
  BY <1>1, <1>3 DEF Sent, Working, Kind
<1>5. CASE LateRequest(t)
  <2>1. shutting_down /\ outbox' = Append(outbox, [id |-> t, result |-> "shutting_down"])
    BY <1>5 DEF LateRequest, Refuse, Respond
  <2>2. Contract!Reason(t) = "shutting_down"
    BY <1>2, <2>1 DEF Contract!Reason
  <2> QED
    BY <1>2, <1>3, <1>4, <2>1, <2>2 DEF Contract!Refuse, Contract!Answer, Sent, Working
<1>6. CASE EarlyRequest(t)
  <2>1. /\ ~shutting_down /\ ~initialized /\ Kind(t) \in {"work", "unknown"}
        /\ outbox' = Append(outbox, [id |-> t, result |-> "not_initialized"])
    BY <1>1, <1>6 DEF EarlyRequest, Refuse, Respond
  <2>2. Contract!Reason(t) = "not_initialized"
    BY <1>2, <2>1 DEF Contract!Reason
  <2> QED
    BY <1>2, <1>3, <1>4, <2>1, <2>2 DEF Contract!Refuse, Contract!Answer, Sent, Working
<1>7. CASE UnknownRequest(t)
  <2>1. /\ ~shutting_down /\ initialized /\ Kind(t) = "unknown"
        /\ outbox' = Append(outbox, [id |-> t, result |-> "method_not_found"])
    BY <1>7 DEF UnknownRequest, Refuse, Respond
  <2>2. Contract!Reason(t) = "method_not_found"
    BY <1>2, <2>1 DEF Contract!Reason
  <2> QED
    BY <1>2, <1>3, <1>4, <2>1, <2>2 DEF Contract!Refuse, Contract!Answer, Sent, Working
<1>8. CASE ShutdownRequest(t)
  <2>1. /\ ~shutting_down /\ Kind(t) = "shutdown"
        /\ outbox' = Append(outbox, [id |-> t, result |-> ShutdownResult])
    BY <1>8 DEF ShutdownRequest, Refuse, Respond
  <2>2. ShutdownResult = IF Contract!Initialized THEN "success" ELSE "not_initialized"
    BY <1>2, <2>1 DEF ShutdownResult
  <2> QED
    BY <1>2, <1>3, <1>4, <2>1, <2>2 DEF Contract!Shutdown, Contract!Answer, Sent, Working
<1> QED
  BY <1>5, <1>6, <1>7, <1>8

LEMMA ContractTask ==
    ASSUME IInv, NEW t \in Tasks, Run(t)
    PROVE  Contract!Next \/ UNCHANGED Contract!contract
<1>1. CASE AlienRequest(t)
  <2>1. /\ inbox' = inbox /\ loop' = loop /\ loop = "running"
        /\ pc' = [pc EXCEPT ![t] = "done"] /\ pc[t] = "spawned" /\ pc \in [Tasks -> Labels]
        /\ outbox' = Append(outbox, [id |-> DefaultId, result |-> "invalid"])
    BY <1>1 DEF AlienRequest, Refuse, Respond, Finish, network, Runs, IInv, TypeOK
  <2>2. Sent' = Sent /\ Working' = Working /\ "invalid" \in Results
    BY <2>1 DEF Sent, Working, Kind, Results
  <2> QED
    BY <2>1, <2>2 DEF Contract!Next, Contract!AnswerNobody, Contract!Answer, Sent, Working
<1>2. CASE LateRequest(t) \/ EarlyRequest(t) \/ UnknownRequest(t) \/ ShutdownRequest(t)
  <2>1. t \in Contract!Asked
    BY <1>2, ContractFirstPoll
    DEF LateRequest, EarlyRequest, UnknownRequest, ShutdownRequest, OwnRequest, Requests
  <2> QED
    BY <1>2, <2>1, ContractRefuse DEF Contract!Next
<1>3. CASE HandledRequest(t)
  <2>1. /\ OwnRequest(t) /\ ~shutting_down
        /\ Kind(t) = "initialize" \/ (Kind(t) = "work" /\ initialized)
        /\ inbox' = inbox /\ loop' = loop /\ outbox' = outbox
        /\ pc' = [pc EXCEPT ![t] = "handling"] /\ pc \in [Tasks -> Labels]
    BY <1>3 DEF HandledRequest, network, IInv, TypeOK
  <2>2. Sent' = Sent /\ Working' = Working \cup {t}
    BY <2>1 DEF Sent, Working, Kind
  <2>3. Contract!Start(t) /\ t \in Contract!Asked
    BY <2>1, <2>2, ContractFirstPoll DEF Contract!Start, Sent, Working
  <2> QED
    BY <2>3 DEF Contract!Next
<1>4. CASE FinishRequest(t)
  <2>1. PICK result \in {"success", "error"} : Respond(t, result)
    BY <1>4 DEF FinishRequest
  <2>2. /\ inbox' = inbox /\ loop' = loop /\ Runs(t, "handling")
        /\ pc' = [pc EXCEPT ![t] = "done"] /\ pc \in [Tasks -> Labels]
    BY <1>4 DEF FinishRequest, Finish, network, IInv, TypeOK
  <2>3. /\ t \in 1..Len(inbox) /\ pc[t] = "handling" /\ loop = "running"
        /\ Kind(t) \in {"initialize", "work"}
    BY <2>2, RunningTask DEF IInv, HistoryOK, KindsOK
  <2>4. Sent' = Sent /\ Working' = Working \ {t} /\ t \in Working
    BY <2>2, <2>3 DEF Sent, Working, Kind
  <2>5. Contract!Complete(t) /\ t \in Contract!Asked
    BY <2>1, <2>2, <2>3, <2>4, ContractSees
    DEF Contract!Complete, Contract!Answer, Respond, Sent, Working
  <2> QED
    BY <2>5 DEF Contract!Next
<1>5. CASE CancelNotification(t) \/ ConsultClient(t) \/ HandleResponse(t) \/ FinishConsultation(t)
  BY <1>5, ContractQuiet
<1> QED
  BY <1>1, <1>2, <1>3, <1>4, <1>5 DEF Run

LEMMA ContractStep == IInv /\ [Next]_vars => [Contract!Next]_(Contract!contract)
<1> SUFFICES ASSUME IInv, [Next]_vars
             PROVE  Contract!Next \/ UNCHANGED Contract!contract
  OBVIOUS
<1>1. CASE Client
  BY <1>1, ContractClient DEF Contract!Next
<1>2. CASE Read \/ Signal \/ InputCloses
  BY <1>2, ContractLoop
<1>3. ASSUME NEW t \in Tasks, Run(t)
      PROVE  Contract!Next \/ UNCHANGED Contract!contract
  BY <1>3, ContractTask
<1>4. ASSUME NEW t \in Tasks, HandlerWakes(t)
      PROVE  UNCHANGED Contract!contract
  BY <1>4 DEF HandlerWakes, network, Contract!contract, Kind
<1>5. CASE UNCHANGED vars
  BY <1>5 DEF vars, network, Contract!contract, Kind
<1> QED
  BY <1>1, <1>2, <1>3, <1>4, <1>5 DEF Next, Ended

\* The server keeps its contract, whatever the number of messages: no request is
\* answered twice, refusals have their reason, no handler starts on a request that
\* came after a shutdown request, and a client that has the answer to its shutdown
\* request sees the server end in order.
THEOREM Refinement == Spec => KeepsContract
<1>1. Spec => []IInv
  BY InitHolds, NextKeeps, PTL DEF Spec
<1> QED
  BY <1>1, ContractInit, ContractStep, PTL DEF Spec, KeepsContract, Contract!Spec

-------------------------------------------------------------------------------
(* Cancellation.                                                                *)

\* Who cancelled a task.
Canceller(t) == \E c \in 1..read : Kind(c) = "cancel" /\ inbox[c].about = t

LEMMA CancellersStay ==
    ASSUME IInv, [Next]_vars, NEW t \in Nat, Canceller(t)
    PROVE  Canceller(t)'
<1>1. PICK c \in 1..read : Kind(c) = "cancel" /\ inbox[c].about = t
  BY DEF Canceller
<1>2. c \in 1..Len(inbox) /\ read \in Nat
  BY Basics DEF IInv
<1>3. inbox'[c] = inbox[c]
  <2>1. ASSUME NEW kind \in Kinds, NEW about \in Nat, Send(kind, about)
        PROVE  inbox'[c] = inbox[c]
    BY <1>2, <2>1, AppendProperties DEF Send, IInv, TypeOK
  <2>2. CASE Client
    <3>1. \A u \in 1..Len(inbox) : u \in Nat
      OBVIOUS
    <3>2. \A r \in requests : r \in Nat
      BY DEF IInv, TypeOK
    <3> QED
      BY <2>1, <2>2, <3>1, <3>2 DEF Client, ClientRequests, ClientNotifies, ClientCancels,
         ClientAnswers, Kinds, Requests
  <2>3. CASE ~Client
    <3>1. inbox' = inbox
      BY <2>3 DEF Next, Read, Signal, InputCloses, Run, AlienRequest, LateRequest, ShutdownRequest,
         EarlyRequest, UnknownRequest, HandledRequest, FinishRequest, CancelNotification,
         ConsultClient, HandleResponse, FinishConsultation, HandlerWakes, Ended, Refuse, network, vars
    <3> QED
      BY <3>1
  <2> QED
    BY <2>2, <2>3
<1>4. read' \in {read, read + 1}
  BY DEF Next, Client, ClientRequests, ClientNotifies, ClientCancels, ClientAnswers, Send,
     Read, Signal, InputCloses, Run, AlienRequest, LateRequest, ShutdownRequest,
     EarlyRequest, UnknownRequest, HandledRequest, FinishRequest, CancelNotification,
     ConsultClient, HandleResponse, FinishConsultation, HandlerWakes, Ended, Refuse, network, vars
<1>5. c \in 1..read'
  BY <1>2, <1>4
<1> QED
  BY <1>1, <1>3, <1>5 DEF Canceller, Kind

\* What a step does to the tokens and the handlers of the tasks.
LEMMA TokenSteps ==
    ASSUME IInv, [Next]_vars
    PROVE  \/ /\ UNCHANGED tokens
              /\ \A u \in Tasks : pc'[u] = "handling" <=> pc[u] = "handling"
           \/ \E t \in Tasks :
                 /\ tasks' = tasks \cup {t} /\ cancelled' = cancelled
                 /\ \A u \in Tasks : pc'[u] = "handling" <=> pc[u] = "handling" \/ u = t
           \/ \E t \in Tasks :
                 /\ tasks' = tasks \ {t} /\ pc'[t] # "handling"
                 /\ cancelled \subseteq cancelled'
                 /\ \A u \in Tasks \ {t} : pc'[u] = "handling" <=> pc[u] = "handling"
           \/ \E t \in 1..read :
                 /\ Kind(t) = "cancel"
                 /\ tasks' = tasks \ {inbox[t].about}
                 /\ cancelled' = cancelled \cup (tasks \cap {inbox[t].about})
                 /\ \A u \in Tasks : pc'[u] = "handling" <=> pc[u] = "handling"
<1> DEFINE Goal == \A u \in Tasks : pc'[u] = "handling" <=> pc[u] = "handling"
<1>0. pc \in [Tasks -> Labels]
  BY DEF IInv, TypeOK
<1>1. ASSUME UNCHANGED <<pc, tokens>>
      PROVE  UNCHANGED tokens /\ Goal
  BY <1>1
<1>2. CASE Client \/ Signal \/ InputCloses \/ UNCHANGED vars
  <2>1. UNCHANGED <<pc, tokens>>
    BY <1>2 DEF Client, ClientRequests, ClientNotifies, ClientCancels, ClientAnswers, Send,
       Signal, InputCloses, vars
  <2> QED
    BY <1>1, <2>1
<1>3. CASE Read
  <2>1. read + 1 \in Tasks /\ pc[read + 1] = "unread"
    BY <1>3, Basics DEF IInv, QueueOK, Queue, Read, Tasks
  <2>2. pc' = pc \/ pc' = [pc EXCEPT ![read + 1] = "spawned"]
    BY <1>3 DEF Read
  <2>3. Goal
    BY <1>0, <2>1, <2>2
  <2> QED
    BY <1>3, <2>3 DEF Read
<1>4. ASSUME NEW t \in Tasks, HandlerWakes(t)
      PROVE  UNCHANGED tokens /\ Goal
  BY <1>1, <1>4 DEF HandlerWakes
<1>5. ASSUME NEW t \in Tasks,
             AlienRequest(t) \/ LateRequest(t) \/ ShutdownRequest(t) \/ EarlyRequest(t)
             \/ UnknownRequest(t) \/ ConsultClient(t) \/ HandleResponse(t) \/ FinishConsultation(t)
      PROVE  UNCHANGED tokens /\ Goal
  <2>1. CASE ConsultClient(t) \/ HandleResponse(t) \/ FinishConsultation(t)
    <3>1. UNCHANGED tokens
      BY <2>1 DEF ConsultClient, HandleResponse, FinishConsultation
    <3>2. Working' = Working
      BY <2>1, ContractQuiet DEF Contract!contract, Working
    <3> QED
      BY <3>1, <3>2 DEF Working
  <2>2. CASE AlienRequest(t) \/ LateRequest(t) \/ ShutdownRequest(t) \/ EarlyRequest(t) \/ UnknownRequest(t)
    <3>1. UNCHANGED tokens /\ pc[t] = "spawned" /\ pc' = [pc EXCEPT ![t] = "done"]
      BY <2>2 DEF AlienRequest, LateRequest, ShutdownRequest, EarlyRequest, UnknownRequest,
         OwnRequest, Runs, Refuse, Finish
    <3> QED
      BY <1>0, <3>1
  <2> QED
    BY <1>5, <2>1, <2>2
<1>6. ASSUME NEW t \in Tasks, HandledRequest(t)
      PROVE  /\ tasks' = tasks \cup {t} /\ cancelled' = cancelled
             /\ \A u \in Tasks : pc'[u] = "handling" <=> pc[u] = "handling" \/ u = t
  BY <1>0, <1>6 DEF HandledRequest
<1>7. ASSUME NEW t \in Tasks, FinishRequest(t)
      PROVE  /\ tasks' = tasks \ {t} /\ pc'[t] # "handling"
             /\ cancelled \subseteq cancelled'
             /\ \A u \in Tasks \ {t} : pc'[u] = "handling" <=> pc[u] = "handling"
  BY <1>0, <1>7 DEF FinishRequest, TaskDone, Finish
<1>8. ASSUME NEW t \in Tasks, CancelNotification(t)
      PROVE  /\ t \in 1..read /\ Kind(t) = "cancel"
             /\ tasks' = tasks \ {inbox[t].about}
             /\ cancelled' = cancelled \cup (tasks \cap {inbox[t].about})
             /\ \A u \in Tasks : pc'[u] = "handling" <=> pc[u] = "handling"
  <2>1. Runs(t, "spawned")
    BY <1>8 DEF CancelNotification
  <2>2. t \in 1..read /\ pc[t] = "spawned"
    BY <2>1, RunningTask DEF IInv
  <2> QED
    BY <1>0, <1>8, <2>2 DEF CancelNotification, TaskDone, Finish
<1> QED
  BY <1>2, <1>3, <1>4, <1>5, <1>6, <1>7, <1>8 DEF Next, Ended, Run

\* Every request that is being handled has its token registered or was cancelled by
\* the client, and no token outlives its request (Inner::task_done).
THEOREM Cancellable == Spec => []RunningCanBeCancelled
<1> DEFINE TokenOK ==
        \A t \in Tasks :
            /\ t \in tasks => pc[t] = "handling"
            /\ pc[t] = "handling" /\ t \notin tasks => t \in cancelled /\ Canceller(t)
<1>1. Init => TokenOK
  BY DEF Init
<1>2. IInv /\ TokenOK /\ [Next]_vars => TokenOK'
  <2> SUFFICES ASSUME IInv, TokenOK, [Next]_vars, NEW t \in Tasks
               PROVE  /\ t \in tasks' => pc'[t] = "handling"
                      /\ pc'[t] = "handling" /\ t \notin tasks' => t \in cancelled' /\ Canceller(t)'
    OBVIOUS
  <2>1. t \in Nat /\ (Canceller(t) => Canceller(t)')
    BY CancellersStay DEF Tasks
  <2>2. ASSUME NEW c \in 1..read, Kind(c) = "cancel", t = inbox[c].about
        PROVE  Canceller(t)'
    <3>1. Canceller(t)
      BY <2>2 DEF Canceller
    <3> QED
      BY <2>1, <3>1
  <2> QED
    BY <2>1, <2>2, TokenSteps DEF tokens
<1>3. IInv /\ TokenOK => RunningCanBeCancelled
  BY Basics DEF IInv, RunningCanBeCancelled, Canceller
<1>4. Spec => []IInv
  BY InitHolds, NextKeeps, PTL DEF Spec
<1> HIDE DEF TokenOK
<1> QED
  BY <1>1, <1>2, <1>3, <1>4, PTL DEF Spec
================================================================================
