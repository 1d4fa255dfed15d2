------------------------------ MODULE FairRwLock ------------------------------
(* The asynchronous readers-writer lock that guards the workspaces of the      *)
(* language server (taplo_common::AsyncRwLock, an alias of tokio's RwLock).    *)
(* The lock is library code: it is modelled from how taplo-lsp uses it and     *)
(* from the fairness tokio gives it, one FIFO queue shared by readers and      *)
(* writers, so that a reader never overtakes a writer that waits.              *)
(*                                                                             *)
(* A lock is a value, and the operators return the lock after a call: a module *)
(* that owns one keeps it in a variable.  A guard (RwLockReadGuard or          *)
(* RwLockWriteGuard) is any value that names the holder; a task that takes two *)
(* guards of the same lock uses two different values.                          *)
EXTENDS Naturals, Sequences

Modes == {"read", "write"}

\* The locks whose guards are in G.
Locks(G) == [write : SUBSET G, read : SUBSET G,
             queue : Seq([guard : G, mode : Modes])]

\* The lock no guard of which exists.
NewLock == [write |-> {}, read |-> {}, queue |-> <<>>]

Free(l) == l.write = {} /\ l.read = {}

Holds(l, g) == g \in l.write \cup l.read

\* There is one writer at most, and no reader beside it; nobody waits for a lock
\* that is free.
WellFormed(l) ==
    /\ \A g, h \in l.write : g = h
    /\ l.write # {} => l.read = {}
    /\ Free(l) => l.queue = <<>>

\* Guard g was asked for in that mode, and has not been dropped since.
Asked(l, g, mode) ==
    \/ g \in l[mode]
    \/ \E i \in 1..Len(l.queue) : l.queue[i] = [guard |-> g, mode |-> mode]

Waits(l, g) == \E i \in 1..Len(l.queue) : l.queue[i].guard = g

\* Mutant of Compatible: a writer does not wait for the readers.
CompatibleIgnoringReaders(l, mode) == l.write = {}

\* A call of read() or write() is granted at once when the guards held allow it
\* and nobody waits; otherwise the call waits at the end of the queue.
Compatible(l, mode) == IF mode = "write" THEN Free(l) ELSE l.write = {}

Grant(l, g, mode) == [l EXCEPT ![mode] = @ \cup {g}]

\* Mutant of Enqueue: the last to come is served first.
EnqueueInFront(l, g, mode) ==
    [l EXCEPT !.queue = <<[guard |-> g, mode |-> mode]>> \o @]

Enqueue(l, g, mode) ==
    [l EXCEPT !.queue = Append(@, [guard |-> g, mode |-> mode])]

\* Mutant of Acquire: a reader overtakes a writer that waits.
AcquireBarging(l, g, mode) ==
    IF Compatible(l, mode) THEN Grant(l, g, mode) ELSE Enqueue(l, g, mode)

Acquire(l, g, mode) ==
    IF Compatible(l, mode) /\ l.queue = <<>>
    THEN Grant(l, g, mode)
    ELSE Enqueue(l, g, mode)

\* The number of readers at the front of a queue that no writer precedes.
FrontReaders(q) ==
    CHOOSE n \in 0..Len(q) :
        /\ \A i \in 1..n : q[i].mode = "read"
        /\ n < Len(q) => q[n + 1].mode = "write"

\* The front of the queue gets the lock: one writer, or the readers before it.
Wake(l) ==
    IF l.queue = <<>> THEN l
    ELSE IF Head(l.queue).mode = "write"
    THEN [write |-> {Head(l.queue).guard},
          read  |-> {},
          queue |-> Tail(l.queue)]
    ELSE LET n == FrontReaders(l.queue)
         IN  [write |-> {},
              read  |-> {l.queue[i].guard : i \in 1..n},
              queue |-> SubSeq(l.queue, n + 1, Len(l.queue))]

\* A guard is dropped.
Release(l, g) ==
    LET rest == [l EXCEPT !.write = @ \ {g}, !.read = @ \ {g}]
    IN  IF Free(rest) THEN Wake(rest) ELSE rest
===============================================================================
