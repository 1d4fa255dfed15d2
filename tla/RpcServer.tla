------------------------------- MODULE RpcServer -------------------------------
(* The JSON-RPC server under the language server (lsp-async-stub): the loop    *)
(* that reads messages, their dispatch, the life cycle from initialize over    *)
(* shutdown to exit, cancellation, and the requests a handler makes of the     *)
(* client.                                                                     *)
(*                                                                             *)
(* Every message is handled by a task of its own, spawned by the loop, polled  *)
(* first in the order of the messages.  Writing a message never waits (the     *)
(* output is an unbounded channel, or a callback in the browser), so the lock  *)
(* around the server's state is never held across a wait, and the work of a    *)
(* task from one wait to the next is one action.                               *)
(*                                                                             *)
(* Requests are named by the number of the message that makes them: the client *)
(* does not use the id of a request again.                                     *)
EXTENDS Naturals, Sequences

CONSTANTS
    Traffic,     \* the kinds of message this client sends
    Signals,     \* whether the process may be asked to stop (Ctrl-C)
    MaxMessages  \* bound: the messages the client sends

Tasks == 1..MaxMessages

\* An alien request has another JSON-RPC version, an unknown one no handler; a
\* work request has one.  The handler of a consult notification asks the client.
Requests == {"initialize", "work", "unknown", "shutdown", "alien"}
Kinds == Requests \cup {"consult", "cancel", "answer", "exit"}

ASSUME ServerAssumption ==
    /\ MaxMessages \in Nat
    /\ Traffic \subseteq Kinds
    /\ Signals \in BOOLEAN

VARIABLES
    inbox,         \* the messages the client sent, in order
    read,          \* how many of them the loop has read
    outbox,        \* the responses written, in order
    loop,          \* the loop: "running", or how it ended: "ok", "failed"
    ready,         \* the tasks to poll, in order
    pc,            \* where each task continues
    initialized,
    shutting_down,
    tasks,         \* the requests whose token is registered
    cancelled,     \* the tokens that are cancelled
    asked,         \* the request each task made of the client, if it waits for it
    requests,      \* the requests made of the client that have no answer yet
    next_request_id

network == <<inbox, read, loop>>
life == <<initialized, shutting_down>>
tokens == <<tasks, cancelled>>
asking == <<asked, requests, next_request_id>>
vars == <<network, outbox, ready, pc, life, tokens, asking>>

DefaultId == 0                 \* the id of a response that was given none
ExternalId == MaxMessages + 1  \* the id of the shutdown request of the loop's own
NoRequest == MaxMessages + 1   \* no request of the server's waits for an answer

Init ==
    /\ inbox = <<>> /\ read = 0 /\ loop = "running"
    /\ outbox = <<>>
    /\ ready = <<>> /\ pc = [t \in Tasks |-> "unread"]
    /\ initialized = FALSE /\ shutting_down = FALSE
    /\ tasks = {} /\ cancelled = {}
    /\ asked = [t \in Tasks |-> NoRequest] /\ requests = {} /\ next_request_id = 0

Kind(t) == inbox[t].kind
IsRequest(t) == Kind(t) \in Requests

\* The answers to request t.
Answers(t) == {i \in 1..Len(outbox) : outbox[i].id = t}

-------------------------------------------------------------------------------
(* The client.                                                                 *)

MaySend(kind) == loop = "running" /\ kind \in Traffic /\ Len(inbox) < MaxMessages

Send(kind, about) ==
    /\ MaySend(kind)
    /\ inbox' = Append(inbox, [kind |-> kind, about |-> about])
    /\ UNCHANGED <<read, loop, outbox, ready, pc, life, tokens, asking>>

ClientRequests == \E kind \in Requests : Send(kind, 0)
ClientNotifies == \E kind \in {"consult", "exit"} : Send(kind, 0)
ClientCancels == \E t \in 1..Len(inbox) : IsRequest(t) /\ Send("cancel", t)

\* The client answers a request of the server, each once.
ClientAnswers ==
    \E r \in requests :
        /\ \A t \in 1..Len(inbox) : Kind(t) = "answer" => inbox[t].about # r
        /\ Send("answer", r)

-------------------------------------------------------------------------------
(* The loop.                                                                   *)

\* It is polled when the tasks polled before had their turn, and reads all the
\* messages there are.
LoopMayRun == loop = "running" /\ \A i \in 1..Len(ready) : pc[ready[i]] = "spawned"

Respond(id, result) == outbox' = Append(outbox, [id |-> id, result |-> result])

\* What a shutdown request is answered with; it counts before initialize as well,
\* though it is refused.
ShutdownResult ==
    IF shutting_down THEN "shutting_down"
    ELSE IF initialized THEN "success" ELSE "not_initialized"

EndLoop == loop' = IF shutting_down THEN "ok" ELSE "failed"

\* A message is read; an exit notification ends the loop, and with it all tasks.
Read ==
    LET t == read + 1
    IN  /\ LoopMayRun /\ read < Len(inbox)
        /\ read' = t
        /\ IF Kind(t) = "exit"
           THEN EndLoop /\ UNCHANGED <<ready, pc>>
           ELSE /\ ready' = Append(ready, t)
                /\ pc' = [pc EXCEPT ![t] = "spawned"]
                /\ UNCHANGED loop
        /\ UNCHANGED <<inbox, outbox, life, tokens, asking>>

\* Ctrl-C: a shutdown request of the loop's own is handled, unless a second signal
\* comes first, and the loop ends.
Signal ==
    /\ Signals /\ LoopMayRun
    /\ \/ /\ shutting_down' = TRUE /\ loop' = "ok"
          /\ Respond(ExternalId, ShutdownResult)
       \/ EndLoop /\ UNCHANGED <<outbox, shutting_down>>
    /\ UNCHANGED <<inbox, read, ready, pc, initialized, tokens, asking>>

\* The input is closed, by a client that ended.
InputCloses ==
    /\ LoopMayRun /\ read = Len(inbox) /\ Len(inbox) = MaxMessages
    /\ EndLoop
    /\ UNCHANGED <<inbox, read, outbox, ready, pc, life, tokens, asking>>

-------------------------------------------------------------------------------
(* The tasks.                                                                  *)

Runs(t, label) == loop = "running" /\ ready # <<>> /\ Head(ready) = t /\ pc[t] = label

Finish(t) == pc' = [pc EXCEPT ![t] = "done"] /\ ready' = Tail(ready)

\* The first poll of a request that is answered at once.
Refuse(t, id, result) ==
    Respond(id, result) /\ Finish(t) /\ UNCHANGED <<network, initialized, tokens, asking>>

AlienRequest(t) ==
    /\ Runs(t, "spawned") /\ Kind(t) = "alien"
    /\ Refuse(t, DefaultId, "invalid") /\ UNCHANGED shutting_down

OwnRequest(t) == Runs(t, "spawned") /\ Kind(t) \in Requests \ {"alien"}

\* Mutant of LateRequest: the request is refused, and handled all the same.
LateRequestHandled(t) ==
    /\ OwnRequest(t) /\ shutting_down
    /\ Respond(t, "shutting_down")
    /\ tasks' = tasks \cup {t}
    /\ pc' = [pc EXCEPT ![t] = "handling"]
    /\ UNCHANGED <<network, ready, life, cancelled, asking>>

LateRequest(t) ==
    /\ OwnRequest(t) /\ shutting_down
    /\ Refuse(t, t, "shutting_down") /\ UNCHANGED shutting_down

ShutdownRequest(t) ==
    /\ OwnRequest(t) /\ Kind(t) = "shutdown" /\ ~shutting_down
    /\ shutting_down' = TRUE
    /\ Refuse(t, t, ShutdownResult)

\* Mutant of EarlyRequest: the request is dropped.
EarlyRequestDropped(t) ==
    /\ OwnRequest(t) /\ Kind(t) \notin {"initialize", "shutdown"}
    /\ ~shutting_down /\ ~initialized
    /\ Finish(t) /\ UNCHANGED <<network, outbox, life, tokens, asking>>

EarlyRequest(t) ==
    /\ OwnRequest(t) /\ Kind(t) \notin {"initialize", "shutdown"}
    /\ ~shutting_down /\ ~initialized
    /\ Refuse(t, t, "not_initialized") /\ UNCHANGED shutting_down

UnknownRequest(t) ==
    /\ OwnRequest(t) /\ Kind(t) = "unknown" /\ ~shutting_down /\ initialized
    /\ Refuse(t, t, "method_not_found") /\ UNCHANGED shutting_down

\* A request with a handler gets a token, and the handler runs until it waits.
HandledRequest(t) ==
    /\ OwnRequest(t) /\ ~shutting_down
    /\ Kind(t) = "initialize" \/ (Kind(t) = "work" /\ initialized)
    /\ tasks' = tasks \cup {t}
    /\ pc' = [pc EXCEPT ![t] = "handling"]
    /\ ready' \in {ready, Tail(ready)}
    /\ UNCHANGED <<network, outbox, life, cancelled, asking>>

\* What a handler waits for happens.
HandlerWakes(t) ==
    /\ loop = "running" /\ pc[t] = "handling" /\ \A i \in 1..Len(ready) : ready[i] # t
    /\ ready' = Append(ready, t)
    /\ UNCHANGED <<network, outbox, pc, life, tokens, asking>>

\* Mutant of TaskDone: the token stays registered.
TaskDoneKeepsToken(id) ==
    /\ tasks' = tasks
    /\ cancelled' = cancelled \cup (tasks \cap {id})

\* A token is removed from the registered ones, and cancelled.
TaskDone(id) ==
    /\ tasks' = tasks \ {id}
    /\ cancelled' = cancelled \cup (tasks \cap {id})

\* The handler returns, with a result or an error (of its own, or because the
\* parameters were wrong), and its response is written.  An initialize request
\* has made the server initialized in either case.
FinishRequest(t) ==
    /\ Runs(t, "handling")
    /\ \E result \in {"success", "error"} : Respond(t, result)
    /\ TaskDone(t)
    /\ initialized' = (initialized \/ Kind(t) = "initialize")
    /\ Finish(t)
    /\ UNCHANGED <<network, shutting_down, asking>>

\* A notification does not need an initialized server.
CancelNotification(t) ==
    /\ Runs(t, "spawned") /\ Kind(t) = "cancel"
    /\ TaskDone(inbox[t].about)
    /\ Finish(t)
    /\ UNCHANGED <<network, outbox, life, asking>>

\* Mutant of ConsultClient: the counter of the requests stays.
ConsultClientSameId(t) ==
    /\ Runs(t, "spawned") /\ Kind(t) = "consult"
    /\ asked' = [asked EXCEPT ![t] = next_request_id]
    /\ requests' = requests \cup {next_request_id}
    /\ pc' = [pc EXCEPT ![t] = "asking"]
    /\ ready' = Tail(ready)
    /\ UNCHANGED <<network, outbox, life, tokens, next_request_id>>

\* write_request: the handler of a notification asks the client, and waits.
ConsultClient(t) ==
    /\ Runs(t, "spawned") /\ Kind(t) = "consult"
    /\ asked' = [asked EXCEPT ![t] = next_request_id]
    /\ requests' = requests \cup {next_request_id}
    /\ next_request_id' = next_request_id + 1
    /\ pc' = [pc EXCEPT ![t] = "asking"]
    /\ ready' = Tail(ready)
    /\ UNCHANGED <<network, outbox, life, tokens>>

\* The client's response: the task that waits for it is woken.
HandleResponse(t) ==
    LET r == inbox[t].about
        waiting == {u \in Tasks : pc[u] = "asking" /\ asked[u] = r}
    IN  /\ Runs(t, "spawned") /\ Kind(t) = "answer"
        /\ requests' = requests \ {r}
        /\ \/ /\ r \in requests
              /\ \E u \in waiting :
                     /\ \A v \in waiting : v <= u
                     /\ ready' = Append(Tail(ready), u)
                     /\ pc' = [pc EXCEPT ![t] = "done", ![u] = "consulted"]
           \/ (r \notin requests \/ waiting = {}) /\ Finish(t)
        /\ UNCHANGED <<network, outbox, life, tokens, asked, next_request_id>>

FinishConsultation(t) ==
    /\ Runs(t, "consulted")
    /\ asked' = [asked EXCEPT ![t] = NoRequest]
    /\ Finish(t)
    /\ UNCHANGED <<network, outbox, life, tokens, requests, next_request_id>>

-------------------------------------------------------------------------------

Run(t) ==
    \/ AlienRequest(t) \/ LateRequest(t) \/ ShutdownRequest(t) \/ EarlyRequest(t)
    \/ UnknownRequest(t) \/ HandledRequest(t) \/ FinishRequest(t)
    \/ CancelNotification(t)
    \/ ConsultClient(t) \/ HandleResponse(t) \/ FinishConsultation(t)

Client == ClientRequests \/ ClientNotifies \/ ClientCancels \/ ClientAnswers

Ended == loop # "running" /\ UNCHANGED vars

Next ==
    \/ Client
    \/ Read \/ Signal \/ InputCloses
    \/ \E t \in Tasks : Run(t) \/ HandlerWakes(t)
    \/ Ended

Spec == Init /\ [][Next]_vars

\* The loop and the tasks are polled, and handlers do not wait for ever (LspWorld
\* says when).
Fairness ==
    /\ WF_vars(Read)
    /\ \A t \in Tasks : WF_vars(Run(t)) /\ WF_vars(HandlerWakes(t))

FairSpec == Spec /\ Fairness

-------------------------------------------------------------------------------
(* Properties.                                                                 *)

Results == {"success", "error", "invalid", "shutting_down", "not_initialized",
            "method_not_found"}

Labels == {"unread", "spawned", "handling", "asking", "consulted", "done"}

\* The values of the variables; the requests made of the client have the ids the
\* counter has passed.
TypeOK ==
    /\ inbox \in Seq([kind : Kinds, about : Nat])
    /\ read \in 0..Len(inbox) /\ Len(inbox) <= MaxMessages
    /\ loop \in {"running", "ok", "failed"}
    /\ outbox \in Seq([id : 0..MaxMessages + 1, result : Results])
    /\ ready \in Seq(1..read)
    /\ pc \in [Tasks -> Labels]
    /\ initialized \in BOOLEAN /\ shutting_down \in BOOLEAN
    /\ tasks \subseteq 1..read /\ cancelled \subseteq 1..read
    /\ next_request_id \in Nat
    /\ requests \subseteq {r \in Nat : r < next_request_id}
    /\ asked \in [Tasks -> Nat]

Contract == INSTANCE RpcContract WITH
    Nobody <- {DefaultId, ExternalId},
    sent <- [t \in 1..Len(inbox) |-> Kind(t)],
    working <- {t \in Tasks : pc[t] = "handling"},
    answers <- outbox,
    server <- loop

\* The server keeps its contract with the client: no request is answered twice,
\* each refusal has its reason, no handler starts on a request sent after a
\* shutdown request, and a client that waited for the answer to its shutdown
\* request ends the server in order.
KeepsContract == Contract!Spec

\* Every request that is read is answered under its id, unless the loop ends.  (A
\* request with another JSON-RPC version is answered under an id that is nobody's.)
EveryRequestAnswered ==
    \A t \in Tasks :
        (t <= read /\ IsRequest(t) /\ Kind(t) # "alien") ~> (loop # "running" \/ Answers(t) # {})

\* Every request that is being handled can be cancelled, or was, and by the client;
\* no token outlives its request.
RunningCanBeCancelled ==
    \A t \in 1..Len(inbox) :
        /\ t \in tasks => pc[t] = "handling"
        /\ pc[t] = "handling" /\ t \notin tasks =>
               t \in cancelled /\ \E c \in 1..read : Kind(c) = "cancel" /\ inbox[c].about = t

\* The answer in message u is for task t, which waits for it.
WaitsForAnswer(t, u) ==
    u <= read /\ Kind(u) = "answer" /\ pc[t] = "asking" /\ asked[t] = inbox[u].about

\* Once an answer of the client is read, no task is left waiting for it.
AnswersArrive ==
    \A u \in Tasks : (u <= read /\ Kind(u) = "answer")
                     ~> (loop # "running" \/ \A t \in Tasks : ~WaitsForAnswer(t, u))
===============================================================================
