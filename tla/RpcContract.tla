------------------------------ MODULE RpcContract ------------------------------
(* What the JSON-RPC server (lsp-async-stub) promises its client, told by what    *)
(* the client can see: the messages it sent, their answers, and how the server    *)
(* ended.  RpcServer implements it.                                               *)
(*                                                                              *)
(* A request has the number of its message for an id; answers may also go to ids  *)
(* that are nobody's.                                                            *)
EXTENDS Naturals, Sequences

CONSTANTS
    Kinds,      \* the kinds of messages
    Results,    \* the kinds of answers
    Nobody      \* the ids that no message has

VARIABLES
    sent,       \* the kinds of the messages, in order
    working,    \* the requests whose handlers run
    answers,    \* the answers, in order: [id, result]
    server      \* "running", or how it ended: "ok", "failed"

contract == <<sent, working, answers, server>>

Asked == {t \in 1..Len(sent) : sent[t] \in {"initialize", "work", "unknown", "shutdown"}}
Answered(t) == \E i \in 1..Len(answers) : answers[i].id = t

\* An initialize request counts whether it succeeded or not.
Initialized ==
    \E t \in 1..Len(sent), i \in 1..Len(answers) :
        /\ sent[t] = "initialize"
        /\ answers[i].id = t /\ answers[i].result \in {"success", "error"}
AfterShutdown(t) == \E s \in 1..Len(sent) : s < t /\ sent[s] = "shutdown"

Init == sent = <<>> /\ working = {} /\ answers = <<>> /\ server = "running"

Send ==
    /\ server = "running" /\ Len(sent) + 1 \notin Nobody
    /\ \E kind \in Kinds : sent' = Append(sent, kind)
    /\ UNCHANGED <<working, answers, server>>

Answer(id, result) == answers' = Append(answers, [id |-> id, result |-> result])

Waits(t) == server = "running" /\ t \in Asked \ working /\ ~Answered(t)

\* Requests sent after a shutdown request are refused, and so are those that find
\* no initialized server or no handler.
Reason(t) ==
    CASE AfterShutdown(t) -> "shutting_down"
      [] ~AfterShutdown(t) /\ ~Initialized -> "not_initialized"
      [] OTHER -> "method_not_found"

Refuse(t) ==
    /\ Waits(t)
    /\ \/ AfterShutdown(t)
       \/ ~Initialized /\ sent[t] \in {"work", "unknown"}
       \/ sent[t] = "unknown"
    /\ Answer(t, Reason(t))
    /\ UNCHANGED <<sent, working, server>>

\* No handler starts on any other request.
Start(t) ==
    /\ Waits(t) /\ ~AfterShutdown(t)
    /\ sent[t] = "initialize" \/ (sent[t] = "work" /\ Initialized)
    /\ working' = working \cup {t}
    /\ UNCHANGED <<sent, answers, server>>

Complete(t) ==
    /\ server = "running" /\ t \in working
    /\ \E result \in {"success", "error"} : Answer(t, result)
    /\ working' = working \ {t}
    /\ UNCHANGED <<sent, server>>

Shutdown(t) ==
    /\ Waits(t) /\ ~AfterShutdown(t) /\ sent[t] = "shutdown"
    /\ Answer(t, IF Initialized THEN "success" ELSE "not_initialized")
    /\ UNCHANGED <<sent, working, server>>

AnswerNobody ==
    /\ server = "running"
    /\ \E id \in Nobody, result \in Results : Answer(id, result)
    /\ UNCHANGED <<sent, working>>

\* A server whose client has the answer to a shutdown request ends in order.
End ==
    /\ server = "running"
    /\ \/ server' = "ok"
       \/ server' = "failed" /\ \A t \in Asked : sent[t] = "shutdown" => ~Answered(t)
    /\ UNCHANGED <<sent, working>>

Next ==
    \/ Send
    \/ \E t \in Asked : Refuse(t) \/ Start(t) \/ Complete(t) \/ Shutdown(t)
    \/ AnswerNobody /\ UNCHANGED server
    \/ End /\ UNCHANGED answers
    \/ End /\ AnswerNobody

Spec == Init /\ [][Next]_contract

-------------------------------------------------------------------------------
(* What the client can rely on (proved in RpcContract_proof).                  *)

\* No request is answered twice.
AnsweredOnce ==
    \A i, j \in 1..Len(answers) :
        answers[i].id = answers[j].id /\ answers[i].id \notin Nobody => i = j

\* No handler runs for a request that has its answer, or that came after a shutdown
\* request.
WorkIsWanted == \A t \in working : ~Answered(t) /\ ~AfterShutdown(t)
===============================================================================
