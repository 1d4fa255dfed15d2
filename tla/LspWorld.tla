------------------------------- MODULE LspWorld -------------------------------
(* The world of the language server (taplo-lsp): the workspaces behind one     *)
(* fair readers-writer lock, the handlers of the notifications and requests    *)
(* that read and write them, and the diagnostics they publish.                 *)
(*                                                                             *)
(* Every message of the client is handled by a task of its own.  The tasks run *)
(* on one thread (a tokio LocalSet, or the browser's event loop): a task runs  *)
(* until it really has to wait, for the lock, for the client or for a file or  *)
(* a schema, and the others run meanwhile, in the order they were spawned or   *)
(* woken.  The task at the head of that order is the one that runs; one action *)
(* is its run from one use of the lock, or one wait, to the next.              *)
(*                                                                             *)
(* A text is named by the message that carried it, and what the checks find in *)
(* it by the first stage that reports errors.                                  *)
EXTENDS FairRwLock

CONSTANTS
    Docs,           \* the documents the client may open
    Folders,        \* the workspace folders the client may have
    Detached,       \* the default workspace, root:///
    PrefixFolders,  \* for each document the folders whose URL prefixes it, longest first
    InitialFolders, \* the folders named by the initialize request
    Traffic,        \* the kinds of message this client sends
    Texts,          \* the first stage that finds errors in a text
    Filters,        \* the sets of documents a taplo configuration may include
    SchemaOutcomes, \* whether schemas can be had: "validated", "unavailable"
    MaxMessages     \* bound: the messages the client sends

Tasks == 1..MaxMessages
NoText == 0
Closed == 0

Workspaces == Folders \cup {Detached}

Kinds == {"open", "change", "close", "query", "configuration", "initialized",
          "folders", "associate", "associate_pattern"}

ASSUME WorldAssumption ==
    /\ MaxMessages \in Nat
    /\ Detached \notin Folders
    /\ InitialFolders \subseteq Folders
    /\ PrefixFolders \in [Docs -> Seq(Folders)]
    /\ Traffic \subseteq Kinds
    /\ Texts \subseteq {"syntax", "dom", "schema", "none"}
    /\ Filters \subseteq SUBSET Docs /\ Filters # {}
    /\ SchemaOutcomes \subseteq {"validated", "unavailable"}

VARIABLES
    \* the client
    inbox,     \* the messages the server has read, in order
    current,   \* the text of each document in the editor, or Closed
    shown,     \* the diagnostics last published for each document
    \* the executor
    ready,     \* the tasks to poll, in order; the head is the one that runs
    pc,        \* where each task continues
    local,     \* what each task keeps across its waits
    \* the world
    lock,      \* the lock around the workspaces
    folders,   \* the folders that have a workspace
    docs,      \* the text each workspace holds of each document
    included   \* the documents each workspace's configuration includes

client == <<inbox, current>>
world == <<folders, docs, included>>
vars == <<inbox, current, shown, ready, pc, local, lock, folders, docs, included>>

Labels == {"unborn", "store", "remove", "clear", "syntax", "dom", "schema", "validate",
           "answer", "reply", "configure", "initialize", "update", "request", "asked", "response",
           "change_folders", "initialize_added", "associate", "associate_next",
           "associate_pattern", "done"}

\* What the client may send.
Messages ==
    [kind : {"open", "change"}, doc : Docs, errors : Texts]
    \cup [kind : {"close", "associate"}, doc : Docs]
    \cup [kind : {"query"}, doc : Docs, about : 0..MaxMessages]
    \cup [kind : {"folders"}, added : SUBSET Folders, removed : SUBSET Folders]
    \cup [kind : {"configuration", "initialized", "associate_pattern"}]

\* The guards a task may hold: the one of its handler, and the one of a
\* publish_diagnostics it calls.
HandlerGuard(t) == [task |-> t, guard |-> "handler"]
PublishGuard(t) == [task |-> t, guard |-> "publish"]
Guards(T) == [task : T, guard : {"handler", "publish"}]

Diagnostics == [text : 0..MaxMessages, dom : 0..MaxMessages,
                errors : {"none", "syntax", "dom", "schema", "excluded"}]

Cleared == [text |-> NoText, dom |-> NoText, errors |-> "none"]

\* The server answered the initialize request: the workspaces of its folders have
\* their configurations, the default workspace has none yet.
Init ==
    /\ inbox = <<>>
    /\ current = [d \in Docs |-> Closed]
    /\ shown = [d \in Docs |-> Cleared]
    /\ ready = <<>>
    /\ pc = [t \in Tasks |-> "unborn"]
    /\ local = [t \in Tasks |-> [ws |-> Detached, dom |-> NoText, todo |-> {}]]
    /\ lock = NewLock
    /\ folders = InitialFolders
    /\ docs = [w \in Workspaces |-> [d \in Docs |-> NoText]]
    /\ \E filter \in [InitialFolders -> Filters] :
           included = [w \in Workspaces |-> IF w \in InitialFolders THEN filter[w] ELSE Docs]

-------------------------------------------------------------------------------
(* The client.                                                                 *)

\* The loop that reads messages is polled when the tasks woken before had their
\* turn; it spawns a task for every message there is.  Sending a message and
\* reading it are one step: messages stay in order, and until one is read it
\* makes no difference that it was sent.
LoopMayRun == \A i \in 1..Len(ready) : pc[ready[i]] \in {"unborn", "response"}

NextMessage == Len(inbox) + 1

Send(m) ==
    /\ inbox' = Append(inbox, m)
    /\ ready' = Append(ready, NextMessage)

MaySend(kind) == kind \in Traffic /\ Len(inbox) < MaxMessages

OpenDocument(d, e) ==
    /\ MaySend("open") /\ current[d] = Closed
    /\ Send([kind |-> "open", doc |-> d, errors |-> e])
    /\ current' = [current EXCEPT ![d] = NextMessage]

EditDocument(d, e) ==
    /\ MaySend("change") /\ current[d] # Closed
    /\ Send([kind |-> "change", doc |-> d, errors |-> e])
    /\ current' = [current EXCEPT ![d] = NextMessage]

CloseDocument(d) ==
    /\ MaySend("close") /\ current[d] # Closed
    /\ Send([kind |-> "close", doc |-> d])
    /\ current' = [current EXCEPT ![d] = Closed]

\* A request about a position in the text the editor shows at that moment.
AskAboutDocument(d) ==
    /\ MaySend("query") /\ current[d] # Closed
    /\ Send([kind |-> "query", doc |-> d, about |-> current[d]])
    /\ UNCHANGED current

SelectSchema(d) ==
    /\ MaySend("associate") /\ current[d] # Closed
    /\ Send([kind |-> "associate", doc |-> d])
    /\ UNCHANGED current

ChangeFolders ==
    \E added, removed \in SUBSET Folders :
        /\ MaySend("folders") /\ added \cap removed = {} /\ added \cup removed # {}
        /\ Send([kind |-> "folders", added |-> added, removed |-> removed])
        /\ UNCHANGED current

\* Messages that carry nothing the model tells apart.
SendPlain ==
    \E kind \in {"configuration", "initialized", "associate_pattern"} :
        /\ MaySend(kind)
        /\ Send([kind |-> kind])
        /\ UNCHANGED current

ClientSends ==
    /\ LoopMayRun
    /\ \/ \E d \in Docs : \/ \E e \in Texts : OpenDocument(d, e) \/ EditDocument(d, e)
                          \/ CloseDocument(d)
                          \/ AskAboutDocument(d)
                          \/ SelectSchema(d)
       \/ ChangeFolders
       \/ SendPlain
    /\ UNCHANGED <<shown, pc, local, lock, world>>

-------------------------------------------------------------------------------
(* The executor.                                                               *)

Kind(t) == inbox[t].kind
Doc(t) == inbox[t].doc

Blocked(t) == Waits(lock, HandlerGuard(t)) \/ Waits(lock, PublishGuard(t))

\* Task t is and stands at label.
Runs(t, label) == ready # <<>> /\ Head(ready) = t /\ pc[t] = label

Goto(t, label) == pc' = [pc EXCEPT ![t] = label]

\* The task runs on to label, waits there, or does one or the other.
Continue(t, label) == Goto(t, label) /\ ready' = ready
Suspend(t, label) == Goto(t, label) /\ ready' = Tail(ready)
MaySuspend(t, label) == Goto(t, label) /\ ready' \in {ready, Tail(ready)}

\* The task spawns another, which begins at label under the same number, and ends.
SpawnAndFinish(t, label, woken) ==
    Goto(t, label) /\ ready' = Append(Tail(ready) \o woken, t)

\* Mutant of Woken: whoever gets the lock is not told.
WokenNobody(g) == <<>>

\* The tasks that get the lock when guard g is dropped, in order.
Woken(g) ==
    [i \in 1..(Len(lock.queue) - Len(Release(lock, g).queue)) |-> lock.queue[i].guard.task]

\* The running task takes guard g of the lock, whose value is l, and goes on to
\* label when it has it; woken are the tasks it woke before.
TakeLock(l, woken, t, g, mode, label) ==
    /\ lock' = Acquire(l, g, mode)
    /\ Goto(t, label)
    /\ ready' = IF Holds(lock', g) THEN ready \o woken ELSE Tail(ready) \o woken

\* The running task drops a guard, and goes on at label or ends.
DropAndContinue(t, g, label) ==
    lock' = Release(lock, g) /\ Goto(t, label) /\ ready' = ready \o Woken(g)

DropAndFinish(t, g) ==
    lock' = Release(lock, g) /\ Goto(t, "done") /\ ready' = Tail(ready) \o Woken(g)

\* It drops a guard and takes one again.
DropAndTake(t, g, h, mode, label) ==
    TakeLock(Release(lock, g), Woken(g), t, h, mode, label)

\* Mutant of HandlerLock: the configuration is loaded with a read guard.
HandlerLockToConfigure ==
    [open |-> "write", change |-> "write", close |-> "write",
     configuration |-> "read", folders |-> "write", query |-> "read",
     associate |-> "read", associate_pattern |-> "read"]

\* How each handler takes the lock, and where it goes on.
HandlerLock == [open |-> "write", change |-> "write", close |-> "write",
                configuration |-> "write", folders |-> "write", query |-> "read",
                associate |-> "read", associate_pattern |-> "read"]

HandlerBody == [open |-> "store", change |-> "store", close |-> "remove",
                configuration |-> "configure", folders |-> "change_folders",
                query |-> "answer", associate |-> "associate",
                associate_pattern |-> "associate_pattern"]

\* The first poll of a task.  The handler of initialized spawns
\* update_configuration and ends.
FirstPoll(t) ==
    /\ Runs(t, "unborn")
    /\ IF Kind(t) = "initialized"
       THEN SpawnAndFinish(t, "update", <<>>) /\ UNCHANGED lock
       ELSE TakeLock(lock, <<>>, t, HandlerGuard(t), HandlerLock[Kind(t)], HandlerBody[Kind(t)])
    /\ UNCHANGED <<client, shown, local, world>>

\* A file was read, or a schema fetched, or neither could be: the task that
\* waits for it is woken.
InputOutput == {"validate", "reply", "initialize", "initialize_added"}

InputOutputDone(t) ==
    /\ pc[t] \in InputOutput
    /\ \A i \in 1..Len(ready) : ready[i] # t
    /\ ready' = Append(ready, t)
    /\ UNCHANGED <<client, shown, pc, local, lock, world>>

-------------------------------------------------------------------------------
(* Diagnostics.                                                                *)

Present == folders \cup {Detached}

\* The workspace of a document: the one with the longest URL that prefixes it.
ByDocument(d) ==
    LET known == {i \in DOMAIN PrefixFolders[d] : PrefixFolders[d][i] \in folders}
    IN  IF known = {} THEN Detached
        ELSE PrefixFolders[d][CHOOSE i \in known : \A j \in known : i <= j]

Errors(text) == inbox[text].errors

Publish(d, text, dom, errors) ==
    shown' = [shown EXCEPT ![d] = [text |-> text, dom |-> dom, errors |-> errors]]

\* The errors of one stage of the text.
ErrorsOf(text, stage) == IF Errors(text) = stage THEN stage ELSE "none"

\* publish_diagnostics returns to its caller: the handler of a document ends,
\* the handler of an association goes on with the next workspace.
ReturnFromPublish(t) ==
    IF Kind(t) = "associate"
    THEN DropAndContinue(t, PublishGuard(t), "associate_next")
    ELSE DropAndFinish(t, PublishGuard(t))

\* The document is gone when publish_diagnostics looks for it.
NothingToPublish(t, label) ==
    /\ Runs(t, label)
    /\ docs[local[t].ws][Doc(t)] = NoText
    /\ ReturnFromPublish(t)
    /\ UNCHANGED <<client, local, world, shown>>

\* A stage that publishes what it finds, and is the last one if it finds any.
PublishStage(t, label, next) ==
    LET d == Doc(t)
        text == docs[local[t].ws][d]
        errors == ErrorsOf(text, label)
    IN  /\ Runs(t, label) /\ text # NoText
        /\ Publish(d, text, text, errors)
        /\ local' = [local EXCEPT ![t].dom = text]
        /\ IF errors # "none"
           THEN ReturnFromPublish(t)
           ELSE DropAndTake(t, PublishGuard(t), PublishGuard(t), "read", next)
        /\ UNCHANGED <<client, world>>

PublishSyntaxErrors(t) ==
    PublishStage(t, "syntax", "dom") \/ NothingToPublish(t, "syntax")

PublishDomErrors(t) ==
    PublishStage(t, "dom", "schema") \/ NothingToPublish(t, "dom")

\* The schema is loaded with the guard held.
ReadForSchema(t) ==
    \/ NothingToPublish(t, "schema")
    \/ /\ Runs(t, "schema")
       /\ docs[local[t].ws][Doc(t)] # NoText
       /\ MaySuspend(t, "validate")
       /\ UNCHANGED <<client, lock, local, world, shown>>

\* The errors are those of the DOM of the stage before, placed in the document
\* as it is now.
PublishSchemaErrors(t) ==
    LET d == Doc(t)
        dom == local[t].dom
    IN  /\ Runs(t, "validate")
        /\ \E outcome \in SchemaOutcomes :
               Publish(d, docs[local[t].ws][d], dom,
                       IF outcome = "validated" THEN ErrorsOf(dom, "schema") ELSE "none")
        /\ ReturnFromPublish(t)
        /\ UNCHANGED <<client, local, world>>

-------------------------------------------------------------------------------
(* Documents.                                                                  *)

\* document_open and document_change: the text is stored and its diagnostics
\* published, or the document is excluded and only that is published.
StoreDocument(t) ==
    LET d == Doc(t)
        w == ByDocument(d)
    IN  /\ Runs(t, "store")
        /\ IF d \in included[w]
           THEN /\ docs' = [docs EXCEPT ![w][d] = t]
                /\ local' = [local EXCEPT ![t].ws = w]
                /\ DropAndTake(t, HandlerGuard(t), PublishGuard(t), "read", "syntax")
                /\ UNCHANGED shown
           ELSE /\ DropAndFinish(t, HandlerGuard(t))
                /\ Publish(d, NoText, NoText, "excluded")
                /\ UNCHANGED <<docs, local>>
        /\ UNCHANGED <<client, folders, included>>

DocumentOpen(t) == pc[t] = "store" /\ Kind(t) = "open" /\ StoreDocument(t)
DocumentChange(t) == pc[t] = "store" /\ Kind(t) = "change" /\ StoreDocument(t)

\* Mutant of DocumentClose: the document stays in its workspace.
DocumentCloseKeepsText(t) ==
    /\ Runs(t, "remove")
    /\ lock' = Release(lock, HandlerGuard(t))
    /\ SpawnAndFinish(t, "clear", Woken(HandlerGuard(t)))
    /\ UNCHANGED <<client, local, shown, world>>

\* document_close: clear_diagnostics is a task of its own, so others may run
\* before it.
DocumentClose(t) ==
    /\ Runs(t, "remove")
    /\ docs' = [docs EXCEPT ![ByDocument(Doc(t))][Doc(t)] = NoText]
    /\ lock' = Release(lock, HandlerGuard(t))
    /\ SpawnAndFinish(t, "clear", Woken(HandlerGuard(t)))
    /\ UNCHANGED <<client, local, shown, folders, included>>

ClearDiagnostics(t) ==
    /\ Runs(t, "clear")
    /\ shown' = [shown EXCEPT ![Doc(t)] = Cleared]
    /\ Suspend(t, "done")
    /\ UNCHANGED <<client, local, lock, world>>

\* A request about a document: it keeps the guard while it loads schemas.
AnswerQuery(t) ==
    /\ Runs(t, "answer")
    /\ local' = [local EXCEPT ![t].dom = docs[ByDocument(Doc(t))][Doc(t)]]
    /\ MaySuspend(t, "reply")
    /\ UNCHANGED <<client, lock, shown, world>>

ReplyToQuery(t) ==
    /\ Runs(t, "reply")
    /\ DropAndFinish(t, HandlerGuard(t))
    /\ UNCHANGED <<client, local, shown, world>>

-------------------------------------------------------------------------------
(* Configuration and workspaces.                                               *)

\* One workspace loads its configuration, which may wait for files, with the
\* write guard held.
InitializeWorkspace(t, label) ==
    /\ Runs(t, label)
    /\ \E w \in local[t].todo, f \in Filters :
           /\ included' = [included EXCEPT ![w] = f]
           /\ local' = [local EXCEPT ![t].todo = @ \ {w}]
    /\ MaySuspend(t, label)
    /\ UNCHANGED <<client, lock, shown, folders, docs>>

ConfigurationChange(t) ==
    /\ Runs(t, "configure")
    /\ local' = [local EXCEPT ![t].todo = Present]
    /\ Continue(t, "initialize")
    /\ UNCHANGED <<client, lock, shown, world>>

\* configuration_change and update_configuration end.
ConfigurationDone(t) ==
    /\ Runs(t, "initialize") /\ local[t].todo = {}
    /\ DropAndFinish(t, HandlerGuard(t))
    /\ UNCHANGED <<client, local, shown, world>>

UpdateConfiguration(t) ==
    /\ Runs(t, "update")
    /\ TakeLock(lock, <<>>, t, HandlerGuard(t), "write", "request")
    /\ UNCHANGED <<client, local, shown, world>>

\* The client is asked for its configuration with the write guard held.
RequestConfiguration(t) ==
    /\ Runs(t, "request")
    /\ Suspend(t, "asked")
    /\ UNCHANGED <<client, local, lock, shown, world>>

\* The client's answer comes, with a configuration for some of the workspaces;
\* it is a message like any other, and its task wakes the one that asked.
ClientAnswers(t) ==
    /\ LoopMayRun /\ pc[t] = "asked"
    /\ \E answered \in SUBSET Present :
           local' = [local EXCEPT ![t].todo = answered]
    /\ Goto(t, "response") /\ ready' = Append(ready, t)
    /\ UNCHANGED <<client, lock, shown, world>>

HandleResponse(t) ==
    /\ Runs(t, "response")
    /\ SpawnAndFinish(t, "initialize", <<>>)
    /\ UNCHANGED <<client, local, lock, shown, world>>

WorkspaceChange(t) ==
    /\ Runs(t, "change_folders")
    /\ folders' = (folders \ inbox[t].removed) \cup inbox[t].added
    /\ docs' = [w \in Workspaces |-> IF w \in inbox[t].removed
                                     THEN [d \in Docs |-> NoText] ELSE docs[w]]
    /\ included' = [w \in Workspaces |-> IF w \in inbox[t].removed
                                         THEN Docs ELSE included[w]]
    /\ local' = [local EXCEPT ![t].todo = inbox[t].added]
    /\ Continue(t, "initialize_added")
    /\ UNCHANGED <<client, lock, shown>>

\* The guard is dropped, and update_configuration called.
WorkspaceChangeDone(t) ==
    /\ Runs(t, "initialize_added") /\ local[t].todo = {}
    /\ DropAndTake(t, HandlerGuard(t), HandlerGuard(t), "write", "request")
    /\ UNCHANGED <<client, local, shown, world>>

-------------------------------------------------------------------------------
(* Schema associations made by the client.                                     *)

\* A schema chosen for one document: publish_diagnostics is called for every
\* workspace in turn, with the handler's read guard held.
AssociateSchema(t) ==
    /\ Runs(t, "associate")
    /\ local' = [local EXCEPT ![t].todo = Present]
    /\ Continue(t, "associate_next")
    /\ UNCHANGED <<client, lock, shown, world>>

AssociateInWorkspace(t) ==
    /\ Runs(t, "associate_next")
    /\ \E w \in local[t].todo :
           local' = [local EXCEPT ![t].ws = w, ![t].todo = @ \ {w}]
    /\ TakeLock(lock, <<>>, t, PublishGuard(t), "read", "syntax")
    /\ UNCHANGED <<client, shown, world>>

AssociateSchemaDone(t) ==
    /\ Runs(t, "associate_next") /\ local[t].todo = {}
    /\ DropAndFinish(t, HandlerGuard(t))
    /\ UNCHANGED <<client, local, shown, world>>

\* A schema for a pattern: no diagnostics are published.
AssociatePattern(t) ==
    /\ Runs(t, "associate_pattern")
    /\ DropAndFinish(t, HandlerGuard(t))
    /\ UNCHANGED <<client, local, shown, world>>

-------------------------------------------------------------------------------

Run(t) ==
    \/ FirstPoll(t)
    \/ DocumentOpen(t) \/ DocumentChange(t) \/ DocumentClose(t) \/ ClearDiagnostics(t)
    \/ PublishSyntaxErrors(t) \/ PublishDomErrors(t)
    \/ ReadForSchema(t) \/ PublishSchemaErrors(t)
    \/ AnswerQuery(t) \/ ReplyToQuery(t)
    \/ ConfigurationChange(t) \/ ConfigurationDone(t)
    \/ UpdateConfiguration(t) \/ RequestConfiguration(t) \/ HandleResponse(t)
    \/ InitializeWorkspace(t, "initialize") \/ InitializeWorkspace(t, "initialize_added")
    \/ WorkspaceChange(t) \/ WorkspaceChangeDone(t)
    \/ AssociateSchema(t) \/ AssociateInWorkspace(t) \/ AssociateSchemaDone(t)
    \/ AssociatePattern(t)

\* Every message sent was handled to the end.
Quiet == \A t \in 1..Len(inbox) : pc[t] = "done"

\* The server waits for the next message, or the client has none left.
Idle == Quiet /\ Len(inbox) = MaxMessages /\ UNCHANGED vars

Next ==
    \/ ClientSends
    \/ \E t \in Tasks : Run(t) \/ InputOutputDone(t) \/ ClientAnswers(t)
    \/ Idle

Spec == Init /\ [][Next]_vars

\* Woken tasks are polled, files and schemas read or given up (a
\* request times out after ten seconds), and the client answers.
Fairness ==
    \A t \in Tasks :
        /\ WF_vars(Run(t))
        /\ WF_vars(InputOutputDone(t))
        /\ WF_vars(ClientAnswers(t))

FairSpec == Spec /\ Fairness

-------------------------------------------------------------------------------
(* Properties.                                                                 *)

LocalState == [ws : Workspaces, dom : 0..MaxMessages, todo : SUBSET Workspaces]

Sent == 1..Len(inbox)

ClientOK ==
    /\ inbox \in Seq(Messages) /\ Len(inbox) <= MaxMessages
    /\ current \in [Docs -> 0..Len(inbox)]
    /\ shown \in [Docs -> Diagnostics]

ExecutorOK ==
    /\ ready \in Seq(Sent)
    /\ pc \in [Tasks -> Labels]
    /\ local \in [Tasks -> LocalState]

WorldOK ==
    /\ lock \in Locks(Guards(Sent)) /\ WellFormed(lock)
    /\ folders \subseteq Folders
    /\ docs \in [Workspaces -> [Docs -> 0..Len(inbox)]]
    /\ included \in [Workspaces -> SUBSET Docs]

\* The values of the variables; the lock is well formed: one writer at most, and
\* then no reader, and nobody waits for a free lock.
TypeOK == ClientOK /\ ExecutorOK /\ WorldOK

\* When every message is handled, the server holds the very text the editor
\* shows of every open document, and none of a closed one: documents are
\* written in the order the client wrote them, whatever waited for the lock.
\* (One folder set, all documents included.)
DocumentsFollowEditor ==
    Quiet => \A d \in Docs : docs[ByDocument(d)][d] = current[d]

\* No workspace ever replaces the text of a document by an older one, whatever
\* folders come and go and whatever the configuration excludes.
TextsNeverGoBack ==
    [][\A w \in Workspaces, d \in Docs :
           docs'[w][d] # NoText => docs'[w][d] >= docs[w][d]]_vars

\* A request is answered from the text the client had when it asked, neither an
\* older nor a newer one: its positions refer to that text.
QueriesSeeTheirText ==
    \A t \in 1..Len(inbox) :
        pc[t] = "reply" => /\ local[t].dom = inbox[t].about
                           /\ docs[ByDocument(Doc(t))][Doc(t)] = inbox[t].about

\* Diagnostics never go back to an older text of an open document.
DiagnosticsNeverGoBack ==
    [][\A d \in Docs : shown'[d] # shown[d] /\ shown'[d].text # NoText
                       => shown'[d].text >= shown[d].text]_vars

\* A document the client closed for good ends without diagnostics, even when
\* publications of its last text were under way.
ClosedIsClear ==
    Quiet => \A d \in Docs : current[d] = Closed => shown[d] = Cleared

\* The tasks never all wait for one another: some holder of the lock can go on.
\* (The lock's holders may wait for the client, a file or a schema.)
LockNeverStuck ==
    lock.queue # <<>> =>
        \E g \in lock.write \cup lock.read : ~Blocked(g.task)

\* Every message is handled to the end.
EveryMessageHandled ==
    \A t \in Tasks : (t <= Len(inbox)) ~> (pc[t] = "done")

\* Every text the client leaves in the editor gets its diagnostics.
EveryTextDiagnosed ==
    \A d \in Docs, t \in Tasks :
        (current[d] = t /\ pc[t] # "done") ~> (current[d] # t \/ shown[d].text = t)

\* The sections of the handlers that need a guard: of the handler, to write or
\* to read, or of publish_diagnostics.
WriteSections == {"store", "remove", "configure", "initialize", "request", "asked",
                  "response", "change_folders", "initialize_added"}
ReadSections == {"answer", "reply", "associate", "associate_next", "associate_pattern"}
PublishSections == {"syntax", "dom", "schema", "validate"}

\* Every section of a handler runs, or waits to run, under the guard it needs: no
\* handler reads or writes the world after it dropped the guard, and none that
\* writes asked only to read.  publish_diagnostics reads under a guard of its own,
\* and called by associate_schema under the guard of that handler as well.
SectionGuard(t) ==
    /\ pc[t] \in WriteSections => Asked(lock, HandlerGuard(t), "write")
    /\ pc[t] \in ReadSections => Asked(lock, HandlerGuard(t), "read")
    /\ pc[t] \in PublishSections =>
           /\ Asked(lock, PublishGuard(t), "read")
           /\ Kind(t) = "associate" => Asked(lock, HandlerGuard(t), "read")

SectionsAreGuarded == \A t \in Tasks : SectionGuard(t)

\* While a task stands in a section that writes and does not wait for the lock,
\* no other task stands in a section that reads or writes, unless it waits: what
\* a handler reads of the world cannot change before it drops its guard, however
\* long it waits for a file, a schema or the client.
WritersAlone ==
    \A t, u \in Tasks :
        t # u /\ pc[t] \in WriteSections /\ ~Blocked(t)
        /\ pc[u] \in WriteSections \cup ReadSections \cup PublishSections
        => Blocked(u)

===============================================================================
