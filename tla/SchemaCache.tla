------------------------------ MODULE SchemaCache ------------------------------
(* The schemas of one workspace (taplo_common::schema): how a document is      *)
(* validated against the schema at a URL, where that schema comes from, and    *)
(* how long it is kept, in memory (schemas and compiled validators, each in an *)
(* LRU cache) and on disk.                                                     *)
(*                                                                             *)
(* Calls run concurrently on one thread; one action is the run of a call from  *)
(* one wait (a file, a permit, an HTTP request) to the next.  Time passes      *)
(* between the actions.  A schema is the version the origin had when it was    *)
(* fetched.                                                                    *)
EXTENDS Naturals, Sequences, FiniteSets

CONSTANTS
    Urls,            \* the schemas
    CallKinds,       \* "validate" (a document), "load" (hover, completion)
    Outcomes,        \* of a fetch: "ok", "failed"
    CachePaths,      \* whether there may be a cache directory, or none
    MemoryTime,      \* memory_expiration
    DiskTime,        \* disk_expiration
    MaxSchemas,      \* capacity of the schemas in memory
    MaxValidators,   \* capacity of the validators
    MaxPermits,      \* concurrent_requests
    MaxActive,       \* calls that run at a time
    MaxCalls,        \* bound: the calls made
    MaxTime,         \* bound: the clock
    MaxVersion,      \* bound: the versions of a schema
    MaxRestarts      \* bound: the times the process ends and starts

Calls == 1..MaxCalls

ASSUME CacheAssumption ==
    /\ Urls # {}
    /\ CallKinds \subseteq {"validate", "load"}
    /\ Outcomes \subseteq {"ok", "failed"}
    /\ CachePaths \subseteq BOOLEAN
    /\ MemoryTime \in Nat /\ DiskTime \in Nat
    /\ {MaxSchemas, MaxValidators, MaxPermits, MaxActive} \subseteq Nat \ {0}
    /\ {MaxCalls, MaxTime, MaxVersion, MaxRestarts} \subseteq Nat

VARIABLES
    clock,
    version,         \* of each schema, the latest that anyone fetched
    \* memory
    lru_expires_by,  \* the timer of the schemas and of the validators
    schemas,         \* the schemas, most recently used first
    validators,      \* the validators, likewise
    permits,
    \* files
    cache_path,      \* whether there is a cache directory
    disk,            \* the readable copy in each schema's file, if any
    \* the calls
    call,
    restarts

memory == <<lru_expires_by, schemas, validators, permits>>
origin == <<clock, version>>
files == <<cache_path, disk>>
vars == <<origin, memory, files, call, restarts>>

NoValue == 0

NoCall == [kind |-> "none", url |-> CHOOSE u \in Urls : TRUE, pc |-> "none", now |-> 0,
           value |-> NoValue, from |-> "none", expires_by |-> 0, overlaid |-> FALSE,
           alone |-> TRUE]

\* A new process: nothing in memory, the timer set to its default, which is what
\* memory_expiration is by default.
FreshMemory ==
    /\ lru_expires_by' = clock + MemoryTime
    /\ schemas' = <<>> /\ validators' = <<>>
    /\ permits' = MaxPermits

Init ==
    /\ clock = 0 /\ version = [u \in Urls |-> NoValue]
    /\ lru_expires_by = MemoryTime /\ schemas = <<>> /\ validators = <<>>
    /\ permits = MaxPermits
    /\ cache_path \in CachePaths /\ disk = [u \in Urls |-> {}]
    /\ call = [c \in Calls |-> NoCall]
    /\ restarts = 0

-------------------------------------------------------------------------------
(* LRU caches: sequences of entries, the most recently used first.             *)

Entry(l, u) == {i \in 1..Len(l) : l[i].url = u}

Cached(l, u) == Entry(l, u) # {}

\* At most one entry is for u (proved in SchemaCache_proof).
Place(l, u) == CHOOSE i \in Entry(l, u) : TRUE

Get(l, u) == l[Place(l, u)]

\* The list l with e in front, in place of the entry at p: what was before p is one
\* place further back.
ToFront(l, e, p) ==
    [i \in 1..(IF p > Len(l) THEN p ELSE Len(l)) |->
        CASE i = 1 -> e [] i \in 2..p -> l[i - 1] [] OTHER -> l[i]]

Touch(l, u) == ToFront(l, Get(l, u), Place(l, u))

\* A new entry takes the place of the one it replaces, or else of the one used longest
\* ago when the cache is full.
Put(l, max, u, value) ==
    ToFront(l, [url |-> u, value |-> value],
            IF Cached(l, u) THEN Place(l, u) ELSE IF Len(l) < max THEN Len(l) + 1 ELSE max)

Expired == lru_expires_by < clock

\* lru_expired: who finds the timer run out sets it again.
ResetTimer == lru_expires_by' = IF Expired THEN clock + MemoryTime ELSE lru_expires_by

-------------------------------------------------------------------------------
(* Calls.                                                                      *)

Active == {c \in Calls : call[c].pc \notin {"none", "done"}}

At(c, label) == call[c].pc = label

\* Call c becomes r, and the file of the calls in over was written meanwhile.  It and
\* those that run beside it are not alone.
Replace(c, r, over) ==
    call' = [b \in Calls |->
                IF b = c THEN [r EXCEPT !.alone = @ /\ Active \subseteq {c}]
                ELSE [call[b] EXCEPT !.alone = @ /\ b \notin Active, !.overlaid = @ \/ b \in over]]

Becomes(c, r) == Replace(c, r, {})

Goto(c, label) == Becomes(c, [call[c] EXCEPT !.pc = label])

Done(r) == [r EXCEPT !.pc = "done", !.now = 0, !.expires_by = 0, !.overlaid = FALSE]

Served(r, value, from) == [r EXCEPT !.value = value, !.from = from]

Failed(r) == Done(Served(r, NoValue, "failed"))

\* save: the time the copy expires is set, and a thread will write the file.
Save(r, label) == [r EXCEPT !.pc = label, !.expires_by = clock + DiskTime]

\* load_schema returns to call r, whose value it set; ss and vs are the schemas and
\* validators in memory.  validate stores the schema again, wherever it came from,
\* and then makes a validator of it.
Loaded(c, r, ss, vs) ==
    IF r.kind = "load"
    THEN /\ Becomes(c, Done(r))
         /\ schemas' = ss /\ validators' = vs
    ELSE /\ schemas' = Put(ss, MaxSchemas, r.url, r.value)
         /\ IF cache_path
            THEN Becomes(c, Save(r, "to_rewrite")) /\ validators' = vs
            ELSE /\ Becomes(c, Done(r))
                 /\ validators' = Put(vs, MaxValidators, r.url, r.value)

\* cache.load and what follows it: the schema is in memory, or perhaps in a file, or
\* the call fails here and goes on as otherwise says.
LookUp(c, r, ss, vs, file, otherwise) ==
    IF Cached(ss, r.url)
    THEN Loaded(c, Served(r, Get(ss, r.url).value, "memory"), Touch(ss, r.url), vs)
    ELSE /\ Becomes(c, IF cache_path THEN [r EXCEPT !.pc = file, !.now = clock] ELSE otherwise)
         /\ schemas' = ss /\ validators' = vs

NewCall(c, kind, u) ==
    /\ At(c, "none") /\ \A b \in 1..c - 1 : ~At(b, "none")
    /\ kind \in CallKinds /\ Cardinality(Active) < MaxActive
    /\ UNCHANGED <<origin, permits, files, restarts>>

Request(kind, u) == [NoCall EXCEPT !.kind = kind, !.url = u]

\* validate: the validators go when the timer has run out, and the schemas do not.
Validate(c, u) ==
    LET r == Request("validate", u)
        vs == IF Expired THEN <<>> ELSE validators
    IN  /\ NewCall(c, "validate", u)
        /\ ResetTimer
        /\ IF Cached(vs, u)
           THEN /\ Becomes(c, Done(Served(r, Get(vs, u).value, "validator")))
                /\ validators' = Touch(vs, u) /\ UNCHANGED schemas
           ELSE LookUp(c, r, schemas, vs, "reading", [r EXCEPT !.pc = "waiting"])

\* load_schema: the schemas go, and the validators do not.
Load(c, u) ==
    LET r == Request("load", u)
    IN  /\ NewCall(c, "load", u)
        /\ ResetTimer
        /\ LookUp(c, r, IF Expired THEN <<>> ELSE schemas, validators,
                  "reading", [r EXCEPT !.pc = "waiting"])

\* Mutant: an expired copy does not count either when there is nothing better.
UsableUnexpired(c) == {copy \in disk[call[c].url] : copy.expires_by >= call[c].now}

\* An expired copy counts only after a failed fetch.
Usable(c) ==
    {copy \in disk[call[c].url] : At(c, "reading_expired") \/ copy.expires_by >= call[c].now}

ReadFile(c) ==
    LET r == call[c]
    IN  /\ At(c, "reading") \/ At(c, "reading_expired")
        /\ \/ \E copy \in Usable(c) :
                  Loaded(c, Served(r, copy.value, "disk"),
                         Put(schemas, MaxSchemas, r.url, copy.value), validators)
           \/ /\ Usable(c) = {}
              /\ Becomes(c, IF At(c, "reading") THEN [r EXCEPT !.pc = "waiting"]
                            ELSE Failed(r))
              /\ UNCHANGED <<schemas, validators>>
        /\ UNCHANGED <<origin, lru_expires_by, permits, files, restarts>>

StartFetch(c) ==
    /\ At(c, "waiting") /\ permits > 0
    /\ permits' = permits - 1
    /\ Goto(c, "fetching")
    /\ UNCHANGED <<origin, lru_expires_by, schemas, validators, files, restarts>>

\* Mutant: the permit is not given back.
PermitKept == UNCHANGED permits

PermitDropped == permits' = permits + 1

\* Mutant: a file that exists is not written again.
StoreOnce(c, r) ==
    LET ss == Put(schemas, MaxSchemas, r.url, r.value)
    IN  IF cache_path /\ disk[r.url] = {}
        THEN Becomes(c, Save(r, "to_write")) /\ schemas' = ss /\ UNCHANGED validators
        ELSE Loaded(c, r, ss, validators)

\* cache.store, and what follows it where there is no file to write.
Store(c, r) ==
    LET ss == Put(schemas, MaxSchemas, r.url, r.value)
    IN  IF cache_path
        THEN Becomes(c, Save(r, "to_write")) /\ schemas' = ss /\ UNCHANGED validators
        ELSE Loaded(c, r, ss, validators)

\* The schema is fetched, perhaps in a version that is new since the last fetch, and
\* stored in memory and in its file.
FetchSucceeds(c) ==
    \E v \in {version[call[c].url], version[call[c].url] + 1} \cap 1..MaxVersion :
    /\ At(c, "fetching") /\ "ok" \in Outcomes
    /\ version' = [version EXCEPT ![call[c].url] = v]
    /\ PermitDropped
    /\ Store(c, Served(call[c], v, "origin"))
    /\ UNCHANGED <<clock, lru_expires_by, files, restarts>>

\* The fetch fails, or what came is no JSON: any copy will do.
FetchFails(c) ==
    /\ At(c, "fetching") /\ "failed" \in Outcomes
    /\ PermitDropped
    /\ ResetTimer
    /\ LookUp(c, call[c], IF Expired THEN <<>> ELSE schemas, validators,
              "reading_expired", Failed(call[c]))
    /\ UNCHANGED <<origin, files, restarts>>

\* write_file: the file is truncated first, and written then.
Writing == [to_write |-> "writing", to_rewrite |-> "rewriting"]

TruncateFile(c) ==
    /\ call[c].pc \in DOMAIN Writing
    /\ disk' = [disk EXCEPT ![call[c].url] = {}]
    /\ Goto(c, Writing[call[c].pc])
    /\ UNCHANGED <<origin, memory, cache_path, restarts>>

\* Those who truncated the file before it was written will write over it: when their
\* bytes are fewer, the end of what was there remains.
WriteFile(c) ==
    LET r == call[c]
        copy == [value |-> r.value, expires_by |-> r.expires_by]
        others == {d \in Active \ {c} : call[d].url = r.url /\ call[d].pc \in {"writing", "rewriting"}}
    IN  /\ disk' \in {[disk EXCEPT ![r.url] = {copy}]}
                    \cup (IF r.overlaid THEN {[disk EXCEPT ![r.url] = {}]} ELSE {})
        /\ \/ /\ At(c, "writing") /\ r.kind = "validate"
              /\ schemas' = Put(schemas, MaxSchemas, r.url, r.value)
              /\ Replace(c, [Save(r, "to_rewrite") EXCEPT !.overlaid = FALSE], others)
              /\ UNCHANGED validators
           \/ /\ At(c, "writing") /\ r.kind = "load"
              /\ Replace(c, Done(r), others)
              /\ UNCHANGED <<schemas, validators>>
           \/ /\ At(c, "rewriting")
              /\ validators' = Put(validators, MaxValidators, r.url, r.value)
              /\ Replace(c, Done(r), others)
              /\ UNCHANGED schemas
        /\ UNCHANGED <<origin, lru_expires_by, permits, cache_path, restarts>>

-------------------------------------------------------------------------------
(* The world outside.                                                          *)

Tick == clock < MaxTime /\ clock' = clock + 1 /\ UNCHANGED <<version, memory, files, call, restarts>>

\* The process ends, perhaps in the middle of its work, and another starts.
Restart ==
    /\ restarts < MaxRestarts
    /\ FreshMemory
    /\ call' = [c \in Calls |-> IF c \in Active THEN Done(Served(call[c], NoValue, "aborted"))
                                ELSE call[c]]
    /\ restarts' = restarts + 1
    /\ UNCHANGED <<origin, files>>

Begin == \E c \in Calls, u \in Urls : Validate(c, u) \/ Load(c, u)

Step(c) ==
    \/ ReadFile(c) \/ StartFetch(c) \/ FetchSucceeds(c) \/ FetchFails(c)
    \/ TruncateFile(c) \/ WriteFile(c)

Idle == Active = {} /\ UNCHANGED vars

Next ==
    \/ Begin
    \/ \E c \in Calls : Step(c)
    \/ Tick \/ Restart
    \/ Idle

Spec == Init /\ [][Next]_vars

\* Files are read and written, requests answered or given up (after ten seconds),
\* and permits granted in turn.
FairSpec == Spec /\ \A c \in Calls : WF_vars(Step(c))

-------------------------------------------------------------------------------
(* Properties.                                                                 *)

\* A schema that was once saved is not lost to those who use it one call at a time,
\* in processes that end between their calls: whatever expires, and whether the
\* origin answers or not.  (A call beside another may find the file that the other
\* writes empty, and files overwritten by two calls, or cut short by a crash, stay
\* unreadable.)
SavedSchemasStayUsable ==
    \A b, c \in Calls :
        /\ b < c /\ call[b].url = call[c].url /\ cache_path
        /\ At(b, "done") /\ call[b].value # NoValue /\ call[c].from = "failed"
        => \E d \in 1..c : ~call[d].alone \/ call[d].from = "aborted"

\* What one call at a time keeps in memory is what the next process will find in the
\* file, however often copies expire, fetches fail and processes end: nobody gets an
\* older schema after a newer one by a restart.
MemoryIsOnDisk ==
    \A u \in Urls :
        /\ cache_path /\ Active = {} /\ \A c \in Calls : call[c].alone
        /\ Cached(schemas, u)
        => \E copy \in disk[u] : copy.value = Get(schemas, u).value

\* Every call is answered (the calls are finitely many): permits come back and are
\* enough.
EveryCallAnswered == Active # {} ~> Active = {}

===============================================================================
