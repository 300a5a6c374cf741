--------------------------- MODULE WritePipeline ---------------------------
(***************************************************************************)
(* The write path of the Firestore client of one device.                   *)
(*                                                                         *)
(* A call of the app is a task of the client's worker queue: it puts a     *)
(* batch into the mutation queue of the client's current user, and the     *)
(* first batches of that queue into the write pipeline of RemoteStore,     *)
(* which sends them on the write stream.  The stream is opened with a      *)
(* token that FIRAuth hands out for whoever is signed in at that moment;   *)
(* the client hears of a new user later, through the main queue and its    *)
(* worker queue.  Streams end at any time and with everything in flight;   *)
(* the process may end as well, and leaves the mutation queues.            *)
(*                                                                         *)
(* The app never disables the network and never waits for pending writes,  *)
(* so neither is here.                                                     *)
(***************************************************************************)
EXTENDS Integers, Sequences

CONSTANTS
    User,              \* the accounts, and nobody
    Nobody,            \* User::Unauthenticated
    Write,             \* writes, numbered in the order of the calls
    Request,           \* bound: requests for a token under way
    None,              \* no user read yet, or no stream
    kMaxPendingWrites, \* capacity of the write pipeline
    MaxMain,           \* bound: main-queue length at which FIRAuth waits
    MaxWorker          \* bound: worker-queue length at which the app waits

ASSUME PipelineAssumption ==
    /\ Nobody \in User /\ None \notin User
    /\ Write \subseteq Nat \ {0}
    /\ kMaxPendingWrites \in Nat \ {0}
    /\ MaxMain \in Nat /\ MaxWorker \in Nat

VARIABLES
    authUser,     \* FIRAuth's current user
    main,         \* main queue: notifications of users, and tokens
    request,      \* requests for a token
    worker,       \* worker queue: users, tokens, and calls of the app
    called,       \* the last write the app has made
    currentUser,  \* SyncEngine's user, whose mutation queue is in use
    queue,        \* the mutation queues, on disk
    nextBatchId,  \* of the mutation queue in use
    callbacks,    \* mutation_callbacks_: batches whose caller waits
    told,         \* what callers have been told of a write
    pipeline,     \* write_pipeline_
    stream,       \* state_ of the write stream
    conn,         \* grpc_stream_: whose token it has
    handshake,    \* handshake_complete_
    idle,         \* whether the idle timer runs
    wire,         \* requests on their way to the backend
    answers,      \* what the backend has answered
    stored,       \* Firestore backend: the last write applied for a user
    acked,        \* history: batches removed as acknowledged
    rejected      \* history: batches removed as rejected

authVars   == <<authUser, main>>
streamVars == <<stream, conn, handshake, idle, wire, answers>>
storeVars  == <<currentUser, queue, nextBatchId, callbacks>>
fateVars   == <<told, acked, rejected>>
vars == <<authVars, request, worker, called, storeVars, pipeline, streamVars,
          stored, fateVars>>

-----------------------------------------------------------------------------
Batch == [id : Nat \ {0}, write : Write]
Hello == [id |-> 0, write |-> 0]  \* the handshake

\* A request is with FIRAuth ("asked"), FIRAuth has read its user ("read"),
\* its callback is on the main queue, or the stream is to resume.
\* failed: it is to be answered with an error, for one because token_counter
\* has moved.  closed: close_count_ has moved.
NoRequest == [stage |-> "none", user |-> None, failed |-> FALSE,
              closed |-> FALSE]
Asked == [NoRequest EXCEPT !.stage = "asked"]

MainBlock == [kind : {"user"}, user : User] \cup
             [kind : {"token"}, request : Request]
Task == MainBlock \cup [kind : {"write"}, write : Write]

TypeOK ==
    /\ authUser \in User
    /\ main \in Seq(MainBlock)
    /\ request \in [Request -> [stage : {"none", "asked", "read", "main",
                                         "worker"},
                                user : User \cup {None},
                                failed : BOOLEAN, closed : BOOLEAN]]
    /\ worker \in Seq(Task)
    /\ called \in Nat
    /\ currentUser \in User
    /\ queue \in [User -> Seq(Batch)]
    /\ nextBatchId \in Nat \ {0}
    /\ callbacks \in [User -> SUBSET Batch]
    /\ told \in [Write -> {"nothing", "ok", "error"}]
    /\ pipeline \in Seq(Batch)
    /\ stream \in {"Initial", "Starting", "Backoff", "Open", "Error"}
    /\ conn \in User \cup {None}
    /\ handshake \in BOOLEAN
    /\ idle \in BOOLEAN
    /\ wire \in Seq(Batch \cup {Hello})
    /\ answers \in Seq({"hello", "result", "refused"})
    /\ stored \in [User -> Write \cup {0}]
    /\ acked \in [User -> SUBSET Write]
    /\ rejected \in [User -> SUBSET Write]

-----------------------------------------------------------------------------
(***************************************************************************)
(* Filling the pipeline, and starting and closing the stream.              *)
(***************************************************************************)
MinOf(a, b) == IF a < b THEN a ELSE b

\* The place in the queue of the first batch with an id above last.
NextMutationBatch(q, last) ==
    CHOOSE i \in 1..Len(q) + 1 :
        /\ \A j \in 1..i - 1 : q[j].id <= last
        /\ i <= Len(q) => q[i].id > last

LastId(p) == IF p = <<>> THEN -1 ELSE p[Len(p)].id

\* The batches that FillWritePipeline adds to pipeline p.
Added(p, q) ==
    LET first == NextMutationBatch(q, LastId(p))
    IN  SubSeq(q, first, MinOf(Len(q), first + kMaxPendingWrites - Len(p) - 1))

Closed(r) == [k \in Request |-> IF r[k].stage = "none" THEN r[k]
                                ELSE [r[k] EXCEPT !.closed = TRUE]]

\* RequestCredentials.
RequestCredentials(r) ==
    LET free == {k \in Request : r[k].stage = "none"} IN
    /\ free # {}
    /\ request' = [r EXCEPT ![CHOOSE k \in free : TRUE] = Asked]

\* StartWriteStream, if the pipeline that is to be asks for it; s and r are
\* the state of the stream and the requests before.
MaybeStart(p, s, r) ==
    \/ /\ p # <<>> /\ s = "Initial"
       /\ stream' = "Starting"
       /\ RequestCredentials(r)
    \/ /\ p # <<>> /\ s = "Error"
       /\ stream' = "Backoff"
       /\ request' = r
    \/ /\ p = <<>> \/ s \notin {"Initial", "Error"}
       /\ stream' = s
       /\ request' = r

\* Variant: the idle timer goes on when a write is sent.
FillWritePipeline_KeepsIdle(p, q) ==
    LET added == Added(p, q) IN
    /\ pipeline' = p \o added
    /\ wire' = IF stream = "Open" /\ handshake THEN wire \o added ELSE wire
    /\ idle' = (stream = "Open" /\ (p \o added = <<>> \/ idle))
    /\ MaybeStart(p \o added, stream, request)

\* FillWritePipeline, from pipeline p and queue q, while the stream lasts.
FillWritePipeline(p, q) ==
    LET added == Added(p, q) IN
    /\ pipeline' = p \o added
    /\ wire' = IF stream = "Open" /\ handshake THEN wire \o added ELSE wire
    /\ idle' = /\ stream = "Open"
               /\ \/ p \o added = <<>>
                  \/ idle /\ (added = <<>> \/ ~handshake)
    /\ MaybeStart(p \o added, stream, request)

\* Variant: what an ended stream has answered is still to be read.
NoStream_KeepsAnswers ==
    conn' = None /\ handshake' = FALSE /\ idle' = FALSE /\ wire' = <<>>
    /\ UNCHANGED answers

NoStream == /\ conn' = None
            /\ handshake' = FALSE
            /\ idle' = FALSE
            /\ wire' = <<>>
            /\ answers' = <<>>

IsStarted == stream \in {"Starting", "Backoff", "Open"}

\* Variant: the stream goes on.
RestartStreams_KeepsStream(q) ==
    LET p == Added(<<>>, q) IN
    /\ pipeline' = p
    /\ UNCHANGED <<conn, handshake, idle, wire, answers>>
    /\ MaybeStart(p, stream, request)

\* Variant: the pipeline is not cleared.
RestartStreams_KeepsPipeline(q) ==
    LET p == pipeline \o Added(pipeline, q) IN
    /\ pipeline' = p
    /\ NoStream
    /\ MaybeStart(p, IF IsStarted THEN "Initial" ELSE stream,
                  IF IsStarted THEN Closed(request) ELSE request)

\* RemoteStore::HandleCredentialChange: the stream is stopped, the pipeline
\* filled again from queue q.
RestartStreams(q) ==
    LET p == Added(<<>>, q) IN
    /\ pipeline' = p
    /\ NoStream
    /\ MaybeStart(p, IF IsStarted THEN "Initial" ELSE stream,
                  IF IsStarted THEN Closed(request) ELSE request)

\* Variant: nothing starts the stream again.
FailStream_NoRestart(r) ==
    /\ NoStream
    /\ stream' = "Error"
    /\ request' = Closed(r)
    /\ UNCHANGED pipeline

\* The stream has failed: Close, and OnWriteStreamClose for an error that says
\* nothing of a write.
FailStream(r) ==
    /\ NoStream
    /\ MaybeStart(pipeline, "Error", Closed(r))
    /\ UNCHANGED pipeline

-----------------------------------------------------------------------------
(***************************************************************************)
(* FIRAuth, the credentials provider, and the main queue.                  *)
(***************************************************************************)
\* Somebody signs in or out, or the token of the account is refreshed.
ChangeUser(u) ==
    /\ Len(main) < MaxMain
    /\ authUser' = u
    /\ main' = Append(main, [kind |-> "user", user |-> u])
    /\ UNCHANGED <<request, worker, called, storeVars, pipeline, streamVars,
                   stored, fateVars>>

\* getTokenForcingRefresh, on FIRAuth's work queue.
ReadUser(k) ==
    /\ request[k].stage = "asked"
    /\ request' = [request EXCEPT ![k].stage = "read", ![k].user = authUser]
    /\ UNCHANGED <<authVars, worker, called, storeVars, pipeline, streamVars,
                   stored, fateVars>>

\* Its callback, with a token or an error.
TokenCallback(k, error) ==
    /\ request[k].stage = "read"
    /\ Len(main) < MaxMain
    /\ request' = [request EXCEPT ![k].stage = "main",
                                  ![k].failed = @ \/ error]
    /\ main' = Append(main, [kind |-> "token", request |-> k])
    /\ UNCHANGED <<authUser, worker, called, storeVars, pipeline, streamVars,
                   stored, fateVars>>

\* The credentials provider's observer of FIRAuthStateDidChangeInternal-
\* Notification.
Notify ==
    /\ main # <<>> /\ Head(main).kind = "user"
    /\ Len(worker) < MaxWorker
    /\ main' = Tail(main)
    /\ worker' = Append(worker, Head(main))
    /\ request' = [k \in Request |->
                      IF request[k].stage \in {"asked", "read", "main"}
                      THEN [request[k] EXCEPT !.failed = TRUE] ELSE request[k]]
    /\ UNCHANGED <<authUser, called, storeVars, pipeline, streamVars, stored,
                   fateVars>>

\* get_token_callback.
AnswerToken ==
    /\ main # <<>> /\ Head(main).kind = "token"
    /\ Len(worker) < MaxWorker
    /\ main' = Tail(main)
    /\ worker' = Append(worker, Head(main))
    /\ request' = [request EXCEPT ![Head(main).request].stage = "worker"]
    /\ UNCHANGED <<authUser, called, storeVars, pipeline, streamVars, stored,
                   fateVars>>

\* The app adds, sets or updates a document.
AddDocument ==
    /\ Len(worker) < MaxWorker
    /\ called + 1 \in Write
    /\ called' = called + 1
    /\ worker' = Append(worker, [kind |-> "write", write |-> called + 1])
    /\ UNCHANGED <<authVars, request, storeVars, pipeline, streamVars, stored,
                   fateVars>>

-----------------------------------------------------------------------------
(***************************************************************************)
(* Tasks of the worker queue.                                              *)
(***************************************************************************)
Runs(kind) == worker # <<>> /\ Head(worker).kind = kind

\* SyncEngine::WriteMutations.
WriteMutations ==
    LET batch == [id |-> nextBatchId, write |-> Head(worker).write] IN
    /\ Runs("write")
    /\ worker' = Tail(worker)
    /\ queue' = [queue EXCEPT ![currentUser] = Append(@, batch)]
    /\ nextBatchId' = nextBatchId + 1
    /\ callbacks' = IF \E b \in callbacks[currentUser] : b.id = nextBatchId
                    THEN callbacks
                    ELSE [callbacks EXCEPT ![currentUser] = @ \cup {batch}]
    /\ FillWritePipeline(pipeline, queue'[currentUser])
    /\ UNCHANGED <<authVars, called, currentUser, conn, handshake, answers,
                   stored, fateVars>>

\* LoadNextBatchIdFromDb: one more than any id on disk, of all users.
IdsAfter(u) == {queue[u][i].id + 1 : i \in DOMAIN queue[u]}
\* Variant: the id itself.
LoadNextBatchId_NoIncrement ==
    CHOOSE n \in {0} \cup UNION {{m - 1 : m \in IdsAfter(u)} : u \in User} :
        \A u \in User : \A m \in IdsAfter(u) : m - 1 <= n
LoadNextBatchId ==
    CHOOSE n \in {1} \cup UNION {IdsAfter(u) : u \in User} :
        \A u \in User : \A m \in IdsAfter(u) : m <= n

\* SyncEngine::HandleCredentialChange.
HandleCredentialChange ==
    LET u == Head(worker).user IN
    /\ Runs("user")
    /\ worker' = Tail(worker)
    /\ currentUser' = u
    /\ nextBatchId' = IF u = currentUser THEN nextBatchId ELSE LoadNextBatchId
    /\ RestartStreams(queue[u])
    /\ UNCHANGED <<authVars, called, queue, callbacks, stored, fateVars>>

\* ResumeStartWithCredentials, unless the stream was closed meanwhile.
ResumeStart ==
    LET k == Head(worker).request
        dropped == [request EXCEPT ![k] = NoRequest]
    IN  /\ Runs("token")
        /\ worker' = Tail(worker)
        /\ \/ /\ request[k].closed
              /\ request' = dropped
              /\ UNCHANGED <<pipeline, streamVars>>
           \/ /\ ~request[k].closed /\ request[k].failed
              /\ FailStream(dropped)
           \/ /\ ~request[k].closed /\ ~request[k].failed
              /\ conn' = request[k].user
              /\ request' = dropped
              /\ UNCHANGED <<pipeline, stream, handshake, idle, wire, answers>>
        /\ UNCHANGED <<authVars, called, storeVars, stored, fateVars>>

-----------------------------------------------------------------------------
(***************************************************************************)
(* The write stream.                                                       *)
(***************************************************************************)
elsewhere == <<authVars, worker, called, stored>>

\* OnStreamStart and OnWriteStreamOpen: the handshake is sent.
OnWriteStreamOpen ==
    /\ stream = "Starting" /\ conn # None
    /\ stream' = "Open"
    /\ wire' = <<Hello>>
    /\ UNCHANGED <<elsewhere, request, storeVars, pipeline, conn, handshake,
                   idle, answers, fateVars>>

\* Variant: what is in the pipeline is not sent.
OnWriteStreamHandshakeComplete_NoResend ==
    /\ answers # <<>> /\ Head(answers) = "hello"
    /\ answers' = Tail(answers)
    /\ handshake' = TRUE
    /\ UNCHANGED <<elsewhere, request, storeVars, pipeline, stream, conn, idle,
                   wire, fateVars>>

OnWriteStreamHandshakeComplete ==
    /\ answers # <<>> /\ Head(answers) = "hello"
    /\ answers' = Tail(answers)
    /\ handshake' = TRUE
    /\ wire' = wire \o pipeline
    /\ UNCHANGED <<elsewhere, request, storeVars, pipeline, stream, conn, idle,
                   fateVars>>

\* Variant: the callback is kept.
NotifyUser_KeepsCallback(id, verdict) ==
    LET waiting == {b \in callbacks[currentUser] : b.id = id} IN
    /\ told' = [w \in Write |-> IF \E b \in waiting : b.write = w
                                THEN verdict ELSE told[w]]
    /\ UNCHANGED callbacks

\* NotifyUser: of the callback for this id.
NotifyUser(id, verdict) ==
    LET waiting == {b \in callbacks[currentUser] : b.id = id} IN
    /\ callbacks' = [callbacks EXCEPT ![currentUser] = @ \ waiting]
    /\ told' = [w \in Write |-> IF \E b \in waiting : b.write = w
                                THEN verdict ELSE told[w]]

\* RemoveMutationBatch, of a batch that its assertion says is there.
Holds(q, id) == \E i \in DOMAIN q : q[i].id = id
Without(q, id) == LET i == CHOOSE i \in DOMAIN q : q[i].id = id
                  IN  SubSeq(q, 1, i - 1) \o SubSeq(q, i + 1, Len(q))

\* OnWriteStreamMutationResult and SyncEngine::HandleSuccessfulWrite.
OnWriteStreamMutationResult ==
    LET batch == Head(pipeline) IN
    /\ answers # <<>> /\ Head(answers) = "result"
    /\ pipeline # <<>> /\ Holds(queue[currentUser], batch.id)
    /\ answers' = Tail(answers)
    /\ NotifyUser(batch.id, "ok")
    /\ queue' = [queue EXCEPT ![currentUser] = Without(@, batch.id)]
    /\ acked' = [acked EXCEPT ![currentUser] = @ \cup {batch.write}]
    /\ FillWritePipeline(Tail(pipeline), queue'[currentUser])
    /\ UNCHANGED <<elsewhere, currentUser, nextBatchId, conn, handshake,
                   rejected>>

\* The stream ends with a permanent error: OnWriteStreamClose,
\* HandleWriteError, and SyncEngine::HandleRejectedWrite.
HandleWriteError ==
    LET batch == Head(pipeline)
        rest == Without(queue[currentUser], batch.id)
        p == Tail(pipeline) \o Added(Tail(pipeline), rest)
    IN  /\ answers # <<>> /\ Head(answers) = "refused"
        /\ pipeline # <<>> /\ Holds(queue[currentUser], batch.id)
        /\ NotifyUser(batch.id, "error")
        /\ queue' = [queue EXCEPT ![currentUser] = rest]
        /\ rejected' = [rejected EXCEPT ![currentUser] = @ \cup {batch.write}]
        /\ NoStream
        /\ pipeline' = p
        /\ MaybeStart(p, "Initial", Closed(request))
        /\ UNCHANGED <<elsewhere, currentUser, nextBatchId, acked>>

\* The stream ends with another error, or before the handshake.
OnWriteStreamClose ==
    /\ conn # None
    /\ FailStream(request)
    /\ UNCHANGED <<elsewhere, storeVars, fateVars>>

BackoffElapsed ==
    /\ stream = "Backoff"
    /\ stream' = "Starting"
    /\ RequestCredentials(request)
    /\ UNCHANGED <<elsewhere, storeVars, pipeline, conn, handshake, idle, wire,
                   answers, fateVars>>

\* The idle timer stops the stream, and OnWriteStreamClose starts it again if
\* that was wrong, which it asserts it was not.
IdleTimeout ==
    /\ idle
    /\ NoStream
    /\ MaybeStart(pipeline, "Initial", Closed(request))
    /\ UNCHANGED <<elsewhere, storeVars, pipeline, fateVars>>

-----------------------------------------------------------------------------
(***************************************************************************)
(* The backend, for which a stream is over once it has refused a write or  *)
(* the client has closed it, and the end of the process.                   *)
(***************************************************************************)
Refused == \E i \in DOMAIN answers : answers[i] = "refused"

Serve ==
    /\ wire # <<>>
    /\ ~Refused
    /\ wire' = Tail(wire)
    /\ \/ /\ Head(wire) = Hello
          /\ answers' = Append(answers, "hello")
          /\ UNCHANGED stored
       \/ /\ Head(wire) # Hello
          /\ answers' = Append(answers, "result")
          /\ stored' = [stored EXCEPT ![conn] = Head(wire).write]
       \/ /\ Head(wire) # Hello
          /\ answers' = Append(answers, "refused")
          /\ UNCHANGED stored
    /\ UNCHANGED <<authVars, request, worker, called, storeVars, pipeline,
                   stream, conn, handshake, idle, fateVars>>

\* The process ends and starts again.  Firestore may be asked for before FIRAuth
\* has loaded its user, or before it has told of it.
Restart ==
    /\ \/ /\ currentUser' \in {Nobody, authUser}
          /\ main' = <<[kind |-> "user", user |-> authUser]>>
       \/ /\ currentUser' = authUser
          /\ main' = <<>>
    /\ worker' = <<>>
    /\ nextBatchId' = LoadNextBatchId
    /\ callbacks' = [u \in User |-> {}]
    /\ NoStream
    /\ pipeline' = Added(<<>>, queue[currentUser'])
    /\ MaybeStart(pipeline', "Initial", [k \in Request |-> NoRequest])
    /\ UNCHANGED <<authUser, called, queue, stored, fateVars>>

-----------------------------------------------------------------------------
Init ==
    /\ authUser \in User
    /\ main = <<>>
    /\ request = [k \in Request |-> NoRequest]
    /\ worker = <<>>
    /\ called = 0
    /\ currentUser = authUser
    /\ queue = [u \in User |-> <<>>]
    /\ nextBatchId = 1
    /\ callbacks = [u \in User |-> {}]
    /\ told = [w \in Write |-> "nothing"]
    /\ pipeline = <<>>
    /\ stream = "Initial" /\ conn = None
    /\ handshake = FALSE /\ idle = FALSE
    /\ wire = <<>> /\ answers = <<>>
    /\ stored = [u \in User |-> 0]
    /\ acked = [u \in User |-> {}]
    /\ rejected = [u \in User |-> {}]

RunMain == Notify \/ AnswerToken

RunTask == WriteMutations \/ HandleCredentialChange \/ ResumeStart

StreamEvent ==
    \/ OnWriteStreamOpen \/ OnWriteStreamHandshakeComplete
    \/ OnWriteStreamMutationResult \/ HandleWriteError \/ OnWriteStreamClose
    \/ BackoffElapsed \/ IdleTimeout

Next ==
    \/ \E u \in User : ChangeUser(u)
    \/ \E k \in Request : \/ ReadUser(k)
                         \/ \E error \in BOOLEAN : TokenCallback(k, error)
    \/ RunMain \/ AddDocument \/ RunTask \/ StreamEvent \/ Serve \/ Restart

Spec == Init /\ [][Next]_vars

\* The queues of the process run, FIRAuth and the backend answer, and the timer
\* fires.
Fairness ==
    /\ WF_vars(RunMain) /\ WF_vars(RunTask)
    /\ \A k \in Request : WF_vars(ReadUser(k)) /\ WF_vars(TokenCallback(k, FALSE))
    /\ WF_vars(OnWriteStreamOpen) /\ WF_vars(OnWriteStreamHandshakeComplete)
    /\ WF_vars(OnWriteStreamMutationResult) /\ WF_vars(HandleWriteError)
    /\ WF_vars(BackoffElapsed) /\ WF_vars(Serve)

FairSpec == Spec /\ Fairness

-----------------------------------------------------------------------------
(***************************************************************************)
(* Properties.                                                             *)
(***************************************************************************)
InQueue(u, b) == \E i \in DOMAIN queue[u] : queue[u][i] = b

\* The assertions of RemoteStore, Stream, WriteStream and the mutation queue:
\* a result finds the batch it is about in the pipeline and on disk, so does a
\* refusal; a graceful stop of an idle stream loses no write; a token arrives at
\* a stream that starts.
AssertionsHold ==
    /\ (answers # <<>> /\ Head(answers) \in {"result", "refused"}) =>
           /\ handshake
           /\ pipeline # <<>>
           /\ Holds(queue[currentUser], Head(pipeline).id)
    /\ idle => pipeline = <<>>
    /\ (Runs("token") /\ ~request[Head(worker).request].closed) =>
           stream = "Starting" /\ conn = None

\* A stream speaks for the client's current user: no write of one account goes
\* out with the token of another, whatever the order in which FIRAuth, the main
\* queue and the worker queue get to know of a change.
OwnToken == conn # None => conn = currentUser

\* Who waits for a write waits for one that is in the queue, and who was told a
\* verdict was told that of the write.
VerdictsTold ==
    \A u \in User :
        /\ \A b \in callbacks[u] : InQueue(u, b) /\ told[b.write] = "nothing"
        /\ \A w \in Write : /\ told[w] = "ok" => \E v \in User : w \in acked[v]
                            /\ told[w] = "error" =>
                                   \E v \in User : w \in rejected[v]

\* The pipeline is the first part of the mutation queue in use, and as long as
\* it may be.
PipelineIsPrefix ==
    pipeline = SubSeq(queue[currentUser], 1,
                      MinOf(Len(queue[currentUser]), kMaxPendingWrites))

\* How many results are among the answers.
Results == IF Refused THEN Len(answers) - 1 ELSE Len(answers)

Queue == INSTANCE WriteQueue WITH
    queue <- [u \in User |-> [i \in 1..Len(queue[u]) |-> queue[u][i].write]],
    round <- [u \in User |-> IF u = currentUser /\ handshake THEN Results
                             ELSE 0],
    refused <- [u \in User |-> u = currentUser /\ handshake /\ Refused]

\* The client keeps what WriteQueue promises.
KeepsPromise == Queue!Spec

\* In particular: no acknowledged write is undone, not even by the writes that
\* are sent again after a failure.
AcknowledgedStays == Queue!AcknowledgedStays

\* Nothing changes the client's user while the write waits in its queue.
Stuck(u, w) ==
    /\ authUser = u /\ currentUser = u
    /\ \A i \in DOMAIN main : main[i].kind # "user"
    /\ \A i \in DOMAIN worker : worker[i].kind # "user"
    /\ \E i \in DOMAIN queue[u] : queue[u][i].write = w

\* What may go wrong again and again: a token is refused, a stream ends, the
\* process ends.
Fails == \/ \E k \in Request : ~request[k].failed /\ TokenCallback(k, TRUE)
         \/ OnWriteStreamClose
         \/ Restart

\* Once nothing of this happens any more, a write does not wait forever while
\* its user stays signed in: whatever happened before, the stream is started
\* again and the write is sent and settled.
WritesSettle ==
    <>[][~Fails]_vars => \A u \in User, w \in Write : []<>~Stuck(u, w)
=============================================================================
