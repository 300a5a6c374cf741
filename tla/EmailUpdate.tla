---------------------------- MODULE EmailUpdate ----------------------------
(***************************************************************************)
(* The e-mail address of an account, kept twice.                           *)
(*                                                                         *)
(* The Auth backend has the address a person signs in with; the Firestore  *)
(* document users/<uid> has a copy, written by the app after Auth accepted *)
(* a sign-up or a change.  Between the two writes lie a network answer, a  *)
(* block on the main queue that reads the text field and the current user  *)
(* again, and the mutation queue of the Firestore client.  Every settings  *)
(* screen compares its session with the copy and signs out when they       *)
(* differ.                                                                 *)
(*                                                                         *)
(* The field stays editable all the time, so its text when a completion    *)
(* reads it is any text a person could have typed.                         *)
(*                                                                         *)
(* A sign-in, a reload and FIRAuth's work queue are atomic here; module    *)
(* Session has their interleavings.  The Firestore client hears of another *)
(* user in a main-queue block, which names the user of the time it was     *)
(* posted.  A device has one sign-up or change of address under way at a   *)
(* time.                                                                   *)
(***************************************************************************)
EXTENDS Naturals, FiniteSets, SequencesExt

CONSTANTS
    Uid,       \* account identifiers
    Device,    \* devices with the app
    Address,   \* e-mail addresses
    None,      \* no account, no document, or nobody signed in
    Typed,     \* what people type: records [addr, spaced]
    MaxWrites, \* bound: writes of a device in, or about to enter, its queue
    MaxMain,   \* bound: main-queue length at which sign-ins and logouts wait
    MaxEvents  \* bound: main-queue length at which snapshots wait

VARIABLES
    account,   \* Auth backend: the address of an account
    doc,       \* Firestore backend: the "email" of users/<uid>
    user,      \* FIRAuth's current user on each device
    client,    \* the user the device's Firestore client works for
    call,      \* the device's Auth call under way, at most one
    main,      \* blocks on the device's main queue
    writes,    \* the Firestore client's mutation queues
    listening, \* documents a settings screen of the device listens to
    known,     \* the backend's documents in the Firestore client's cache
    disturbed  \* history: accounts one of whose e-mail changes was disturbed

vars == <<account, doc, user, client, call, main, writes, listening, known,
          disturbed>>

-----------------------------------------------------------------------------
\* removeExtraSpaces drops the spaces; an Auth address has none.
Text == [addr : Address, spaced : BOOLEAN]
Plain(a) == [addr |-> a, spaced |-> FALSE]

User  == [uid : Uid, email : Address]
Call  == [by : {"signUp", "update"}, uid : Uid \cup {None}, text : Text,
          object : {"current", "replaced"}, stage : {"sent", "accepted"}]
Ends  == {"signUp", "update"}
\* The completions, the events of users/<uid>, and the user FIRAuth tells the
\* Firestore client.
Block == [by : Ends \cup {"snapshot"}, uid : Uid, text : Text]
         \cup [by : {"user"}, uid : Uid \cup {None}]
\* owner: whose mutation queue; op: setData, or updateData.
Write == [owner : Uid \cup {None}, uid : Uid, text : Text,
          op : {"set", "update"}]

ASSUME EmailAssumption ==
    /\ None \notin Uid \cup Address \cup User \cup Call
    /\ Typed \subseteq Text
    /\ MaxWrites \in [Device -> Nat] /\ MaxMain \in Nat /\ MaxEvents \in Nat

TypeOK ==
    /\ account \in [Uid -> Address \cup {None}]
    /\ doc \in [Uid -> Text \cup {None}]
    /\ user \in [Device -> User \cup {None}]
    /\ client \in [Device -> Uid \cup {None}]
    /\ call \in [Device -> Call \cup {None}]
    /\ main \in [Device -> Seq(Block)]
    /\ writes \in [Device -> Seq(Write)]
    /\ listening \in [Device -> SUBSET Uid]
    /\ known \in [Device -> [Uid -> Text \cup {None}]]
    /\ disturbed \in SUBSET Uid

UidOf(session) == IF session = None THEN None ELSE session.uid

\* The blocks of the main queue that end a sign-up or a change.
Completions(d) == {i \in DOMAIN main[d] : main[d][i].by \in Ends}

\* Nothing about u's address is under way on device d.
Quiet(d, u) ==
    /\ call[d] # None => call[d].uid # u
    /\ \A i \in Completions(d) : main[d][i].uid # u
    /\ \A i \in DOMAIN writes[d] : writes[d][i].uid # u

Init ==
    /\ account \in [Uid -> Address \cup {None}]
    /\ \A u, v \in Uid : account[u] = account[v] /\ account[u] # None => u = v
    /\ doc = [u \in Uid |-> IF account[u] = None THEN None
                            ELSE Plain(account[u])]
    /\ user = [d \in Device |-> None]
    /\ client = [d \in Device |-> None]
    /\ call = [d \in Device |-> None]
    /\ main = [d \in Device |-> <<>>]
    /\ writes = [d \in Device |-> <<>>]
    /\ listening = [d \in Device |-> {}]
    /\ known = [d \in Device |-> [u \in Uid |-> None]]
    /\ disturbed = {}

-----------------------------------------------------------------------------
(***************************************************************************)
(* The session, in as much detail as e-mail changes need.                  *)
(***************************************************************************)
\* The notification that carries the user to the Firestore client.
UserChange(session) == [by |-> "user", uid |-> UidOf(session)]

\* A new FIRUser object: a call on the previous one goes on without it, and the
\* Firestore client is told behind the blocks of queue.
Replace(d, session, queue) ==
    /\ user' = [user EXCEPT ![d] = session]
    /\ call' = IF call[d] = None THEN call
               ELSE [call EXCEPT ![d].object = "replaced"]
    /\ main' = [main EXCEPT ![d] = Append(queue, UserChange(session))]

\* Signing in, or emailRowPressed's re-authentication, in place of whoever is
\* signed in.
SignIn(d, u) ==
    /\ account[u] # None
    /\ Len(main[d]) < MaxMain
    /\ Replace(d, [uid |-> u, email |-> account[u]], main[d])
    /\ UNCHANGED <<account, doc, client, writes, listening, known, disturbed>>

LogoutPressed(d) ==
    /\ user[d] # None
    /\ Len(main[d]) < MaxMain
    /\ Replace(d, None, main[d])
    /\ UNCHANGED <<account, doc, client, writes, listening, known, disturbed>>

\* The settings screen attaches its listener and reloads the user.
OpenSettings(d) ==
    /\ user[d] # None
    /\ listening' = [listening EXCEPT ![d] = @ \cup {user[d].uid}]
    /\ user' \in {user, [user EXCEPT ![d].email = account[user[d].uid]]}
    /\ UNCHANGED <<account, doc, client, call, main, writes, known, disturbed>>

\* The process ends, by a kill or by a failed force unwrap, and starts again:
\* the keychain and Firestore's cache and queues survive.  The Firestore client
\* may be created before FIRAuth has read the keychain and announces its user.
Crash(d) ==
    /\ call' = [call EXCEPT ![d] = None]
    /\ client' = [client EXCEPT ![d] = None]
    /\ main' = [main EXCEPT ![d] = IF user[d] = None THEN <<>>
                                   ELSE <<UserChange(user[d])>>]
    /\ listening' = [listening EXCEPT ![d] = {}]
    /\ disturbed' = disturbed \cup {main[d][i].uid : i \in Completions(d)}
           \cup {u \in Uid : call[d] # None /\ call[d].uid = u
                                            /\ call[d].stage = "accepted"}
    /\ UNCHANGED <<account, doc, user, writes, known>>

-----------------------------------------------------------------------------
(***************************************************************************)
(* Auth: sign-up and change of address.                                    *)
(***************************************************************************)
Submit(d, c) ==
    /\ call[d] = None
    /\ Cardinality(Completions(d)) + Len(writes[d]) < MaxWrites[d]
    /\ call' = [call EXCEPT ![d] = c]
    /\ UNCHANGED <<account, doc, user, client, main, writes, listening, known>>

\* signUpButtonPressed.
SignUpPressed(d, t) ==
    /\ user[d] = None
    /\ Submit(d, [by |-> "signUp", uid |-> None, text |-> t,
                  object |-> "current", stage |-> "sent"])
    /\ UNCHANGED disturbed

\* updateEmailPressed, on the FIRUser the screen was created with.  A change
\* that starts while another device's is under way disturbs it.
UpdateEmailPressed(d, t) ==
    /\ user[d] # None
    /\ \E object \in {"current", "replaced"} :
          Submit(d, [by |-> "update", uid |-> user[d].uid, text |-> t,
                     object |-> object, stage |-> "sent"])
    /\ disturbed' = IF \A e \in Device \ {d} : Quiet(e, user[d].uid)
                    THEN disturbed
                    ELSE disturbed \cup {user[d].uid}

\* The backend accepts an address no other account has; createUser sends it
\* without spaces, updateEmail as it was typed.
Accept(d) ==
    LET c == call[d] IN
    /\ c # None /\ c.stage = "sent"
    /\ \E u \in Uid :
          /\ \A v \in Uid \ {u} : account[v] # c.text.addr
          /\ \/ c.by = "signUp" /\ account[u] = None
             \/ c.by = "update" /\ c.uid = u /\ ~c.text.spaced
          /\ account' = [account EXCEPT ![u] = c.text.addr]
          /\ call' = [call EXCEPT ![d].stage = "accepted", ![d].uid = u]
    /\ UNCHANGED <<doc, user, client, main, writes, listening, known, disturbed>>

\* An error: refused, or accepted and the answer lost, or the keychain fails
\* after the FIRUser has its new address.  The screens only show it.
Fail(d) ==
    LET c == call[d] IN
    /\ c # None
    /\ call' = [call EXCEPT ![d] = None]
    /\ \/ UNCHANGED user
       \/ /\ c.by = "update" /\ c.object = "current" /\ c.stage = "accepted"
          /\ user' = [user EXCEPT ![d].email = c.text.addr]
    /\ disturbed' = IF c.stage = "sent" THEN disturbed
                    ELSE disturbed \cup {c.uid}
    /\ UNCHANGED <<account, doc, client, main, writes, listening, known>>

\* The answer: FIRAuth changes the session, and queues the completion.  A new
\* account's user is announced before that; a change of address may announce
\* the user again, which the client knows or is about to hear.
Answer(d) ==
    LET c == call[d]
        session == [uid |-> c.uid, email |-> c.text.addr]
        queue == IF c.by = "signUp" THEN Append(main[d], UserChange(session))
                 ELSE main[d]
    IN
    /\ c # None /\ c.stage = "accepted"
    /\ call' = [call EXCEPT ![d] = None]
    /\ main' = [main EXCEPT ![d] = Append(queue,
                   [by |-> c.by, uid |-> c.uid, text |-> c.text])]
    /\ user' = IF c.by = "signUp" \/ c.object = "current"
               THEN [user EXCEPT ![d] = session] ELSE user
    /\ UNCHANGED <<account, doc, client, writes, listening, known, disturbed>>

-----------------------------------------------------------------------------
(***************************************************************************)
(* Blocks on the main queue.                                               *)
(***************************************************************************)
\* The client's view of a document: the last of its user's pending writes to
\* it, else the version in the cache.
View(d, u, version) ==
    LET own == {i \in DOMAIN writes[d] : /\ writes[d][i].uid = u
                                        /\ writes[d][i].owner = client[d]}
        exists == version # None \/ \E i \in own : writes[d][i].op = "set"
    IN  IF own # {} /\ exists THEN writes[d][Max(own)].text ELSE version

Runs(d, by) == main[d] # <<>> /\ Head(main[d]).by = by

\* The notification's observer: the client swaps its mutation queue.
CredentialChange(d) ==
    /\ Runs(d, "user")
    /\ client' = [client EXCEPT ![d] = Head(main[d]).uid]
    /\ main' = [main EXCEPT ![d] = Tail(@)]
    /\ UNCHANGED <<account, doc, user, call, writes, listening, known, disturbed>>

\* The completion writes t, the text now in the field, to users/<uid>, in the
\* queue of the user the client works for.
WriteEmail(d, uid, t, op) ==
    /\ main' = [main EXCEPT ![d] = Tail(@)]
    /\ writes' = [writes EXCEPT ![d] = Append(@,
                     [owner |-> client[d], uid |-> uid, text |-> t, op |-> op])]
    /\ UNCHANGED <<account, doc, user, client, call, listening, known>>

\* createUser's completion, with the spaces that were not sent to Auth.
SignUpCompletion(d) ==
    LET b == Head(main[d]) IN
    /\ Runs(d, "signUp")
    /\ \E t \in Typed :
          /\ WriteEmail(d, b.uid, t, "set")
          /\ disturbed' = IF client[d] = b.uid /\ t = Plain(b.text.addr)
                          THEN disturbed ELSE disturbed \cup {b.uid}

\* updateEmail's completion, for the document of whoever is signed in now.
UpdateEmailCompletion(d) ==
    LET b == Head(main[d]) IN
    /\ Runs(d, "update")
    /\ user[d] # None
    /\ \E t \in Typed :
          /\ WriteEmail(d, user[d].uid, t, "update")
          /\ disturbed' = IF /\ user[d].uid = b.uid /\ client[d] = b.uid
                             /\ t = b.text
                          THEN disturbed
                          ELSE disturbed \cup {b.uid, user[d].uid}

\* ProfileUpdate.updateEmail unwraps userId! of nobody.
UpdateEmailCrash(d) ==
    /\ Runs(d, "update")
    /\ user[d] = None
    /\ Crash(d)

\* Variant: checkForEmailUpdate only shows the address.
EmailSnapshot_NoLogout(d) ==
    /\ Runs(d, "snapshot")
    /\ main' = [main EXCEPT ![d] = Tail(@)]
    /\ UNCHANGED <<account, doc, user, client, call, writes, listening, known,
                   disturbed>>

\* checkForEmailUpdate's listener; nobody is signed out when nobody is in.
EmailSnapshot(d) ==
    /\ Runs(d, "snapshot")
    /\ IF user[d] = None \/ Head(main[d]).text = Plain(user[d].email)
       THEN main' = [main EXCEPT ![d] = Tail(@)] /\ UNCHANGED <<user, call>>
       ELSE Replace(d, None, Tail(main[d]))
    /\ UNCHANGED <<account, doc, client, writes, listening, known, disturbed>>

-----------------------------------------------------------------------------
(***************************************************************************)
(* The Firestore client.                                                   *)
(***************************************************************************)
\* Variant: without the guard on document.data().
Emit_Missing(d, u, t) ==
    /\ u \in listening[d]
    /\ Len(main[d]) < MaxEvents
    /\ main' = [main EXCEPT ![d] = Append(@,
                   [by |-> "snapshot", uid |-> u, text |-> t])]

\* An event; the listener returns early when the document has no data.
Emit(d, u, t) ==
    /\ u \in listening[d]
    /\ t # None
    /\ Len(main[d]) < MaxEvents
    /\ main' = [main EXCEPT ![d] = Append(@,
                   [by |-> "snapshot", uid |-> u, text |-> t])]

\* A listener is attached, a pending write is seen at once, the mutation
\* queue is swapped for another user's, or another field has changed.
EmitView(d, u) ==
    /\ Emit(d, u, View(d, u, known[d][u]))
    /\ UNCHANGED <<account, doc, user, client, call, writes, listening, known,
                   disturbed>>

\* The backend's version arrives.
Sync(d, u) ==
    /\ known[d][u] # doc[u]
    /\ known' = [known EXCEPT ![d][u] = doc[u]]
    /\ Emit(d, u, View(d, u, doc[u]))
    /\ UNCHANGED <<account, doc, user, client, call, writes, listening, disturbed>>

\* Variant: the newest write is sent first.
NextWrite_Newest(d) ==
    {i \in DOMAIN writes[d] :
        /\ writes[d][i].owner = client[d]
        /\ \A j \in i + 1..Len(writes[d]) : writes[d][j].owner # client[d]}

\* The write to send: the oldest in the queue of the client's user.
NextWrite(d) ==
    {i \in DOMAIN writes[d] :
        /\ writes[d][i].owner = client[d]
        /\ \A j \in 1..i - 1 : writes[d][j].owner # client[d]}

\* The backend applies a write, which leaves the queue when the acknowledgement
\* arrives: if that is lost, it is sent again.  Or it refuses the write for
\* good, as an update of a document that is not there, and the client drops it;
\* nobody is told.
Deliver(d) ==
    \E i \in NextWrite(d) :
        LET w == writes[d][i]
            dequeued == [writes EXCEPT ![d] = RemoveAt(@, i)]
        IN
        /\ \/ /\ w.op = "set" \/ doc[w.uid] # None
              /\ doc' = [doc EXCEPT ![w.uid] = w.text]
              /\ \/ /\ writes' = dequeued
                    /\ known' = IF w.op = "set" \/ known[d][w.uid] # None
                                THEN [known EXCEPT ![d][w.uid] = w.text]
                                ELSE known
                 \/ UNCHANGED <<writes, known>>
              /\ UNCHANGED disturbed
           \/ /\ writes' = dequeued
              /\ disturbed' = disturbed \cup {w.uid}
              /\ UNCHANGED <<doc, known>>
        /\ UNCHANGED <<account, user, client, call, main, listening>>

-----------------------------------------------------------------------------
RunMain(d) == \/ CredentialChange(d) \/ SignUpCompletion(d) \/ UpdateEmailCompletion(d)
              \/ UpdateEmailCrash(d) \/ EmailSnapshot(d)

Next ==
    \E d \in Device :
        \/ RunMain(d)
        \/ Accept(d) \/ Fail(d) \/ Answer(d) \/ Deliver(d) \/ Crash(d)
        \/ LogoutPressed(d) \/ OpenSettings(d)
        \/ \E u \in Uid : SignIn(d, u) \/ EmitView(d, u) \/ Sync(d, u)
        \/ \E t \in Typed : SignUpPressed(d, t) \/ UpdateEmailPressed(d, t)

Spec == Init /\ [][Next]_vars

\* The main queue runs; Firestore retries a write and a listen until they
\* succeed.
FairSpec ==
    /\ Spec
    /\ \A d \in Device :
          /\ WF_vars(RunMain(d))
          /\ \A u \in Uid : SF_vars(Sync(d, u))

-----------------------------------------------------------------------------
(***************************************************************************)
(* Properties.                                                             *)
(***************************************************************************)
\* When nothing is under way, the document's copy is the address of the
\* account, unless a change was disturbed: by one on another device, by an
\* error after Auth had accepted, by the end of the process, by another edit of
\* the field, by spaces, by another or no session at the completion, by a
\* Firestore client that works for another user then, or by a backend that
\* refuses the write.  UpdateEmailViewController and SignUpViewController have
\* no other way to make the two differ: not by losing an acknowledgement, by
\* signing out or replacing the session before the write is sent, or by
\* changing the address again.
Agreement ==
    \A u \in Uid \ disturbed : (\A d \in Device : Quiet(d, u)) =>
        doc[u] = IF account[u] = None THEN None ELSE Plain(account[u])

\* The session of a device that listens to its account's document has another
\* address than the document, which has changed since the device last heard of
\* it, and the device has no writes of its own in between.
Stale(d, u) ==
    /\ u \in listening[d]
    /\ UidOf(user[d]) = u
    /\ doc[u] # None
    /\ doc[u] # Plain(user[d].email)
    /\ known[d][u] # doc[u]
    /\ writes[d] = <<>>

\* checkForEmailUpdate ends such a session, unless the two addresses come to
\* agree first, the document changes again, the device writes it itself, or its
\* process ends.
StaleSessionEnds ==
    \A d \in Device, u \in Uid, t \in Text :
        Stale(d, u) /\ doc[u] = t ~> \/ UidOf(user[d]) # u
                                    \/ t = Plain(user[d].email)
                                    \/ doc[u] # t
                                    \/ writes[d] # <<>>
                                    \/ u \notin listening[d]
=============================================================================
