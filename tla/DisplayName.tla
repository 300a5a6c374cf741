---------------------------- MODULE DisplayName ----------------------------
(***************************************************************************)
(* The display name of an account, kept twice.                             *)
(*                                                                         *)
(* ProfileUpdate.updateDisplayName writes the name to the document         *)
(* users/<uid> and to the Auth account, without waiting for either.  It    *)
(* asks FIRAuth for the current user twice, once for each write, and       *)
(* FIRAuth's own queue may replace the user in between.  The document's    *)
(* write goes through the Firestore client's queue for the user; the       *)
(* account's through a queue of the FIRUser object, which runs one task at *)
(* a time.  A new sign-in of the same account is another object, with      *)
(* another queue.                                                          *)
(*                                                                         *)
(* One device is modelled.  Its Firestore client learns of a session at    *)
(* once (WritePipeline has the interleavings), and a document exists       *)
(* before its name is written, as sign-up queues them in this order.       *)
(***************************************************************************)
EXTENDS Naturals, Sequences

CONSTANTS
    Uid,       \* account identifiers
    Object,    \* FIRUser objects; one without tasks can be made anew
    Name,      \* display names
    None,      \* no name, no account, nobody signed in
    MaxTasks,  \* bound: tasks of the object a change is made with
    MaxWrites  \* bound: writes waiting for each account

Change == [uid : Uid, name : Name]

ASSUME DisplayAssumption ==
    /\ None \notin Uid \cup Object \cup Change
    /\ MaxTasks \in Nat /\ MaxWrites \in [Uid -> Nat]

VARIABLES
    account,   \* Auth backend: the account's display name
    doc,       \* Firestore backend: "displayName" of users/<uid>
    current,   \* FIRAuth's current user, an object
    owner,     \* the account an object is about
    tasks,     \* names an object's task queue has still to store
    stage,     \* what its running task waits for, if one is running
    writes,    \* names in the Firestore client's queue of each account
    changing,  \* the call of updateDisplayName between its two writes
    disturbed  \* history: accounts one of whose latest changes was disturbed

vars == <<account, doc, current, owner, tasks, stage, writes, changing,
          disturbed>>

TypeOK ==
    /\ account \in [Uid -> Name \cup {None}]
    /\ doc \in [Uid -> Name \cup {None}]
    /\ current \in Object \cup {None}
    /\ owner \in [Object -> Uid \cup {None}]
    /\ current # None => owner[current] \in Uid
    /\ tasks \in [Object -> Seq(Name)]
    /\ stage \in [Object -> {"idle", "sent", "stored"}]
    /\ writes \in [Uid -> Seq(Name)]
    /\ changing \in Change \cup {None}
    /\ disturbed \in SUBSET Uid

Init ==
    /\ account \in [Uid -> Name \cup {None}]
    /\ doc = account
    /\ current = None
    /\ owner = [o \in Object |-> None]
    /\ tasks = [o \in Object |-> <<>>]
    /\ stage = [o \in Object |-> "idle"]
    /\ writes = [u \in Uid |-> <<>>]
    /\ changing = None
    /\ disturbed = {}

\* u's session is the device's.
SignedIn(u) == current # None /\ owner[current] = u

\* Objects of u other than o that have names to store.
Others(o, u) == {p \in Object \ {o} : owner[p] = u /\ tasks[p] # <<>>}

\* No change of u's name is under way.
Quiet(u) ==
    /\ writes[u] = <<>>
    /\ \A o \in Object : owner[o] = u => tasks[o] = <<>>
    /\ changing # None => changing.uid # u

-----------------------------------------------------------------------------
(***************************************************************************)
(* The session.  These happen on FIRAuth's queue, or before                *)
(* updateDisplayName is called: a call of it may be half done.             *)
(***************************************************************************)
\* A sign-in, or a re-authentication, or the keychain is read.
SignIn(o, u) ==
    /\ o # current /\ tasks[o] = <<>> /\ stage[o] = "idle"
    /\ current' = o
    /\ owner' = [owner EXCEPT ![o] = u]
    /\ UNCHANGED <<account, doc, tasks, stage, writes, changing, disturbed>>

\* Logging out, or a token that is refused.
EndSession ==
    /\ current # None
    /\ current' = None
    /\ UNCHANGED <<account, doc, owner, tasks, stage, writes, changing,
                   disturbed>>

\* The process is killed and started again.  The tasks of its objects are
\* lost, a call may be half done; Firestore's queues are on disk.
Relaunch ==
    /\ current' = None
    /\ tasks' = [o \in Object |-> <<>>]
    /\ stage' = [o \in Object |-> "idle"]
    /\ changing' = None
    /\ disturbed' = disturbed
           \cup {u \in Uid : \E o \in Object : owner[o] = u /\ tasks[o] # <<>>}
           \cup {u \in Uid : changing # None /\ changing.uid = u}
    /\ UNCHANGED <<account, doc, owner, writes>>

-----------------------------------------------------------------------------
(***************************************************************************)
(* ProfileUpdate.updateDisplayName.                                        *)
(***************************************************************************)
\* Variant: the uid is unwrapped without the guard.
UpdateDocument_NoGuard(n) ==
    LET u == IF current = None THEN None ELSE owner[current] IN
    /\ changing = None
    /\ changing' = [uid |-> u, name |-> n]
    /\ UNCHANGED <<account, doc, current, owner, tasks, stage, writes,
                   disturbed>>

\* The first half reads the current user for the document's write.  A change
\* made when nothing is under way sets both names, whatever they were.
UpdateDocument(n) ==
    LET u == owner[current] IN
    /\ changing = None
    /\ current # None
    /\ Len(writes[u]) < MaxWrites[u] /\ Len(tasks[current]) < MaxTasks
    /\ writes' = [writes EXCEPT ![u] = Append(@, n)]
    /\ changing' = [uid |-> u, name |-> n]
    /\ disturbed' = IF Quiet(u) THEN disturbed \ {u} ELSE disturbed
    /\ UNCHANGED <<account, doc, current, owner, tasks, stage>>

\* The second half reads it again for the change request: nobody makes no
\* request, and somebody else gets the name.  Tasks of another object of the
\* same account are not waited for.
CommitChanges ==
    LET u == changing.uid IN
    /\ changing # None
    /\ changing' = None
    /\ IF current = None
       THEN UNCHANGED tasks
       ELSE tasks' = [tasks EXCEPT ![current] = Append(@, changing.name)]
    /\ disturbed' = CASE ~SignedIn(u) -> disturbed \cup {u} \cup
                                         {v \in Uid : SignedIn(v)}
                      [] SignedIn(u) /\ Others(current, u) # {} ->
                             disturbed \cup {u}
                      [] OTHER -> disturbed
    /\ UNCHANGED <<account, doc, current, owner, stage, writes>>

-----------------------------------------------------------------------------
(***************************************************************************)
(* executeUserUpdateWithChanges, on the task queue of an object.           *)
(***************************************************************************)
\* The queue is suspended until the task is complete.
StartTask(o) ==
    /\ stage[o] = "idle" /\ tasks[o] # <<>>
    /\ stage' = [stage EXCEPT ![o] = "sent"]
    /\ UNCHANGED <<account, doc, current, owner, tasks, writes, changing,
                   disturbed>>

\* Variant: the tasks of an object run at the same time.
SetAccountInfo_Any(o) ==
    /\ stage[o] = "sent"
    /\ \E i \in DOMAIN tasks[o] :
          /\ account' = [account EXCEPT ![owner[o]] = tasks[o][i]]
          /\ tasks' = [tasks EXCEPT ![o] = SubSeq(@, 1, i - 1) \o
                                           SubSeq(@, i + 1, Len(@))]
    /\ stage' = [stage EXCEPT ![o] = "stored"]
    /\ UNCHANGED <<doc, current, owner, writes, changing, disturbed>>

\* The backend stores the name.
SetAccountInfo(o) ==
    /\ stage[o] = "sent"
    /\ account' = [account EXCEPT ![owner[o]] = Head(tasks[o])]
    /\ tasks' = [tasks EXCEPT ![o] = Tail(@)]
    /\ stage' = [stage EXCEPT ![o] = "stored"]
    /\ UNCHANGED <<doc, current, owner, writes, changing, disturbed>>

\* The answer, its loss, or a keychain that refuses the renewed user: the task
\* is complete in any case.
Complete(o) ==
    /\ stage[o] = "stored"
    /\ stage' = [stage EXCEPT ![o] = "idle"]
    /\ UNCHANGED <<account, doc, current, owner, tasks, writes, changing,
                   disturbed>>

\* Variant: an error returns without completing the task.
Fail_NotComplete(o) ==
    /\ stage[o] = "sent"
    /\ tasks' = [tasks EXCEPT ![o] = Tail(@)]
    /\ stage' = [stage EXCEPT ![o] = "failed"]
    /\ disturbed' = disturbed \cup {owner[o]}
    /\ UNCHANGED <<account, doc, current, owner, writes, changing>>

\* An error before the name is stored: it is only printed, and the task is
\* complete.  A refused token ends the session of the object as well, but not
\* that of a newer object of the account, whose uid is another string.
Fail(o) ==
    /\ stage[o] = "sent"
    /\ tasks' = [tasks EXCEPT ![o] = Tail(@)]
    /\ stage' = [stage EXCEPT ![o] = "idle"]
    /\ \/ UNCHANGED current
       \/ current = o /\ current' = None
    /\ disturbed' = disturbed \cup {owner[o]}
    /\ UNCHANGED <<account, doc, owner, writes, changing>>

-----------------------------------------------------------------------------
(***************************************************************************)
(* The Firestore client sends the writes of the account signed in.         *)
(***************************************************************************)
\* Several writes are sent before the first is acknowledged, and again from the
\* oldest on when a stream has failed: the backend may be at any of them.
Store(u) ==
    /\ SignedIn(u)
    /\ \E i \in DOMAIN writes[u] : doc' = [doc EXCEPT ![u] = writes[u][i]]
    /\ UNCHANGED <<account, current, owner, tasks, stage, changing, disturbed>>

AcknowledgementLost(u) == Store(u) /\ UNCHANGED writes
Acknowledge(u) == Store(u) /\ writes' = [writes EXCEPT ![u] = Tail(@)]

\* The backend refuses the write; nobody hears of it.
RejectBatch(u) ==
    /\ SignedIn(u) /\ writes[u] # <<>>
    /\ writes' = [writes EXCEPT ![u] = Tail(@)]
    /\ disturbed' = disturbed \cup {u}
    /\ UNCHANGED <<account, doc, current, owner, tasks, stage, changing>>

-----------------------------------------------------------------------------
Next ==
    \/ EndSession \/ Relaunch \/ CommitChanges
    \/ \E n \in Name : UpdateDocument(n)
    \/ \E o \in Object : \/ \E u \in Uid : SignIn(o, u)
                         \/ StartTask(o) \/ SetAccountInfo(o)
                         \/ Complete(o) \/ Fail(o)
    \/ \E u \in Uid : Acknowledge(u) \/ AcknowledgementLost(u) \/ RejectBatch(u)

Spec == Init /\ [][Next]_vars

\* A task queue starts its tasks, every request is answered or fails, and
\* Firestore sends a write until it is settled.
FairSpec ==
    /\ Spec
    /\ \A o \in Object : /\ WF_vars(StartTask(o)) /\ WF_vars(Complete(o))
                         /\ WF_vars(SetAccountInfo(o) \/ Fail(o))
    /\ \A u \in Uid : WF_vars(Acknowledge(u) \/ RejectBatch(u))

-----------------------------------------------------------------------------
(***************************************************************************)
(* Properties.                                                             *)
(***************************************************************************)
\* When nothing is under way, document and account have the same name, unless
\* one of the changes since they last agreed was disturbed: by a session that
\* changed between the two writes of updateDisplayName, by tasks of an earlier
\* object of the account, by the end of the process, or by an error of one of
\* the two writes.  Changes that follow each other quickly, lost answers,
\* sign-outs after the call and writes that wait for the next sign-in do not
\* make them differ.
NamesAgree == \A u \in Uid \ disturbed : Quiet(u) => doc[u] = account[u]

\* Once an account stays signed in and its name is no longer changed, nothing
\* remains under way: an error of one task never keeps the next from running.
NamesSettle ==
    \A u \in Uid : <>[](SignedIn(u) /\ changing = None) => <>[]Quiet(u)
=============================================================================
