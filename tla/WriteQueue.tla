----------------------------- MODULE WriteQueue -----------------------------
(***************************************************************************)
(* What the Firestore client promises about the writes of a device.        *)
(*                                                                         *)
(* Each user has a queue.  The backend applies a queue from its oldest     *)
(* write on, the client hears of one verdict after the other, and at any   *)
(* time the backend may be sent everything again that the client has not   *)
(* heard of.  A write can be applied more than once, and writes sent again *)
(* can undo newer ones for a while, but never one that was acknowledged.   *)
(*                                                                         *)
(* This is no component of its own: it is the specification that module    *)
(* WritePipeline implements, in the words of SyncEngine's callbacks.       *)
(***************************************************************************)
EXTENDS Integers, Sequences

CONSTANTS
    User,  \* the accounts of the device, and nobody
    Write  \* writes, numbered in the order of the calls

\* The theorems assume it.
WriteAssumption == Write \subseteq Nat \ {0}

VARIABLES
    queue,     \* the writes of a user the client has not heard of
    round,     \* how many of them the backend has applied, this time
    refused,   \* whether the backend refused the one after those
    stored,    \* the last write the backend applied for a user, at first 0
    acked,     \* writes that were acknowledged
    rejected   \* writes that were rejected

vars == <<queue, round, refused, stored, acked, rejected>>

TypeOK ==
    /\ queue \in [User -> Seq(Write)]
    /\ round \in [User -> Nat]
    /\ refused \in [User -> BOOLEAN]
    /\ stored \in [User -> Write \cup {0}]
    /\ acked \in [User -> SUBSET Write]
    /\ rejected \in [User -> SUBSET Write]

Init ==
    /\ queue = [u \in User |-> <<>>]
    /\ round = [u \in User |-> 0]
    /\ refused = [u \in User |-> FALSE]
    /\ stored = [u \in User |-> 0]
    /\ acked = [u \in User |-> {}]
    /\ rejected = [u \in User |-> {}]

-----------------------------------------------------------------------------
\* w comes after every write of u so far.
Newer(u, w) ==
    /\ \A i \in DOMAIN queue[u] : queue[u][i] < w
    /\ \A v \in acked[u] \cup rejected[u] : v < w

Submit(u, w) ==
    /\ Newer(u, w)
    /\ queue' = [queue EXCEPT ![u] = Append(@, w)]
    /\ UNCHANGED <<round, refused, stored, acked, rejected>>

\* The backend applies the next write,
Apply(u) ==
    /\ ~refused[u]
    /\ round[u] < Len(queue[u])
    /\ stored' = [stored EXCEPT ![u] = queue[u][round[u] + 1]]
    /\ round' = [round EXCEPT ![u] = @ + 1]
    /\ UNCHANGED <<queue, refused, acked, rejected>>

\* or refuses it, and stops.
Refuse(u) ==
    /\ ~refused[u]
    /\ round[u] < Len(queue[u])
    /\ refused' = [refused EXCEPT ![u] = TRUE]
    /\ UNCHANGED <<queue, round, stored, acked, rejected>>

\* What the backend said so far is lost.
StartOver(u) ==
    /\ round' = [round EXCEPT ![u] = 0]
    /\ refused' = [refused EXCEPT ![u] = FALSE]
    /\ UNCHANGED <<queue, stored, acked, rejected>>

\* The client hears of the oldest write.
Acknowledge(u) ==
    /\ round[u] > 0
    /\ queue[u] # <<>>
    /\ acked' = [acked EXCEPT ![u] = @ \cup {Head(queue[u])}]
    /\ queue' = [queue EXCEPT ![u] = Tail(@)]
    /\ round' = [round EXCEPT ![u] = @ - 1]
    /\ UNCHANGED <<refused, stored, rejected>>

Reject(u) ==
    /\ refused[u]
    /\ round[u] = 0
    /\ queue[u] # <<>>
    /\ rejected' = [rejected EXCEPT ![u] = @ \cup {Head(queue[u])}]
    /\ queue' = [queue EXCEPT ![u] = Tail(@)]
    /\ refused' = [refused EXCEPT ![u] = FALSE]
    /\ UNCHANGED <<round, stored, acked>>

Next ==
    \E u \in User :
        \/ \E w \in Write : Submit(u, w)
        \/ Apply(u) \/ Refuse(u) \/ StartOver(u) \/ Acknowledge(u) \/ Reject(u)

Spec == Init /\ [][Next]_vars

-----------------------------------------------------------------------------
(***************************************************************************)
(* Properties.                                                             *)
(***************************************************************************)
\* The queue is in the order of the calls, and everything settled is older.
InOrder ==
    \A u \in User :
        /\ \A i, j \in DOMAIN queue[u] : i < j => queue[u][i] < queue[u][j]
        /\ \A i \in DOMAIN queue[u], v \in acked[u] \cup rejected[u] :
              v < queue[u][i]

\* An acknowledged write is not undone: what the backend has is it, or newer.
AcknowledgedStays ==
    \A u \in User : \A w \in acked[u] : w <= stored[u]
=============================================================================
