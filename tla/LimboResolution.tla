-------------------------- MODULE LimboResolution --------------------------
(***************************************************************************)
(* How the Firestore client finds out about documents in limbo.            *)
(*                                                                         *)
(* A document is in limbo for a query when the local cache says that it is *)
(* a result, the backend, up to date, does not, and no write of this       *)
(* device explains it.  SyncEngine then listens for the document itself,   *)
(* for at most max_concurrent_limbo_resolutions documents at a time, and   *)
(* stops when the last query it is in limbo for has let go of it.  The     *)
(* answer puts the document into the cache or deletes it from there.       *)
(*                                                                         *)
(* Every action is one task of the worker queue.  The backend may say      *)
(* anything at any time, and a query that leaves a document out without    *)
(* saying that it is gone is how documents come to be in limbo.  Each      *)
(* query has a target of its own; limits, orders and the documents' data   *)
(* do not matter here.  The number of a limbo target may be used again     *)
(* when nothing refers to it any more.                                     *)
(***************************************************************************)
EXTENDS Naturals, Sequences, FiniteSets, SequencesExt

CONSTANTS
    Target,      \* targets of queries
    Key,         \* document keys, in their order
    Matches,     \* the documents that match a query
    max_concurrent_limbo_resolutions,
    MaxTargets,  \* bound: number of limbo targets at a time
    MaxEnqueued  \* bound: length of the queue of resolutions

ASSUME LimboAssumption ==
    /\ Key \subseteq Nat /\ IsFiniteSet(Key)
    /\ Target \cap Nat = {} /\ IsFiniteSet(Target)
    /\ Matches \in [Target -> SUBSET Key]
    /\ max_concurrent_limbo_resolutions \in Nat \ {0}
    /\ MaxTargets \in Nat /\ MaxEnqueued \in Nat

VARIABLES
    cache,    \* remote document cache: what it has of a document
    pending,  \* documents with a write that is not acknowledged
    synced,   \* synced_documents_, which the target cache keeps
    views,    \* query_views_by_query_
    tracking  \* what SyncEngine and RemoteStore know of resolutions

vars == <<cache, pending, synced, views, tracking>>

\* current: the view is up to date.  limbo: limbo_documents_.  held: documents
\* the view has with a local write.
View == [open : BOOLEAN, current : BOOLEAN, limbo : SUBSET Key,
         held : SUBSET Key]
NoView == [open |-> FALSE, current |-> FALSE, limbo |-> {}, held |-> {}]

\* refs: limbo_document_refs_.  byKey: active_limbo_targets_by_key_, with 0
\* for none.  byTarget: active_limbo_resolutions_by_target_.  watched:
\* listen_targets_.  astray: history, documents that left limbo or came into it
\* once more while they waited for a resolution, and documents whose resolution
\* was rejected while a view that has them in limbo was not up to date.
Records(Id, Queue) ==
    [refs : [Target -> SUBSET Key], enqueued : Queue,
     byKey : [Key -> {0} \cup Id], byTarget : SUBSET [id : Id, key : Key],
     watched : SUBSET (Target \cup Id), astray : SUBSET Key]

\* Between tasks, and during one.
Tracking == Records(1..MaxTargets, BoundedSeq(Key, MaxEnqueued))
Unbounded == Records(Nat, Seq(Key))

TypeOK ==
    /\ cache \in [Key -> {"none", "remote", "committed"}]
    /\ pending \in SUBSET Key
    /\ synced \in [Target -> SUBSET Key]
    /\ views \in [Target -> View]
    /\ tracking \in Tracking

Init ==
    /\ cache \in [Key -> {"none", "remote"}]
    /\ pending = {}
    /\ synced = [t \in Target |-> {k \in Matches[t] : cache[k] = "remote"}]
    /\ views = [t \in Target |-> NoView]
    /\ tracking = [refs |-> [t \in Target |-> {}], enqueued |-> <<>>,
                   byKey |-> [k \in Key |-> 0], byTarget |-> {},
                   watched |-> {}, astray |-> {}]

-----------------------------------------------------------------------------
(***************************************************************************)
(* Starting and ending resolutions.  s is the tracking so far.             *)
(***************************************************************************)
\* What becomes of s when the step is done for one element of q after the other.
Loop(step, s, q) ==
    LET after[n \in 0..Len(q)] ==
            IF n = 0 THEN s ELSE step[<<after[n - 1], q[n]>>]
    IN  after[Len(q)]

Active(s) == {k \in Key : s.byKey[k] # 0}

\* The least number that is free.
Ids(s) == {r.id : r \in s.byTarget} \cup (s.watched \ Target)
\* Variant: numbers from zero.
NextId_FromZero(s) == CHOOSE n \in 0..Cardinality(Ids(s)) :
                 n \notin Ids(s) /\ \A m \in 0..n - 1 : m \in Ids(s)
NextId(s) == CHOOSE n \in 1..Cardinality(Ids(s)) + 1 :
                 n \notin Ids(s) /\ \A m \in 1..n - 1 : m \in Ids(s)

\* One round of the loop: neither map is changed for a key or target it has.
StartResolution(s) ==
    LET key == Head(s.enqueued)
        id == NextId(s)
    IN  [s EXCEPT !.enqueued = Tail(@),
                  !.byTarget = @ \cup {[id |-> id, key |-> key]},
                  !.byKey[key] = IF @ = 0 THEN id ELSE @,
                  !.watched = @ \cup {id}]

\* The loop ends.
Settled(s) == \/ s.enqueued = <<>>
              \/ Cardinality(Active(s)) >= max_concurrent_limbo_resolutions

\* It has at most one round for each document that waits.
PumpEnqueuedLimboResolutions(s) ==
    Loop([p \in Unbounded \X Key |->
             IF Settled(p[1]) THEN p[1] ELSE StartResolution(p[1])],
         s, s.enqueued)

Waits(s, key) == \E i \in DOMAIN s.enqueued : s.enqueued[i] = key

StraysIf(s, key, bad) ==
    IF bad THEN [s EXCEPT !.astray = @ \cup {key}] ELSE s

TrackLimboChange(s, key) ==
    IF s.byKey[key] # 0 THEN s
    ELSE PumpEnqueuedLimboResolutions(
             StraysIf([s EXCEPT !.enqueued = Append(@, key)],
                      key, Waits(s, key)))

\* Variant: active_limbo_resolutions_by_target_ keeps it.
Deactivate_KeepsTarget(s, key) == [s EXCEPT !.byKey[key] = 0]

\* Forget what is active for the key.
Deactivate(s, key) ==
    [s EXCEPT !.byKey[key] = 0,
              !.byTarget = {r \in @ : r.id # s.byKey[key]}]

\* Variant: the next resolution is not started.
RemoveLimboTarget_NoPump(s, key) ==
    IF s.byKey[key] = 0 THEN StraysIf(s, key, Waits(s, key))
    ELSE [Deactivate(s, key) EXCEPT !.watched = @ \ {s.byKey[key]}]

RemoveLimboTarget(s, key) ==
    IF s.byKey[key] = 0 THEN StraysIf(s, key, Waits(s, key))
    ELSE PumpEnqueuedLimboResolutions(
             [Deactivate(s, key) EXCEPT !.watched = @ \ {s.byKey[key]}])

InLimbo(s, key) == \E t \in Target : key \in s.refs[t]

AddReference(s, t, key) ==
    TrackLimboChange([s EXCEPT !.refs[t] = @ \cup {key}], key)

\* Variant: other targets are not asked for.
RemoveReference_AnyTarget(s, t, key) ==
    RemoveLimboTarget([s EXCEPT !.refs[t] = @ \ {key}], key)

RemoveReference(s, t, key) ==
    LET dropped == [s EXCEPT !.refs[t] = @ \ {key}]
    IN  IF InLimbo(dropped, key) THEN dropped
        ELSE RemoveLimboTarget(dropped, key)

Sorted(keys) == CHOOSE q \in [1..Cardinality(keys) -> keys] :
                    \A i, j \in DOMAIN q : i < j => q[i] < q[j]

\* Of a target whose view had the limbo documents before and now has these.
UpdateTrackedLimboDocuments(s, t, before, after) ==
    LET remove == [p \in Unbounded \X Key |-> RemoveReference(p[1], t, p[2])]
        add == [p \in Unbounded \X Key |-> AddReference(p[1], t, p[2])]
    IN  Loop(add, Loop(remove, s, Sorted(before \ after)),
             Sorted(after \ before))

\* Variant: the references stay.
RemoveAndCleanupTarget_KeepsRefs(s, t) ==
    Loop([p \in Unbounded \X Key |-> RemoveLimboTarget(p[1], p[2])],
         s, Sorted(s.refs[t]))

\* All references are dropped first.
RemoveAndCleanupTarget(s, t) ==
    Loop([p \in Unbounded \X Key |-> IF InLimbo(p[1], p[2]) THEN p[1]
                                     ELSE RemoveLimboTarget(p[1], p[2])],
         [s EXCEPT !.refs[t] = {}], Sorted(s.refs[t]))

-----------------------------------------------------------------------------
(***************************************************************************)
(* Views.                                                                  *)
(***************************************************************************)
\* The local view of a document, of the cache and the writes that are to be.
Exists(k) == cache'[k] # "none" \/ k \in pending'

\* ComputeDocumentChanges: a view that has a write does not let go of it when
\* it is acknowledged, but waits for the backend to send the document.
Held(t) == {k \in Matches[t] :
                \/ k \in pending'
                \/ k \in views[t].held /\ cache'[k] = "committed"}

ShouldBeInLimbo(t) == {k \in Matches[t] : Exists(k) /\ k \notin synced'[t]}
                      \ Held(t)

\* ApplyChanges and UpdateLimboDocuments, of a view that is to be current or
\* not: limbo documents are only found out while it is.
ApplyChanges(t, current) ==
    [views[t] EXCEPT !.current = current,
                     !.held = Held(t),
                     !.limbo = IF current THEN ShouldBeInLimbo(t) ELSE @]

Open == {t \in Target : views[t].open}

\* EmitNewSnapshots, in any order of the views.  changes: the targets the event
\* is about, with whether they are current.
EmitNewSnapshots(s, changes) ==
    /\ views' = [t \in Target |->
                    IF ~views[t].open THEN NoView
                    ELSE ApplyChanges(t, IF t \in DOMAIN changes
                                         THEN changes[t]
                                         ELSE views[t].current)]
    /\ \E order \in SetToSeqs(Open) :
          tracking' = Loop([p \in Unbounded \X Target |->
                               UpdateTrackedLimboDocuments(p[1], p[2],
                                   views[p[2]].limbo, views'[p[2]].limbo)],
                           s, order)

\* The bounds, at the end of a task.
InBounds == /\ \A id \in Ids(tracking') : id <= MaxTargets
            /\ Len(tracking'.enqueued) <= MaxEnqueued

-----------------------------------------------------------------------------
(***************************************************************************)
(* Calls of the app.                                                       *)
(***************************************************************************)
\* A new view has the documents of the cache and is not current.
Listen(t) ==
    /\ ~views[t].open
    /\ views' = [views EXCEPT ![t] = [NoView EXCEPT !.open = TRUE,
                                          !.held = Matches[t] \cap pending]]
    /\ tracking' = [tracking EXCEPT !.watched = @ \cup {t}]
    /\ UNCHANGED <<cache, pending, synced>>

StopListening(t) ==
    /\ views[t].open
    /\ views' = [views EXCEPT ![t] = NoView]
    /\ tracking' = RemoveAndCleanupTarget(
                       [tracking EXCEPT !.watched = @ \ {t}], t)
    /\ InBounds
    /\ UNCHANGED <<cache, pending, synced>>

WriteMutations(k) ==
    /\ k \notin pending
    /\ pending' = pending \cup {k}
    /\ UNCHANGED <<cache, synced>>
    /\ EmitNewSnapshots(tracking, <<>>)
    /\ InBounds

-----------------------------------------------------------------------------
(***************************************************************************)
(* Answers of the backend.                                                 *)
(***************************************************************************)
HandleSuccessfulWrite(k) ==
    /\ k \in pending
    /\ pending' = pending \ {k}
    /\ cache' = [cache EXCEPT ![k] = "committed"]
    /\ UNCHANGED synced
    /\ EmitNewSnapshots(tracking, <<>>)
    /\ InBounds

HandleRejectedWrite(k) ==
    /\ k \in pending
    /\ pending' = pending \ {k}
    /\ UNCHANGED <<cache, synced>>
    /\ EmitNewSnapshots(tracking, <<>>)
    /\ InBounds

\* A snapshot of a query has these results, whether or not that is all; other
\* documents are gone, or said nothing about.
ApplyRemoteEvent(t, results, gone, current) ==
    /\ t \in tracking.watched
    /\ synced' = [synced EXCEPT ![t] = results]
    /\ cache' = [k \in Key |-> IF k \in results THEN "remote"
                               ELSE IF k \in gone THEN "none" ELSE cache[k]]
    /\ UNCHANGED pending
    /\ EmitNewSnapshots(tracking, [x \in {t} |-> current])
    /\ InBounds

\* The backend answers a limbo target.
ApplyLimboEvent(r, exists) ==
    /\ r.id \in tracking.watched
    /\ cache' = [cache EXCEPT ![r.key] = IF exists THEN "remote" ELSE "none"]
    /\ UNCHANGED <<pending, synced>>
    /\ EmitNewSnapshots(tracking, <<>>)
    /\ InBounds

\* Variant: active_limbo_targets_by_key_ keeps the key.
RejectLimboTarget_KeepsKey(r) ==
    /\ r.id \in tracking.watched
    /\ cache' = [cache EXCEPT ![r.key] = "none"]
    /\ UNCHANGED <<pending, synced>>
    /\ EmitNewSnapshots([tracking EXCEPT !.byTarget = @ \ {r},
                                         !.watched = @ \ {r.id}], <<>>)
    /\ InBounds

\* ProcessTargetError and HandleRejectedListen, of a limbo target: another
\* resolution is started before the document is taken from the cache.
RejectLimboTarget(r) ==
    /\ r.id \in tracking.watched
    /\ cache' = [cache EXCEPT ![r.key] = "none"]
    /\ UNCHANGED <<pending, synced>>
    /\ EmitNewSnapshots(
           PumpEnqueuedLimboResolutions(
               [tracking EXCEPT !.byKey[r.key] = 0,
                                !.byTarget = @ \ {r},
                                !.watched = @ \ {r.id},
                                !.astray = @ \cup {k \in {r.key} :
                                    \E t \in Target : /\ ~views[t].current
                                                      /\ k \in views[t].limbo}]),
           <<>>)
    /\ InBounds

\* The same of a query: its listener gets the error.
RejectTarget(t) ==
    /\ t \in tracking.watched
    /\ views' = [views EXCEPT ![t] = NoView]
    /\ tracking' = RemoveAndCleanupTarget(
                       [tracking EXCEPT !.watched = @ \ {t}], t)
    /\ InBounds
    /\ UNCHANGED <<cache, pending, synced>>

\* ApplyOnlineStateChange, when the client is offline.
GoOffline ==
    /\ \E t \in Target : views[t].current
    /\ views' = [t \in Target |-> [views[t] EXCEPT !.current = FALSE]]
    /\ UNCHANGED <<cache, pending, synced, tracking>>

-----------------------------------------------------------------------------
Next ==
    \/ \E t \in Target :
          \/ Listen(t) \/ StopListening(t) \/ RejectTarget(t)
          \/ \E results \in SUBSET Matches[t], current \in BOOLEAN :
                \E gone \in SUBSET (Matches[t] \ results) :
                   ApplyRemoteEvent(t, results, gone, current)
    \/ \E k \in Key : \/ WriteMutations(k)
                      \/ HandleSuccessfulWrite(k) \/ HandleRejectedWrite(k)
    \/ \E r \in tracking.byTarget :
          \/ RejectLimboTarget(r)
          \/ \E exists \in BOOLEAN : ApplyLimboEvent(r, exists)
    \/ GoOffline

Spec == Init /\ [][Next]_vars

-----------------------------------------------------------------------------
(***************************************************************************)
(* Properties.                                                             *)
(***************************************************************************)
\* RemoteStore::StopListening is only called for what is listened to, which it
\* asserts: the maps of SyncEngine and the targets of RemoteStore agree at the
\* end of a task, also after targets were rejected and documents came to be in
\* limbo twice.
StopsWatched ==
    /\ \A t \in Target : views[t].open <=> t \in tracking.watched
    /\ \A k \in Active(tracking) :
          /\ tracking.byKey[k] \in tracking.watched
          /\ [id |-> tracking.byKey[k], key |-> k] \in tracking.byTarget

\* limbo_document_refs_ is what the views say, which only pass on changes.
RefsOfViews == \A t \in Target : tracking.refs[t] = views[t].limbo

\* A resolution waits only while the maximum is reached: whatever ends one,
\* an answer, a rejection, or a query that is closed, starts the next.
WaitsOnlyWhenFull ==
    tracking.enqueued # <<>> =>
        Cardinality(Active(tracking)) >= max_concurrent_limbo_resolutions

\* What is in limbo for some query is being resolved or waits for it, and
\* nothing else is, unless it went astray: no document is forgotten while two
\* queries come and go, writes hide it and uncover it, and targets fail.
LimboTracked ==
    \A k \in Key \ tracking.astray :
        InLimbo(tracking, k) <=> Waits(tracking, k) \/ tracking.byKey[k] # 0

\* Of a document that did not go astray no second target is left behind.
NoLeak ==
    \A r \in tracking.byTarget :
        r.key \in tracking.astray \/ tracking.byKey[r.key] = r.id

\* "Starts listens for documents in limbo that are enqueued for resolution,
\* subject to a maximum number of concurrent resolutions" (sync_engine.h).
AtMostMax == Cardinality(tracking.byTarget) <= max_concurrent_limbo_resolutions
=============================================================================
