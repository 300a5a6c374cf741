----------------------------- MODULE NotesList -----------------------------
(***************************************************************************)
(* The list of notes, and the editor that adds to it.                      *)
(*                                                                         *)
(* Saving adds a document each time the button is pressed.  Firestore's    *)
(* client shows it to the listener of the list at once, sends it when it   *)
(* can, and takes it out of the list again if the backend rejects it.  The *)
(* listener rebuilds an array from each snapshot and leaves the reload of  *)
(* the table to a later block of the main queue, one for each note.  In    *)
(* between, and afterwards, UIKit asks for the cells of the rows that the  *)
(* table had at its last reload.                                           *)
(*                                                                         *)
(* One list of one account; module WritePipeline has the way of a write,   *)
(* of which only the end is seen here.  Nothing in the app deletes a note, *)
(* and it writes all the fields that the list asks for.                    *)
(***************************************************************************)
EXTENDS Naturals, Sequences, FiniteSets

CONSTANTS
    Note,      \* notes, in the order of their times
    MaxBlocks  \* bound: length of the main queue at which Firestore waits

ASSUME NotesAssumption ==
    Note \subseteq Nat /\ IsFiniteSet(Note) /\ MaxBlocks \in Nat

VARIABLES
    saved,     \* notes the backend has
    seen,      \* those of them the client knows of
    waiting,   \* notes in the mutation queue, oldest first
    rejected,  \* history: notes the backend did not take
    listening, \* the list's listener is registered
    main,      \* main queue
    notes,     \* the array of NotesListViewController
    rows       \* the notes in the rows of the table

vars == <<saved, seen, waiting, rejected, listening, main, notes, rows>>

\* A snapshot, an error, or a reload of the table.
Block == [kind : {"snapshot"}, notes : SUBSET Note] \cup
         [kind : {"error", "reload"}]

TypeOK ==
    /\ saved \in SUBSET Note
    /\ seen \in SUBSET saved
    /\ waiting \in Seq(Note)
    /\ rejected \in SUBSET Note
    /\ listening \in BOOLEAN
    /\ main \in Seq(Block)
    /\ notes \in Seq(Note)
    /\ rows \in Seq(Note)

Init ==
    /\ saved \in SUBSET Note
    /\ seen \in SUBSET saved
    /\ waiting = <<>>
    /\ rejected = {}
    /\ listening = FALSE
    /\ main = <<>>
    /\ notes = <<>>
    /\ rows = <<>>

-----------------------------------------------------------------------------
\* What the client shows for the query.
View == seen \cup {waiting[i] : i \in DOMAIN waiting}

\* order(by: updatedOnField)
Ordered(S) == CHOOSE q \in [1..Cardinality(S) -> S] :
                  \A i, j \in DOMAIN q : i < j => q[i] < q[j]

Unused == Note \ (saved \cup View \cup rejected)

\* The client tells the listener of a change.
Emit == /\ Len(main) < MaxBlocks
        /\ main' = IF listening /\ View' # View
                   THEN Append(main, [kind |-> "snapshot", notes |-> View'])
                   ELSE main

\* viewDidLoad and loadNotes: the first snapshot is what the client knows.
LoadNotes ==
    /\ ~listening /\ main = <<>>
    /\ listening' = TRUE
    /\ main' = <<[kind |-> "snapshot", notes |-> View]>>
    /\ notes' = <<>>
    /\ rows' = <<>>
    /\ UNCHANGED <<saved, seen, waiting, rejected>>

\* saveButtonPressed.
SaveButtonPressed(n) ==
    /\ n \in Unused
    /\ waiting' = Append(waiting, n)
    /\ UNCHANGED <<saved, seen, rejected, listening, notes, rows>>
    /\ Emit

\* Variant: what was sent counts as committed.
Acknowledge_Early ==
    /\ waiting # <<>>
    /\ seen' = seen \cup {Head(waiting)}
    /\ waiting' = Tail(waiting)
    /\ UNCHANGED <<saved, rejected, listening, notes, rows>>
    /\ Emit

\* The backend has committed the oldest write, and the client knows.
Acknowledge ==
    /\ waiting # <<>>
    /\ saved' = saved \cup {Head(waiting)}
    /\ seen' = seen \cup {Head(waiting)}
    /\ waiting' = Tail(waiting)
    /\ UNCHANGED <<rejected, listening, notes, rows>>
    /\ Emit

Reject ==
    /\ waiting # <<>>
    /\ rejected' = rejected \cup {Head(waiting)}
    /\ waiting' = Tail(waiting)
    /\ UNCHANGED <<saved, seen, listening, notes, rows>>
    /\ Emit

\* Another device of the account has saved a note.
SaveElsewhere(n) ==
    /\ n \in Unused
    /\ saved' = saved \cup {n}
    /\ UNCHANGED <<seen, waiting, rejected, listening, main, notes, rows>>

\* The listen stream brings the client up to date.
Synchronize ==
    /\ listening
    /\ seen' = saved
    /\ UNCHANGED <<saved, waiting, rejected, listening, notes, rows>>
    /\ Emit

\* The listen is rejected, which ends it.
RejectListen ==
    /\ listening
    /\ Len(main) < MaxBlocks
    /\ listening' = FALSE
    /\ main' = Append(main, [kind |-> "error"])
    /\ UNCHANGED <<saved, seen, waiting, rejected, notes, rows>>

-----------------------------------------------------------------------------
(***************************************************************************)
(* The main queue, and the table.                                          *)
(***************************************************************************)
Runs(kind) == main # <<>> /\ Head(main).kind = kind

\* Variant: the array is not emptied.
OnSnapshot_Appends ==
    LET read == Ordered(Head(main).notes) IN
    /\ Runs("snapshot")
    /\ notes' = notes \o read
    /\ main' = Tail(main) \o [i \in DOMAIN read |-> [kind |-> "reload"]]
    /\ UNCHANGED <<saved, seen, waiting, rejected, listening, rows>>

\* Variant: the table is only reloaded for a list that has become longer.
OnSnapshot_ReloadsLonger ==
    LET read == Ordered(Head(main).notes) IN
    /\ Runs("snapshot")
    /\ notes' = read
    /\ main' = IF Len(read) > Len(notes)
               THEN Append(Tail(main), [kind |-> "reload"]) ELSE Tail(main)
    /\ UNCHANGED <<saved, seen, waiting, rejected, listening, rows>>

OnSnapshot ==
    LET read == Ordered(Head(main).notes) IN
    /\ Runs("snapshot")
    /\ notes' = read
    /\ main' = Tail(main) \o [i \in DOMAIN read |-> [kind |-> "reload"]]
    /\ UNCHANGED <<saved, seen, waiting, rejected, listening, rows>>

OnError ==
    /\ Runs("error")
    /\ notes' = <<>>
    /\ main' = Tail(main)
    /\ UNCHANGED <<saved, seen, waiting, rejected, listening, rows>>

ReloadData ==
    /\ Runs("reload")
    /\ rows' = notes
    /\ main' = Tail(main)
    /\ UNCHANGED <<saved, seen, waiting, rejected, listening, notes>>

\* The process ends; the mutation queue and the cache are kept.
Terminate ==
    /\ listening' = FALSE
    /\ main' = <<>>
    /\ notes' = <<>>
    /\ rows' = <<>>
    /\ UNCHANGED <<saved, seen, waiting, rejected>>

\* The person scrolls: cellForRowAt takes the note from the array as it is now,
\* or fails.
Scroll(i) ==
    \/ /\ i \in DOMAIN notes
       /\ rows' = [rows EXCEPT ![i] = notes[i]]
       /\ UNCHANGED <<saved, seen, waiting, rejected, listening, main, notes>>
    \/ /\ i \notin DOMAIN notes
       /\ Terminate

RunMain == OnSnapshot \/ OnError \/ ReloadData

Next ==
    \/ LoadNotes \/ Acknowledge \/ Reject \/ Synchronize \/ RejectListen
    \/ \E n \in Note : SaveButtonPressed(n) \/ SaveElsewhere(n)
    \/ \E i \in DOMAIN rows : Scroll(i)
    \/ RunMain \/ Terminate

Spec == Init /\ [][Next]_vars

\* The main queue runs.
FairSpec == Spec /\ WF_vars(RunMain)

-----------------------------------------------------------------------------
(***************************************************************************)
(* Properties.                                                             *)
(***************************************************************************)
\* A row has a note, but for the time until a reload that is under way, and
\* when the list has become empty, by a rejected note or an error: there the
\* table is not reloaded, and scrolling it ends the process.
RowsHaveNotes ==
    \/ Len(rows) <= Len(notes)
    \/ \E i \in DOMAIN main : main[i].kind = "reload"
    \/ notes = <<>>

\* When the main queue is idle, the table has what the client shows, with the
\* notes that are still to be sent and without those that were rejected.
ListAgrees ==
    (listening /\ main = <<>> /\ View # {}) => rows = Ordered(View)

\* The table catches up with a list that stays as it is.
ListCatchesUp ==
    \A V \in SUBSET Note \ {{}} :
        <>[](listening /\ View = V) => <>[](rows = Ordered(V))
=============================================================================
