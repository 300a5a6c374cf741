# A model of ProductivityApp

ProductivityApp is an iOS app for notes and to-dos with a Firebase backend: accounts in Firebase Auth,
documents in Firestore, pictures in Storage.  The app is about 1800 lines of Swift; most of what can go
wrong in it lies between its screens, the asynchronous Firebase clients below them, and the two backends
that keep the same facts.  These modules model that, and the parts of the vendored Firestore client that the
app's data goes through: its write path and its resolution of documents in limbo.

Paths below are relative to `src/ProductivityApp/ProductivityApp/`; the Firebase clients are vendored under
`src/ProductivityApp/Pods/` (the core of Firestore's under `Pods/FirebaseFirestore/Firestore/core/src/`).

## Inventory

| Component | State | Operations | Interacts with |
|---|---|---|---|
| Session and root controller (`SceneDelegate`, `LoginViewController`) | root view controller; the state listener's previous uid | log in; replace the root on a state change | FIRAuth posts notifications on the main queue |
| FIRAuth client (`Pods/FirebaseAuth`) | current `FIRUser` (uid, e-mail, name, photo URL), keychain, requests under way | sign in, create user, reload, change e-mail/password/profile, sign out, forced sign-out | serial work queue; completions and notifications go to the main queue |
| Settings (`SettingsTableViewController`) | labels, a Firestore listener nobody removes | log out, re-authenticate, reload, show document changes, sign out on a changed e-mail | FIRAuth, Firestore, `ProfileUpdate` |
| E-mail change (`UpdateEmailViewController`, `ProfileUpdate.updateEmail`) | the captured user, the text field | change the address in Auth, then in `users/<uid>` | two stores, two writes |
| Password change (`PasswordResetViewController`) | three text fields | sign in again, then set the password of the current user | FIRAuth |
| Sign-up (`SignUpViewController`) | text fields, chosen picture | create the account, then the document, name and picture | Auth, Firestore, Storage |
| Display name (`ProfileUpdate.updateDisplayName`) | the document and the Auth profile | two writes without an order | Auth, Firestore |
| Profile picture (`ProfileUpdate.updateProfilePicture`, `downloadProfilePicture`) | local file, Storage object, the account's photo URL, the image view | save locally, upload, store the URL; reload, download, overwrite | Storage, Auth, URLSession, file system |
| Notes (`NotesListViewController`, `EditNoteViewController`) | notes array, rows of the table view | listen, rebuild, reload; add a document | Firestore |
| Firestore client: writes (`SyncEngine`, `RemoteStore`, `WriteStream`, `Stream`, the mutation queues, the credentials provider) | one mutation queue per user on disk, callbacks that wait, the write pipeline, the write stream with its state, backoff and idle timer, token requests | write locally, send, acknowledge, reject; change of user; streams that start, open, fail and start again; restarts | FIRAuth for tokens and users (main queue), the backend, its own worker queue |
| Firestore client: limbo resolution (`SyncEngine`, `View`, `RemoteStore`) | limbo documents of each view, references, the queue and the maps of resolutions, listened targets | listen, stop, remote events, rejected listens, writes, going offline | the backend; the document cache |
| Firestore client: local store and views (`LocalStore`, `LocalDocumentsView`) | document cache, mutation queues | latency-compensated snapshots | the screens' listeners |
| Keyboard constraint (`KeyboardLayoutConstraint`) | offset, keyboard height, constant | show, hide | notification centre |
| `AppDelegate`, navigation controllers, `NoteCell`, `Alert`, storyboards | none of their own, or layout | | |

What is hard: FIRAuth changes its state on one queue and tells the app on another; a completion acts on a
text field and a current user that may have changed since the request was sent; every account fact is kept
twice (e-mail and display name in Auth and Firestore, picture on disk and in Storage) and the two writes are
not atomic; listeners outlive their screens and sessions; Firestore queues writes per user and sends them
later; a token asked for one user is answered when another is signed in; a result is matched to a write by its
position alone; the process can be killed anywhere.

What makes each part correct:

- session: the root controller is that of the signed-in account, whatever order notifications come in;
  answers about an old session never change a new one; nobody signed in is left on the login screens;
- settings: a session whose address is out of date ends once the device hears of the change (the listener also ends
  others: see Findings);
- e-mail: when nothing is under way, the document has the account's address;
- password: only an account whose password was accepted since the launch gets a new one;
- name: when nothing is under way, document and account have the same;
- picture: file, object, photo URL and view end with the last picture chosen, and an account has another's picture only
  where the code itself mixes up two sessions;
- notes: a row shown without its note has a reload coming, or the list became empty; the list is what the client has,
  with what is still to be sent;
- writes: each user's writes reach the backend in the order of the calls and under that user's token, an
  acknowledged one is never undone, each caller hears the verdict of its own, and none waits forever;
- limbo: what is in limbo is being resolved or waits for it, and nothing is left behind.

## Modules

| Module | Models | State |
|---|---|---|
| `Session` | one device: FIRAuth, the keychain, the main queue, the state listener, the login, sign-up, settings and password screens, the settings listener; other devices as the environment | see below |
| `MCSession` | constants for the runs of `Session` | |
| `SessionProofs` | the inductive invariant of `Session` and the theorems | |
| `EmailUpdate` | several devices and accounts: sign-up, change of address, the document, the Firestore client's queues | see below |
| `EmailUpdateProofs` | the inductive invariant of `EmailUpdate` and the theorems | |
| `MCEmailUpdate` | constants for the runs of `EmailUpdate` | |
| `ProfilePicture` | the accounts of one device: uploads, reloads and downloads of pictures | see below |
| `ProfilePictureProofs` | the inductive invariant of `ProfilePicture` and the theorems | |
| `MCProfilePicture` | constants for the run of `ProfilePicture` | |
| `WriteQueue` | what the Firestore client promises about writes: the abstract specification | the queues, how far the backend is in them, what is settled |
| `WriteQueueProofs` | the inductive invariant of `WriteQueue` | |
| `WritePipeline` | the Firestore client's write path, with FIRAuth, the main queue, the worker queue and the backend; implements `WriteQueue` | see below |
| `MCWritePipeline` | constants for the run of `WritePipeline` | |
| `WritePipelineProofs` | the invariants of `WritePipeline`, the refinement, and what follows from it | |
| `LimboResolution` | documents in limbo and the listens that resolve them | see below |
| `LimboResolutionProofs` | loops over documents and views, the inductive invariant of `LimboResolution` and the theorems | |
| `MCLimboResolution` | constants for the runs of `LimboResolution` | |
| `NotesList` | the list of notes, the editor, and the table view that asks for cells | see below |
| `NotesListProofs` | lists of notes in the order of their times, the inductive invariant of `NotesList` and the theorems | |
| `MCNotesList` | constants for the run of `NotesList` | |
| `DisplayName` | the name of an account in its document and in Auth, and the task queues of user objects | see below |
| `DisplayNameProofs` | the inductive invariant of `DisplayName` and the theorems | |
| `MCDisplayName` | constants for the runs of `DisplayName` | |

### Session

`currentUser` and `keychain` are FIRAuth's `_currentUser` and its saved copy (uid and cached e-mail); `ready` says
that the keychain was tried.  `requests` are the requests to the Auth backend: who sent them (login, sign-up, e-mail
row, password check, reload, set password), the account, the address they carry, whether the `FIRUser` they are about
is still the current one, and how far they are: `password` (verifyPassword, or the creation of the account), `info`
(getAccountInfo), `done`.  `main` is the main queue: `notify` blocks of `possiblyPostAuthStateChangeNotification`,
`snapshot` events, and completions.  `prevUid` is the listener's captured `previousUserID`; `rootOwner` whose home the
window shows; `screen` the screen in front. `listeners` are the accounts whose documents the device still listens to.
`account` numbers the addresses an account has had, from 1; 0 is an account that nobody has created.  `documents` are
the accounts whose document is there.  What a document says is not kept: a snapshot carries any address the account
has had, or 0 for a text that is none of them, since devices write documents after the account and in any order,
sign-up stores its text with spaces, and the screens read their fields again.

Each handler is one action.  `FinishSignIn` is `signInFlowAuthDataResultCallbackByDecoratingCallback` with
`updateCurrentUser`: save, replace, post, queue the completion.  `FinishUserUpdate` is the end of
`getAccountInfoRefreshingCache`: it changes the object's e-mail, and reaches keychain and listener only while the
object is current (`updateKeychainWithUser`).  `StateDidChange` reads the user when the block runs. `EmailSnapshot` is
the listener of `checkForEmailUpdate` with its call of `logout`.  `SignUpPressed`, `CreateUser` and `SignUpCompletion`
are the sign-up screen: the backend creates the account before the answer is on its way, FIRAuth signs it in like any
other, and the completion, a later block of the main queue, writes its document.  Screens matter because a segue from
a controller that has left the window does nothing: `from` becomes `gone` when the screen goes.

Abstractions: a password is accepted or refused; an address is the number of a change; the two reloads of the
settings screen are one; the screens of notes are part of `Home`; the automatic token refresh is a `Notify`
that a user update may post.

### EmailUpdate

`account` and `doc` hold the addresses of both backends; `user` the session of each device; `client` the user its
Firestore client works for; `call` its request under way; `main` its main queue, with the completions, the document's
events, and the notifications that tell the client its user; `writes` the mutation queues of its Firestore client,
each write with the user whose queue it is in; `known` the client's cache; `listening` the settings listeners.  Texts
are an address with or without spaces around it.  The text field is not a variable: a person may change it at any
time, so a completion that reads it again reads any text.

FIRAuth replaces its user at once and `CredentialChange`, a block behind those that wait, moves the client to the user
of the time it was posted; a document written in between is put into the queue of the user before (`WriteEmail`).
`Deliver` is about the oldest write in the queue of the client's user: the backend applies it, and the acknowledgement
may be lost; or it refuses it for good, as `HandleWriteError` has it, and the client drops it without a word to
`updateEmail`, which passed no completion.  `View` overlays the writes of the client's user on the cache.  `disturbed`
is a history variable used by `Agreement` only: a write that was refused, and a completion that finds another session
or a client that works for another user, are among what sets it.

Abstractions: a sign-in and a reload are atomic (their interleavings are in `Session`), and so are the swap of the
client's queues with the block that tells it, and the sending of a write (`WritePipeline` has what lies between); one
sign-up or change of address per device at a time; other fields of the document only appear as events that repeat the
address.

### ProfilePicture

`file`, `view`, `stored` and `photo` are the four places of a picture: the local file, the image view, the Storage
object and the account's URL, of which only the account whose object it names is kept.  `cached` is the URL in the
current `FIRUser`, and `screen` the account whose settings screen is open.  `tasks` are what is under way: sign-ups
whose completion waits (`signedUp`), uploads (`put`, `url`, `commit`), openings of the screen and reloads (`opened`,
`reload`, `read`), and downloads (`start`, `fetch`, `fetched`, `show`).  A task knows whose file or profile it writes,
whose object it is about, and whether its screen and its `FIRUser` are still the current ones.  A picture is the
account that chose it and a number.

`SignUp` is FIRAuth's step, which replaces whoever is signed in, as `SignIn` does; `SignUpCompletion` is a later block
of the main queue, and uploads the picture for whoever is signed in by then.  `Upload` is `updateProfilePicture` up to
`putData`, called by it and by `PickPicture`; `NotUploaded` is its early return.  `PutData`, `DownloadUrl` and
`Commit` are its nested completions.  `OpenSettings` and `SendReload` are `getProfilePicture`, `ReadUrl` the
completion of its reload, and `StartDownload` `downloadProfilePicture`.  The opening of the screen and the completion
of its reload each read the current user twice, the uid or the URL first and the user to reload or to save for
afterwards, so that each is two steps: FIRAuth's queue may come in between, but no block of the main queue
(`MainFree`).  `Fetch` may answer with `Junk`: an error document is data too, and the code saves it.  `DownloadFails`
is the branch that unwraps a nil image, and the `user!` of a download that began for nobody.

Two history variables are read by the properties only.  `crossed` are the accounts for which the code mixed up two
sessions: one that got the picture of another's sign-up or of another's screen, whose profile was given another's URL,
or whose file or screen a download was started for whose URL was read in another session.  `disturbed` are those one
of whose changes failed, was cut short, was dropped because nobody was signed in, or overlapped with another upload, a
download or the opening of the screen.

Abstractions: sign-in, sign-up and sign-out are FIRAuth's steps here (`Session` has what leads to them), and the
screen closes at some time after; the settings open with somebody signed in, since `getProfilePicture` does nothing
otherwise; the picker cannot outlive the screen; the other reload of `viewDidLoad`, for the display name, is left out.

### WriteQueue and WritePipeline

`WriteQueue` says what an app may rely on: the backend applies a user's queue from its oldest write on, the
client hears one verdict after the other, and at any time everything the client has not heard of may be sent
again.  A write may be applied twice, and an older one for a while undo a newer one, but never one that was
acknowledged.

`WritePipeline` is how.  `queue` are the mutation queues on disk, `nextBatchId` the id of the one in use
(`currentUser`'s), `callbacks` `mutation_callbacks_`, `pipeline` `write_pipeline_`.  `stream`, `conn`,
`handshake` and `idle` are the write stream: `state_`, whose token its connection has, `handshake_complete_` and
the idle timer.  `wire` and `answers` are what is on its way in each direction.  `main` and `worker` are the two
queues between FIRAuth (`authUser`), the credentials provider and the client.  `request` are requests for a
token: who was read, whether `token_counter` moved since (`failed`), whether the stream that asked was closed
since (`closed`, that is `close_count_`), and where the answer is.

One action is one task: `WriteMutations`, `HandleCredentialChange` and `ResumeStart` run from the worker queue
with all they call (`FillWritePipeline`, `RestartStreams`, `FailStream` and `MaybeStart` are what they share), and
so do the events of the stream.  `ReadUser` and `TokenCallback` are FIRAuth's work queue, `Notify` and
`AnswerToken` the main queue.  `Serve` is the backend.  `Restart` ends the process and starts it again; Firestore
may then be asked for before FIRAuth has loaded its user.

`KeepsPromise` is the refinement.  A queue of `WriteQueue` is the writes of a mutation queue; its `round` is the
number of results among the answers, and `refused` whether a refusal is, while the handshake is done.
`WriteMutations` submits, `Serve` applies or refuses, `OnWriteStreamMutationResult` acknowledges,
`HandleWriteError` rejects, any other end of a stream starts over, and the rest does not show.

Modelling shows that `token_counter` and `close_count_` protect `OwnToken` twice: with either left out, the other
still keeps a token of one user from a stream of another.

Abstractions: a batch is one write; stream tokens, and the message that ends a stream, are left out; the app
never disables the network or waits for pending writes, so those paths are not here; a backend does not apply
what it reads from a stream the client has closed; a refusal is the permanent error of `HandleWriteError`, every
other error is `OnWriteStreamClose`.

### LimboResolution

`cache`, `pending` and `synced` are the document cache, the documents with a write, and what the backend says a
query has.  `views` are the open views with `limbo_documents_`.  `tracking` is one record, because one task
changes it several times: `limbo_document_refs_`, `enqueued_limbo_resolutions_`, the two maps of active
resolutions and the targets of `RemoteStore`.  `EmitNewSnapshots` applies a change to every view, in any order,
and tracks what came to be in limbo or left; the pump starts the next resolutions, inside the same task.  The loops of
the code are `Loop(step, s, q)`: what becomes of `s` when the function `step` is done for one element of `q` after the
other.  The pump has at most one round for each document that waits.

The code does not remove a document that leaves limbo while it waits, so that it is resolved although nobody
asks, or, if it comes back, twice; `astray` remembers these documents, and those whose resolution is rejected
while a view that has them in limbo is not current, which nothing resolves again until the view is.
`LimboTracked` and `NoLeak` say that all is well with every other document; `AtMostMax` is broken by them.

Abstractions: a remote event is about one target, and what it brings is newer than the cache; the code's `RemoteEvent`
may carry changes of all targets, handled in one task (`remote_store.cc:271-332`, `sync_engine.cc:266-299`), and
`local_store.cc:333-346` ignores a version older than the cached one.  Queries have no limits, so no refills;
resumption, existence filters and the data of documents are left out; a limbo target's number may be used again when
nothing refers to it; the change of user that swaps the mutation queue is in `WritePipeline`.

### NotesList

`saved` and `seen` are the notes of the backend and those the client knows of, `waiting` the notes it has still to
send; the client's view is `seen` with `waiting`.  `main` is the main queue: snapshots, errors, and one `reload`
block for each note that the listener appended to `notes`.  `rows` are the notes the table showed at its last
reload.  `Scroll` asks for a cell, in the array as it is then.

The reload is inside the loop over the documents.  A list that becomes empty, because the only note was rejected or by
an event with an error, empties the array and reloads nothing: the rows stay, and scrolling to one reads past the end
of the array and ends the process.  The same can happen while a reload is still to come, when the new array is
shorter.  `RowsHaveNotes` excepts both, and says that a shorter array has one of the two; `ListAgrees` excepts the
empty list only, once the main queue is idle.

Abstractions: one list of one account; a note is its time; nothing in the app deletes a note; a note that is saved
twice is two notes.

### DisplayName

`account` and `doc` hold the name in Auth and in `users/<uid>`.  `current` is FIRAuth's current user, a `FIRUser`
object, and `owner` the account an object is about.  `tasks` are the names an object's `_taskQueue` has still to
store, `stage` says whether it runs a task and how far that is, `writes` are the names in the Firestore client's queue
of each account, and `changing` a call of `updateDisplayName` between its two writes.  An object that is not current
any more still finishes its tasks; one that is done stands for the next object that a sign-in makes.

`UpdateDocument` and `CommitChanges` are the two halves of `updateDisplayName`, each with its own reading of the
current user.  `StartTask` is `enqueueTask`, which suspends the queue until the task is complete; `SetAccountInfo`,
`Complete` and `Fail` are the requests of `executeUserUpdateWithChanges`.  `SignIn`, `EndSession` and `Relaunch` may
come between any two of these.  `disturbed` is a history variable: an account whose change met another session in the
middle, tasks of another object of the same account, the end of the process, or an error.  It is forgiven by the next
change that is made when nothing is under way.

Abstractions: one device; the name is never read back, what the name field shows is left out; Firestore learns of a
session with FIRAuth (`WritePipeline` has the interleavings); a document exists before its name is written, as sign-up
queues them in this order.

## Runs

| Run | Question | Bounds |
|---|---|---|
| `session_root` | root and screen follow the session; a sign-in's completion finds it, or its end announced behind it; passwords only for checked accounts | 2 accounts that are there or not yet, 2 requests, main queue 2 for producers, no address changes |
| `session_emails` | no stale address enters a session or the keychain | 2 accounts, one of which another device changes once, 2 requests, queue 1 |
| `session_live` | the root catches up | 2 accounts, 1 request, queue 2 |
| `session_leaked_listener` | violated: sign-out without a changed address | 2 accounts, 2 requests, queue 3 |
| `email_accounts` | document and account agree unless disturbed | 2 accounts, 1 device, 2 addresses typed without spaces, 2 writes, queue 2, 1 for snapshots |
| `email_ends` | an outdated session ends | 1 account, 2 devices of which one changes the address, 2 addresses of which one is typed with a space, 1 write, queue 1 |
| `pictures` | an account gets another's picture only where two sessions were mixed up; file, object, URL and view agree when it is quiet and undisturbed | 2 accounts, 2 tasks, 2 pictures of one and 1 of the other |
| `writes` | the client keeps the promise of `WriteQueue`; own tokens only; assertions hold; writes settle | 1 account and nobody, 2 writes, 2 token requests, pipeline of 2, queues 1 |
| `limbo` | maps of `SyncEngine`, views and `RemoteStore` agree; nothing is forgotten or left behind | a list of 2 documents and one of them by itself, maximum 1, 2 targets, queue of 2 |
| `limbo_maximum` | violated: more resolutions than the maximum | 1 list of 3 documents, maximum 2 |
| `notes` | rows have notes; the table agrees with the list, and catches up | 4 notes, main queue 3 |
| `names` | document and account agree on the name when nothing is under way, unless disturbed; every change comes to an end | 2 accounts, one of which changes its name, 2 objects, 2 names, 2 tasks of an object, 2 writes |

Two requests are what a race between answers needs: one replaces the user while the other is under way; two accounts
are what a leak from one session into another needs.  `MaxMain` is not a capacity of the real main queue; producers
wait at it, and a step that posts two blocks may exceed it by one.  In `email_accounts` a device's second write
overtakes its first, or waits in the queue of another account, and the client lags behind FIRAuth's user; changes that
two devices make at a time, and spaces, are too many states for this run and are left to the theorem.  In `email_ends`
the second device's session gets out of date; two texts and an address with a space let the document change twice
before it hears of it.

In `session_root` an account that is not there yet may be created while the other one is signed in.  In `pictures` two tasks and a
second picture let two uploads, or an upload and a download, overtake each other, and let a sign-up's completion find
another session.  The run does not go beyond states in which both accounts are crossed (`NotAllCrossed`): `crossed`
only grows, so that `OwnPictures` and `PicturesAgree` are true of everything behind them, and `TypeOK` is proved for
every state.

In `writes` two users are what a token of the wrong user needs, two writes what an order or a second sending needs,
and two requests let a stream ask again while the answer to its last request is still under way; `nobody` has a queue
like any user.  In `limbo` two queries share a document, and one resolution at a time makes the other document wait.
`notes` has room for a save, a note from elsewhere and a rejected one around a reload. In `names` two changes can be
under way on both paths, which is what a change of their order needs, and a second object of the same account or
another account can take the place of the first between the two writes.

The theorems do not depend on any of these bounds: they hold for every value of the constants.

## Fairness

`Session.FairSpec`: the main queue runs its blocks and FIRAuth's work queue reads the keychain.  Nothing is assumed
about the network, the backends or the person.  `EmailUpdate.FairSpec`: the main queue runs, and the listen stream
eventually delivers a version the client does not have (Firestore reconnects and resumes its targets).  It is strong
fairness because the step waits for room in the main queue.

`WritePipeline.FairSpec`: weak fairness of the main queue and the worker queue, of FIRAuth's reading of its user and
its answer, of the events of the stream, of the backoff timer and of the backend.  `WritesSettle` also supposes that
from some time on no token is refused, no stream fails and the process goes on; and it is about a write whose user
stays signed in.  `NotesList.FairSpec`: the main queue runs; that a view has to stay as it is for the table to catch
up is part of the property.

`DisplayName.FairSpec`: weak fairness of the task queues, of the requests, which are answered or fail, and of the
writes of an account that is signed in; a request of the Firebase clients times out if it is not answered.
`NamesSettle` is about an account that stays signed in and is not changed any more.

Nothing is asked of `ProfilePicture` and `LimboResolution` but safety.

## Findings

Two runs expect a violation.  `session_leaked_listener`: the snapshot listener of an old session signs out a new
one, printing "email changed" when no e-mail changed.  `limbo_maximum`: a document that comes back into limbo
while it waits gets a second resolution, so that there are more than the maximum `sync_engine.h` promises; one
of the two is then in no map by key, and is never stopped.

Other things the code does are written into properties as their exceptions, not stated by any document of the
repository, and so have no run of their own:

- `updateEmail` unwraps the uid of a user who may have been signed out while the request was under way, writes to the
  document of whoever is signed in, and reads the text field again (`disturbed` in `EmailUpdate`);
- a write the backend refuses for good is dropped, and nobody hears of it; a write made while the Firestore client
  still works for the user before is put into that user's queue (the same);
- sign-up sends the address to Auth without its spaces and stores it with them (the same); the settings screen of such
  an account signs it out, although its address never changed.  A reload that was answered before a change of address
  and arrives after it lets the listener sign out a correct session too.  No property says that only outdated sessions
  end;
- the picture of a sign-up goes to whoever is signed in when its completion runs, the URL of an uploaded picture to
  whoever is signed in when the upload ends, and a download to the file of whoever is signed in when it begins, which
  need not be whose URL it read (`crossed` in `ProfilePicture`);
- a download started before a picture was chosen overwrites its file and view, and two uploads end in any order
  (`disturbed` in `ProfilePicture`);
- the re-authentication of a session that has ended signs the account in again (`Session`);
- the segues of a login and of a re-authentication may run after the session has ended: the first then shows the home
  screens to nobody, and the root controller stays if the listener sees nil twice; the second loads
  `UpdateEmailViewController`, which unwraps the user.  What does hold is that the notification of the end is still to
  come behind such a completion (`EndIsAnnounced`), and that the contrary, a signed-in person on the login screens,
  does not last (`SignedInSeesHome`);
- an address that is changed, and changed back before another device hears of it, does not end a session that signed
  in there in between: the settings listener has nothing new to report (`StaleSessionEnds` is about a document that
  stays);
- `updateDisplayName` reads the current user twice, orders its two writes in no way and only prints their errors; the
  task queue belongs to the `FIRUser` object, so that names set before and after a re-authentication of one account
  are not in order either (`disturbed` in `DisplayName`);
- `image!` after a failed download (reached by `ProfilePicture`);
- a list of notes that becomes empty keeps its rows (`RowsHaveNotes`).

## Proofs

`SessionProofs` proves, for every set of accounts and slots and every bound, that `IInv` is inductive and
implies every invariant of the runs `session_root` and `session_emails`.  The assumptions are those of
`SessionAssumption`: the values for "nobody" and "not yet called" differ from every account.

The properties are not inductive alone:

- a finished user update writes to `currentUser` without looking: `CurrentOK` says a request whose object is
  current is about the account signed in, because every replacement turns the others into `replaced`;
- `RootLink` ties the root controller to `previousUserID` once the listener has run, so that skipping an equal
  uid is harmless; a change of user always leaves a notification behind it;
- `RequestsNotAhead` bounds the addresses that answers bring;
- `CheckedOK` carries a password check from FIRAuth's queue to its completion: whoever is signed in while the
  completion waits has had a password accepted since the launch, since only accepted sign-ins replace the user;
- `ReadyOK`: nobody is signed in before the keychain is read, so the keychain's user never replaces a checked one.

- `ScreenLink`: the login screens are those of a root controller without a session.  `RootFollowsUser` then says that
  who is signed in sees the others (`SignedInSeesHome`).

`EndIsAnnounced` is inductive with `CurrentOK`.  It is about positions in the main queue, and rests on what posting,
running and hiding blocks do to the order of those that wait (`AnnouncedByNotify` to `AnnouncedHidden`): a
notification comes last, and running a block takes it from behind none.

Each has a lemma with one step per action.

`WriteQueueProofs` proves `QueueSafety` for any users and writes: the queues are in the order of the calls and all
that is settled is older (`InOrder`), the last write applied is the one at the end of the round (`InRound`), hence
an acknowledged write stays.

`WritePipelineProofs` proves, from `PipelineAssumption` alone, every invariant of the run `writes` and the
refinement.  The invariant has these parts:

- `StoreOK`: the ids of a mutation queue rise and are below `nextBatchId`, so that `Without` removes one batch;
  among any users one has the highest id on disk (`Bounded`), so that `LoadNextBatchId` exists; and the pipeline is
  the front of the queue in use, which every filling, settling and restart has to keep;
- `TokenInv`: one request at most is of use, and then the stream is starting and has no connection (`RequestOK`);
  the stage of a request says where its token is (`TokensOK`); what the client has yet to hear of users ends with
  FIRAuth's (`UserOK`); a token of use is that of the user the client will have when it arrives (`CredOK`), which is
  what makes `OwnToken` inductive;
- `StreamOK`: once the handshake is done, the answers under way and the requests on the wire are together the
  pipeline, in its order: that is why a result may be matched by position;
- `OrderOK`: writes on the worker queue, in the mutation queues and settled follow the order of the calls, over
  restarts and changes of user;
- `Apart`, `ToldOK`, `CallersOK`: a write is in one queue at most, and verdicts are those of the write.

`PromiseKept` shows that every step of `WritePipeline` is a step of `WriteQueue` or none (`MapsStep` with a lemma
for each kind of step), and `AcknowledgedCorrect` brings the invariant of `WriteQueue` back through the refinement.

`ProfilePictureProofs` proves every invariant of the run `pictures`, from `PictureAssumption` alone.

- `SessionOK` and `TasksOK` say what a task is about.  A request on a `FIRUser` that is current is one of the session,
  because every change of session turns the others into replaced ones; an upload is for the profile of the account
  whose object it writes until it asks whose profile to change; and a completion of a sign-up carries the picture of
  the account that was created, whoever is signed in when it runs.
- `UrlsOK` follows an account that was not crossed: its URL, where the session caches it, what is uploaded to its
  object, and, for every download that writes its file or is shown on its screen (`Targets`), what it brings are its
  own.  That a download has read its URL in the session it is for is part of it, between the two readings of the
  current user as well (`CarriesOwn`).  It is what makes `OwnPictures` inductive.
- `NewestOK` follows the newest picture of an account that was neither crossed nor disturbed (`PlacesOK`): the file
  has it when the upload begins, Storage when the upload has put it, the profile when the upload is over, and an open
  screen always; tasks carry it from one to the next, and no download is under way while a sign-up or an upload has
  yet to put a picture (`CarriesNewest`).  `PicturesAgree` is what is left of it when nothing is under way.

`EmailUpdateProofs` proves `TypeOK` and `Agreement` for any accounts, devices and texts, from `EmailAssumption`.  The
update to a document is in one of three places in turn: a call that Auth has accepted, a completion on the main queue,
a write in the client's queues.

- `LatestOK` is the argument: on every device the last of these that is about an undisturbed account carries the
  account's address, and where there is none on any device the document has it.
- That the last one wins needs `OwnersOK`, which puts the writes of an undisturbed account in its own queue, so that
  they are delivered in order even over a sign-out and whatever the client was told of users in between, and
  `OneDevice`, since devices are not ordered among each other.  A write that is refused for good leaves the queue and
  disturbs its account, so that the argument is not about it any more.
- `CallsOK`, `BlocksOK` and `AccountsOK` say what a call and a completion can be about: a completion of a change that
  Auth accepted has no spaces, and nothing is under way about an account that does not exist.

`NotesListProofs` proves every invariant of the run `notes`.  `ShownOK` is what makes `ListAgrees` inductive: the
newest snapshot on the main queue is the client's view; once it has been read the array is that view, and the table
has it or a reload is waiting.  `NotesAssumption` asks for a finite set of notes, without which their list would not
be a sequence; `Ordered` is a choice among the orders of a set, so that `OrderExists` has to show that there is one.

`DisplayNameProofs` proves both invariants of the run `names`, from `DisplayAssumption`.  `NewestOK` is the argument:
of an account that is not disturbed one queue at most stores names, and its last name, or the stored one if it is
empty, is the last that the document gets; between the two halves of `updateDisplayName` the document's is that of the
call. Storing a name changes neither, because both queues are in order (`LastStored`).  `NamesAgree` is what is left
of it when the queues are empty.  An account that was disturbed is of no concern until a change finds nothing under
way, which establishes `NewestOK` from nothing.

`LimboResolutionProofs` proves every invariant of the run `limbo`, for any finite sets of documents and of queries,
any maximum of resolutions and any bounds, from `LimboAssumption`.  Finiteness is needed because the code goes through
the documents one by one.  A task changes the maps many times, and the invariants hold only at its end, so that the
argument is about what each step of a loop keeps:

- `MapsOK`, at every point of a task: a number is that of one resolution; what is active is listened to; and of a
  document that did not go astray there is one resolution, or one place in the queue (`OneEach`).  `StopsWatched` and
  `NoLeak` are parts of it.  A new resolution needs a number that is free, and among one more than are in use one is
  (`NextIdIsFree`).
- `Settled`: the queue is empty or the maximum is reached.  The pump establishes it (`PumpKeepsMaps`: each round without
  it takes a document from the queue) without changing what is being resolved or waits (`Busy`); every step that makes
  room ends with the pump.  `WaitsOnlyWhenFull` is the same at the end of a task.
- `Tracks(s, Gone)`: a document is in limbo just if it is being resolved or waits, but for those astray.  `LimboTracked`
  is this with nothing in `Gone`.  During `RejectLimboTarget` it is not true of the document that was rejected: its
  resolution is given up, and another started, before the document leaves the cache and the views.  That document is in
  `Gone` until every view has heard of it; a view that is not up to date does not hear, and this is where documents go
  astray.
- `RefsOfViews` is not kept by the loop over the views but by its end: what a view passes on is the difference between
  the documents it had in limbo and those it has (`UpdateFacts`), in whatever order the views come (`EmittedFacts`).

`RunExists` shows that a loop has a state after each of its steps, which is what a recursive function on finitely
many numbers has to be shown to have, and `LoopKeeps` that what holds at the start and is kept by each step holds at
the end. They, `OrderExists` and `Greatest` are inductions over data.  The library's induction theorems are about
any predicate and cannot be used; the least-number principle (`NatLessThanWellFounded` and `WFMin`, from which
`Least` is proved) is about a set, and can: a smallest counterexample is refuted.  What is kept by a loop is
accordingly given as a set of states for each number of steps.

Every invariant that a passing run checks is proved, and so is the refinement.  Only
model-checked is liveness: `RootCatchesUp`, `StaleSessionEnds`, `WritesSettle`, `ListCatchesUp` and `NamesSettle`
need fairness and `ENABLED`, which are out of the prover's reach.  The two runs that expect a violation are
counterexamples and need no proof.

## Plan

1. `Session`, its runs and proofs: done.
2. `EmailUpdate` and its runs: done; `TypeOK` and `Agreement` are proved.
3. `ProfilePicture` and its run: done; its invariants are proved.
4. `WriteQueue` and `WritePipeline`, their run, the refinement and the proofs: done.
5. `LimboResolution` and its runs: done; its invariants are proved.
6. `NotesList` and its run: done; its invariants are proved.
7. `DisplayName`, its runs and proofs: done.
8. `KeyboardConstraint`: small, proved outright.
9. `App`: `Session` composed with `ProfilePicture` and the notes screens, for what the person sees: the stack of
   screens that a segue after a logout leaves behind.

## Not modelled

Layout, formatting and animation; `AppDelegate` (its reload on entering the foreground is not called in an app
with scenes); `AddUserDetailsViewController` (commented out); alerts; how a cell formats a note.  Firebase's servers
are not in the repository and appear as what the clients expect of them; security rules do not appear.  Of the
vendored code, Storage is an object per account and URLSession a request that answers or fails; Firestore's
listen stream, garbage collection, indexes, transactions, bundles and query execution, and gRPC, BoringSSL,
leveldb, abseil, nanopb and the rest of `Pods` are third-party code behind the interfaces modelled here.  That code
is nearly all of the repository's lines, so that the modules map a small share of them.  The keyboard
constraint is on the plan above.
