--------------------------- MODULE ProfilePicture ---------------------------
(***************************************************************************)
(* The profile pictures of the accounts that use one device.               *)
(*                                                                         *)
(* A picture is kept in four places: the image view of the settings        *)
(* screen, a local file per account, an object in Storage, and the photo   *)
(* URL of the account, which names such an object.  updateProfilePicture   *)
(* writes the file, uploads, asks for the URL, and stores it in the        *)
(* profile of whoever is signed in by then.  The settings screen reloads   *)
(* the user, downloads what the URL names, and overwrites file and view.   *)
(* Every step is an answer on its own: the session and the screen may have *)
(* changed in between, and uploads and downloads overtake each other.      *)
(*                                                                         *)
(* A handler on the main queue that reads the current user twice is two    *)
(* steps: FIRAuth's own queue may replace the user in between, while the   *)
(* main queue runs nothing else.  Sign-in, sign-up and sign-out are FIRAuth*)
(* steps here; module Session has what leads to them.  Storage and Auth    *)
(* are used as the app uses them.                                          *)
(***************************************************************************)
EXTENDS Naturals

CONSTANTS
    Uid,       \* account identifiers
    None,      \* nobody signed in, no picture, no URL
    Junk,      \* what a URL that is no longer valid answers: not an image
    Slot,      \* bound: names for the tasks under way at one time
    MaxPicks   \* bound: pictures chosen for each account

ASSUME PictureAssumption ==
    /\ None \notin Uid \cup {Junk} \cup [by : Uid, n : Nat]
    /\ Junk \notin [by : Uid, n : Nat]
    /\ MaxPicks \in [Uid -> Nat]

VARIABLES
    user,     \* uid of FIRAuth's current user
    cached,   \* the photo URL in the current FIRUser object
    photo,    \* Auth backend: whose Storage object an account's URL names
    stored,   \* Storage: the object <uid>/<uid>.jpg
    file,     \* the local file named <uid>
    screen,   \* whose settings screen is open
    view,     \* the picture it shows
    tasks,    \* sign-ups, uploads, reloads and downloads under way
    picks,    \* number of pictures chosen for each account
    crossed,  \* history: accounts for which two sessions were mixed up
    disturbed \* history: accounts one of whose changes was disturbed

vars == <<user, cached, photo, stored, file, screen, view, tasks, picks,
          crossed, disturbed>>

-----------------------------------------------------------------------------
\* The n-th picture chosen for an account.
Picture == {p \in [by : Uid, n : Nat \ {0}] : p.n <= MaxPicks[p.by]}

Uploading   == {"signedUp", "put", "url", "commit"}
Downloading == {"fetch", "fetched", "show"}

\* Stages in which a handler on the main queue has read the current user once
\* and is about to read it again.
Handling == {"opened", "start"}

\* uid: whose file or profile the task writes; url: whose object it is about;
\* shown: its screen is still open; current: its FIRUser is.
Task == [slot : Slot,
         stage : Uploading \cup Downloading \cup Handling
                 \cup {"reload", "read"},
         uid : Uid \cup {None}, url : Uid, pic : Picture \cup {None, Junk},
         shown : BOOLEAN, current : BOOLEAN]

TypeOK ==
    /\ user \in Uid \cup {None}
    /\ cached \in Uid \cup {None}
    /\ photo \in [Uid -> Uid \cup {None}]
    /\ stored \in [Uid -> Picture \cup {None}]
    /\ file \in [Uid -> Picture \cup {None, Junk}]
    /\ screen \in Uid \cup {None}
    /\ view \in Picture \cup {None, Junk}
    /\ tasks \in SUBSET Task
    /\ picks \in [Uid -> Nat]
    /\ \A u \in Uid : picks[u] <= MaxPicks[u]
    /\ crossed \in SUBSET Uid
    /\ disturbed \in SUBSET Uid

Newest(u) == [by |-> u, n |-> picks[u]]

\* The picture about to be chosen.
Chosen(u) == [by |-> u, n |-> picks[u] + 1]

\* Tasks in the given stages about u's file, profile or object.
Among(S, u, stages) == {t \in S : u \in {t.uid, t.url} /\ t.stage \in stages}
About(u, stages) == Among(tasks, u, stages)

Quiet(u) == About(u, Uploading \cup Downloading) = {}

MainFree == \A t \in tasks : t.stage \notin Handling

Init ==
    /\ user = None
    /\ cached = None
    /\ photo = [u \in Uid |-> None]
    /\ stored = [u \in Uid |-> None]
    /\ file = [u \in Uid |-> None]
    /\ screen = None
    /\ view = None
    /\ tasks = {}
    /\ picks = [u \in Uid |-> 0]
    /\ crossed = {}
    /\ disturbed = {}

-----------------------------------------------------------------------------
(***************************************************************************)
(* Sessions and screens.                                                   *)
(***************************************************************************)
FreeSlots(S) == Slot \ {t.slot : t \in S}

\* A new FIRUser object: requests about the old one go on without it.
Replaced == {[t EXCEPT !.current = FALSE] : t \in tasks}

Hidden == {[t EXCEPT !.shown = FALSE] : t \in tasks}

\* Signing in, in place of whoever is signed in; the FIRUser gets the URL the
\* account has now.
SignIn(u) ==
    /\ picks[u] > 0
    /\ user' = u
    /\ cached' = photo[u]
    /\ tasks' = Replaced
    /\ UNCHANGED <<photo, stored, file, screen, view, picks, crossed,
                   disturbed>>

\* createUser has signed the new account in, and queues its completion.
SignUp(u) ==
    /\ picks[u] = 0 /\ MaxPicks[u] > 0
    /\ user' = u
    /\ cached' = None
    /\ picks' = [picks EXCEPT ![u] = 1]
    /\ \E s \in FreeSlots(tasks) :
          tasks' = Replaced \cup
              {[slot |-> s, stage |-> "signedUp", uid |-> u, url |-> u,
                pic |-> Chosen(u), shown |-> FALSE, current |-> FALSE]}
    /\ UNCHANGED <<photo, stored, file, screen, view, crossed, disturbed>>

\* Signing out, by the app or by FIRAuth when the backend refuses the token.
SignOut ==
    /\ user # None
    /\ user' = None
    /\ cached' = None
    /\ tasks' = Replaced
    /\ UNCHANGED <<photo, stored, file, screen, view, picks, crossed,
                   disturbed>>

\* Going back, or the root controller is replaced after a change of the user.
CloseSettings ==
    /\ MainFree
    /\ screen # None
    /\ screen' = None
    /\ view' = None
    /\ tasks' = Hidden
    /\ UNCHANGED <<user, cached, photo, stored, file, picks, crossed,
                   disturbed>>

\* getProfilePicture shows the local file.  A new account has none before its
\* picture is uploaded.
OpenSettings ==
    /\ MainFree
    /\ user # None /\ screen = None
    /\ screen' = user
    /\ view' = file[user]
    /\ \E s \in FreeSlots(tasks) :
          tasks' = tasks \cup
              {[slot |-> s, stage |-> "opened", uid |-> user, url |-> user,
                pic |-> None, shown |-> TRUE, current |-> FALSE]}
    /\ disturbed' = disturbed \cup
                    {u \in {user} : About(u, {"signedUp"}) # {}}
    /\ UNCHANGED <<user, cached, photo, stored, file, picks, crossed>>

\* Then it reloads whoever is signed in now, if anybody.
SendReload(t) ==
    /\ t.stage = "opened"
    /\ tasks' = (tasks \ {t}) \cup
                {[t EXCEPT !.stage = "reload", !.uid = u, !.url = u,
                           !.current = TRUE] : u \in {user} \ {None}}
    /\ UNCHANGED <<user, cached, photo, stored, file, screen, view, picks,
                   crossed, disturbed>>

\* The process ends, because it is killed or because downloadProfilePicture
\* unwraps an image or a user it does not have.
Crash ==
    /\ tasks' = {}
    /\ screen' = None
    /\ view' = None
    /\ disturbed' = disturbed \cup {u \in Uid : About(u, Uploading) # {}}
    /\ UNCHANGED <<user, cached, photo, stored, file, picks, crossed>>

-----------------------------------------------------------------------------
(***************************************************************************)
(* updateProfilePicture.                                                   *)
(***************************************************************************)
\* Nobody is signed in: the picture goes nowhere.
NotUploaded(pic, others) ==
    /\ user = None
    /\ tasks' = others
    /\ disturbed' = disturbed \cup {pic.by}
    /\ UNCHANGED <<file, crossed>>

\* Variant: the picture is not saved locally.
Upload_NotSaved(pic, others) ==
    /\ user # None
    /\ \E s \in FreeSlots(others) :
          tasks' = others \cup
              {[slot |-> s, stage |-> "put", uid |-> user, url |-> user,
                pic |-> pic, shown |-> FALSE, current |-> FALSE]}
    /\ crossed' = crossed \cup ({user} \ {pic.by})
    /\ disturbed' = disturbed \cup ({pic.by} \ {user})
    /\ UNCHANGED file

\* Save the picture locally, unless the disk refuses, and start the upload, as
\* the picture of whoever is signed in.  A picture chosen while another one of
\* the account is on its way disturbs it.
Upload(pic, others) ==
    /\ user # None
    /\ \E s \in FreeSlots(others) :
          tasks' = others \cup
              {[slot |-> s, stage |-> "put", uid |-> user, url |-> user,
                pic |-> pic, shown |-> FALSE, current |-> FALSE]}
    /\ crossed' = crossed \cup ({user} \ {pic.by})
    /\ \/ /\ file' = [file EXCEPT ![user] = pic]
          /\ disturbed' = disturbed \cup ({pic.by} \ {user}) \cup
                {u \in {user} :
                    Among(others, u, Uploading \cup Downloading) # {}}
       \/ /\ disturbed' = disturbed \cup {pic.by, user}
          /\ UNCHANGED file

\* createUser's completion, with the picture of the sign-up screen.
SignUpCompletion(t) ==
    /\ MainFree
    /\ t.stage = "signedUp"
    /\ NotUploaded(t.pic, tasks \ {t}) \/ Upload(t.pic, tasks \ {t})
    /\ UNCHANGED <<user, cached, photo, stored, screen, view, picks>>

\* didFinishPickingMediaWithInfo of the settings screen.
PickPicture ==
    /\ MainFree
    /\ screen # None
    /\ picks[screen] < MaxPicks[screen]
    /\ picks' = [picks EXCEPT ![screen] = @ + 1]
    /\ view' = Chosen(screen)
    /\ NotUploaded(Chosen(screen), tasks) \/ Upload(Chosen(screen), tasks)
    /\ UNCHANGED <<user, cached, photo, stored, screen>>

\* Storage has the object; the completion asks for its URL.
PutData(t) ==
    /\ t.stage = "put"
    /\ stored' = [stored EXCEPT ![t.url] = t.pic]
    /\ tasks' = (tasks \ {t}) \cup {[t EXCEPT !.stage = "url", !.pic = None]}
    /\ UNCHANGED <<user, cached, photo, file, screen, view, picks, crossed,
                   disturbed>>

\* The URL is known; the change request is one for the current user, if any.
DownloadUrl(t) ==
    /\ MainFree
    /\ t.stage = "url"
    /\ tasks' = (tasks \ {t}) \cup
                {[t EXCEPT !.stage = "commit", !.uid = u, !.current = TRUE] :
                    u \in {user} \ {None}}
    /\ disturbed' = disturbed \cup ({t.url} \ {user})
    /\ UNCHANGED <<user, cached, photo, stored, file, screen, view, picks,
                   crossed>>

\* commitChanges: the account has the URL, and the FIRUser if it is current
\* and the answer arrives.
Commit(t) ==
    /\ t.stage = "commit"
    /\ photo' = [photo EXCEPT ![t.uid] = t.url]
    /\ cached' \in {cached, IF t.current THEN t.url ELSE cached}
    /\ tasks' = tasks \ {t}
    /\ crossed' = crossed \cup ({t.uid} \ {t.url})
    /\ UNCHANGED <<user, stored, file, screen, view, picks, disturbed>>

\* An error of the network or a backend: it is printed.
Fail(t) ==
    /\ t.stage \in {"put", "url", "commit", "reload"}
    /\ tasks' = tasks \ {t}
    /\ disturbed' = disturbed \cup
                    (IF t.stage = "reload" THEN {} ELSE {t.uid, t.url})
    /\ UNCHANGED <<user, cached, photo, stored, file, screen, view, picks,
                   crossed>>

-----------------------------------------------------------------------------
(***************************************************************************)
(* getProfilePicture, after its reload, and downloadProfilePicture.        *)
(***************************************************************************)
\* The answer of the reload brings the URL to the FIRUser it was sent for.
Reload(t) ==
    /\ t.stage = "reload"
    /\ cached' = IF t.current THEN photo[t.uid] ELSE cached
    /\ tasks' = (tasks \ {t}) \cup
                {[t EXCEPT !.stage = "read", !.current = FALSE]}
    /\ UNCHANGED <<user, photo, stored, file, screen, view, picks, crossed,
                   disturbed>>

\* Variant: without the guard on photoURL.
ReadUrl_NoGuard(t) ==
    /\ MainFree
    /\ t.stage = "read"
    /\ tasks' = (tasks \ {t}) \cup
                {[t EXCEPT !.stage = "start", !.uid = user, !.url = cached]}
    /\ UNCHANGED <<user, cached, photo, stored, file, screen, view, picks,
                   crossed, disturbed>>

\* The reload's completion reads the URL of whoever is signed in now.
ReadUrl(t) ==
    /\ MainFree
    /\ t.stage = "read"
    /\ tasks' = (tasks \ {t}) \cup
                {[t EXCEPT !.stage = "start", !.uid = user, !.url = url] :
                    url \in {cached} \ {None}}
    /\ UNCHANGED <<user, cached, photo, stored, file, screen, view, picks,
                   crossed, disturbed>>

\* downloadProfilePicture, for the file of whoever is signed in by then, if
\* anybody: neither that account nor the one on the screen need be the one the
\* URL was read for.  A download that may read the object before an upload has
\* changed it disturbs the picture.
StartDownload(t) ==
    LET targets == {user} \cup (IF t.shown THEN {screen} ELSE {}) IN
    /\ t.stage = "start"
    /\ tasks' = (tasks \ {t}) \cup {[t EXCEPT !.stage = "fetch", !.uid = user]}
    /\ crossed' = crossed \cup (targets \ {t.uid, None})
    /\ disturbed' = disturbed \cup
                    {u \in {user, t.url} : About(u, {"signedUp", "put"}) # {}}
    /\ UNCHANGED <<user, cached, photo, stored, file, screen, view, picks>>

\* Storage answers with the object, or with an error document.
Fetch(t) ==
    /\ t.stage = "fetch" /\ t.uid # None
    /\ \E data \in {stored[t.url], Junk} \ {None} :
          /\ tasks' = (tasks \ {t}) \cup
                      {[t EXCEPT !.stage = "fetched", !.pic = data]}
          /\ disturbed' = disturbed \cup
                          (IF data = Junk THEN {t.uid, t.url} ELSE {})
    /\ UNCHANGED <<user, cached, photo, stored, file, screen, view, picks,
                   crossed>>

\* Variant: the file of whoever is signed in when the data arrives.
Save_CurrentUser(t) ==
    /\ t.stage = "fetched" /\ user # None
    /\ file' = [file EXCEPT ![user] = t.pic]
    /\ tasks' = (tasks \ {t}) \cup {[t EXCEPT !.stage = "show"]}
    /\ UNCHANGED <<user, cached, photo, stored, screen, view, picks, crossed,
                   disturbed>>

\* saveLocalImage, on URLSession's queue, for the user the download began for.
Save(t) ==
    /\ t.stage = "fetched"
    /\ \/ file' = [file EXCEPT ![t.uid] = t.pic] /\ UNCHANGED disturbed
       \/ UNCHANGED file /\ disturbed' = disturbed \cup {t.uid}
    /\ tasks' = (tasks \ {t}) \cup {[t EXCEPT !.stage = "show"]}
    /\ UNCHANGED <<user, cached, photo, stored, screen, view, picks, crossed>>

\* The completion, on the main queue, for the view of its own screen.
Show(t) ==
    /\ MainFree
    /\ t.stage = "show"
    /\ view' = IF t.shown THEN t.pic ELSE view
    /\ tasks' = tasks \ {t}
    /\ UNCHANGED <<user, cached, photo, stored, file, screen, picks, crossed,
                   disturbed>>

\* The completion is called with image!, which is nil; or user! is.
DownloadFails(t) ==
    /\ t.stage = "fetch"
    /\ Crash

-----------------------------------------------------------------------------
Answers(t) ==
    \/ SignUpCompletion(t) \/ PutData(t) \/ DownloadUrl(t) \/ Commit(t)
    \/ Fail(t) \/ SendReload(t) \/ Reload(t) \/ ReadUrl(t) \/ StartDownload(t)
    \/ Fetch(t) \/ Save(t) \/ Show(t) \/ DownloadFails(t)

Next ==
    \/ \E u \in Uid : SignIn(u) \/ SignUp(u)
    \/ SignOut \/ OpenSettings \/ CloseSettings \/ PickPicture \/ Crash
    \/ \E t \in tasks : Answers(t)

Spec == Init /\ [][Next]_vars

-----------------------------------------------------------------------------
(***************************************************************************)
(* Properties.                                                             *)
(***************************************************************************)
IsOwn(data, u) == data \in {None, Junk} \/ data.by = u

\* An account has another's picture in Storage, on disk or on its settings
\* screen only if two sessions were mixed up for it: a sign-up completion or a
\* picture chosen on another's screen was uploaded as its own, its profile was
\* given the URL of another's object, or a download was for its file or screen
\* whose URL was read in another session.  No other order of sign-ins,
\* sign-outs, screens, uploads and late answers does that.
OwnPictures ==
    \A u \in Uid \ crossed :
        /\ IsOwn(stored[u], u) /\ IsOwn(file[u], u)
        /\ screen = u => IsOwn(view, u)

\* When nothing about an account is under way, file, Storage, photo URL and
\* the open screen agree on the picture chosen last, unless two sessions were
\* mixed up, a request or a write failed, nobody was signed in, the session
\* ended before the URL was known, or an upload overlapped with another one,
\* with a download or with the opening of the screen.
PicturesAgree ==
    \A u \in Uid \ (crossed \cup disturbed) : (Quiet(u) /\ picks[u] > 0) =>
        /\ file[u] = Newest(u) /\ stored[u] = Newest(u) /\ photo[u] = u
        /\ screen = u => view = Newest(u)
=============================================================================
