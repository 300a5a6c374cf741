------------------------------ MODULE Session ------------------------------
(***************************************************************************)
(* The signed-in session of one device.                                    *)
(*                                                                         *)
(* FIRAuth keeps the current user on its serial work queue and tells the   *)
(* app about changes with blocks on the main queue.  SceneDelegate turns   *)
(* those blocks into the root view controller; the login, sign-up,         *)
(* settings and password screens send requests to the Auth backend and act *)
(* on the answers, again in main-queue blocks; and the settings screen     *)
(* leaves a Firestore snapshot listener behind that signs the device out   *)
(* when the e-mail of the document differs from that of the session.       *)
(*                                                                         *)
(* E-mail addresses are numbered per account: n > 0 stands for the n-th    *)
(* address the account has had.  The document may hold any of them at any  *)
(* time, since devices write it after the account and in any order, or 0,  *)
(* a text that is none of them: sign-up stores the address with the spaces *)
(* it does not give to Auth, and the screens read their text fields again. *)
(* Passwords are not data: the backend accepts or refuses.                 *)
(***************************************************************************)
EXTENDS Naturals, Sequences

CONSTANTS
    Uid,          \* account identifiers
    NoUser,       \* "nobody": a nil FIRUser, or nil as a uid
    Unset,        \* previousUserID before the listener's first invocation
    Slot,         \* bound: names for the requests under way at one time
    MaxChanges,   \* bound: e-mail changes of each account by other devices
    MaxMain       \* bound: main-queue length at which producers wait

ASSUME SessionAssumption ==
    /\ NoUser \notin Uid \cup [uid : Uid, email : Nat]
    /\ Unset \notin Uid \cup {NoUser}
    /\ MaxChanges \in [Uid -> Nat] /\ MaxMain \in Nat

VARIABLES
    account,      \* Auth backend: number of the account's current e-mail; 0:
                  \* there is no such account yet
    documents,    \* Firestore: accounts whose document users/<uid> is there
    currentUser,  \* FIRAuth._currentUser
    keychain,     \* the user FIRAuth has saved to disk
    ready,        \* FIRAuth has tried to read the keychain since the launch
    requests,     \* requests to the Auth backend under way
    main,         \* blocks waiting on the main queue
    prevUid,      \* previousUserID of the state listener
    rootOwner,    \* whose home the root controller shows; NoUser: login
    screen,       \* the screen the person sees
    listeners,    \* accounts whose document a settings screen listens to
    verified      \* history: accounts whose password was accepted since launch

cloudVars == <<account, documents>>
authVars  == <<currentUser, keychain, ready, verified>>
uiVars    == <<prevUid, rootOwner, screen>>
vars == <<cloudVars, authVars, requests, main, uiVars, listeners>>

-----------------------------------------------------------------------------
SignIns     == {"login", "signUp", "emailRow", "checkPassword"}
UserUpdates == {"reload", "setPassword"}
LoginScreens == {"Welcome", "Login", "SignUp"}
HomeScreens  == {"Home", "Settings", "UpdateEmail", "Password"}

Senders      == {"Login", "Settings", "Password", "gone"}

\* A FIRUser object: its account and the e-mail it has cached.
User == [uid : Uid, email : Nat]

\* by: the code that sent it; object: whether the FIRUser it is about is
\* still the current user; from: the screen that sent it, while that screen
\* is in the window and the answer makes it move on.
Request == [slot : Slot, by : SignIns \cup UserUpdates, uid : Uid,
            email : Nat, object : {"new", "current", "replaced"},
            from : Senders, stage : {"password", "info", "done"}]

\* "notify" posts FIRAuthStateDidChangeNotification, "snapshot" is an event
\* of users/<uid>, the others are completions of successful requests.
Block == [by : {"notify"}, uid : {NoUser}, email : Nat, from : Senders]
         \cup [by : SignIns \cup UserUpdates \cup {"snapshot"}, uid : Uid,
               email : Nat, from : Senders]

TypeOK ==
    /\ account \in [Uid -> Nat]
    /\ documents \in SUBSET Uid
    /\ currentUser \in User \cup {NoUser}
    /\ keychain \in User \cup {NoUser}
    /\ ready \in BOOLEAN
    /\ requests \in SUBSET Request
    /\ main \in Seq(Block)
    /\ prevUid \in Uid \cup {NoUser, Unset}
    /\ rootOwner \in Uid \cup {NoUser}
    /\ screen \in LoginScreens \cup HomeScreens
    /\ listeners \in SUBSET Uid
    /\ verified \in SUBSET Uid

\* Variant: the state listener remembers the FIRUser, not its uid.
UidOf_Object(user) == user

UidOf(user) == IF user = NoUser THEN NoUser ELSE user.uid

Notify == [by |-> "notify", uid |-> NoUser, email |-> 0, from |-> "gone"]
Snapshot(u, e) == [by |-> "snapshot", uid |-> u, email |-> e, from |-> "gone"]
Completion(r) == [by |-> r.by, uid |-> r.uid, email |-> r.email,
                  from |-> r.from]

-----------------------------------------------------------------------------
(***************************************************************************)
(* Launch.  The window starts on the storyboard's initial controller, the  *)
(* listener's first invocation is queued, and FIRAuth reads the keychain   *)
(* on its own queue: either may come first.  Some accounts are there, with *)
(* their documents, and others not yet.                                    *)
(***************************************************************************)
Init ==
    /\ account \in [Uid -> {0, 1}]
    /\ documents = {u \in Uid : account[u] = 1}
    /\ currentUser = NoUser
    /\ \/ keychain = NoUser
       \/ \E u \in documents : keychain = [uid |-> u, email |-> 1]
    /\ ready = FALSE
    /\ requests = {}
    /\ main = <<Notify>>
    /\ prevUid = Unset
    /\ rootOwner = NoUser
    /\ screen = "Welcome"
    /\ listeners = {}
    /\ verified = {}

\* The process is killed and started again: the keychain is on disk.
Relaunch ==
    /\ currentUser' = NoUser
    /\ ready' = FALSE
    /\ requests' = {}
    /\ main' = <<Notify>>
    /\ prevUid' = Unset
    /\ rootOwner' = NoUser
    /\ screen' = "Welcome"
    /\ listeners' = {}
    /\ verified' = {}
    /\ UNCHANGED <<cloudVars, keychain>>

\* Variant: it is left to the listener's first invocation to see the user.
LoadKeychain_Silent ==
    /\ ~ready
    /\ ready' = TRUE
    /\ currentUser' \in {keychain, NoUser}
    /\ UNCHANGED <<cloudVars, keychain, verified, requests, main, uiVars, listeners>>

\* The keychain may also be unreadable, which is only logged.
LoadKeychain ==
    /\ ~ready
    /\ ready' = TRUE
    /\ \/ /\ keychain # NoUser
          /\ currentUser' = keychain
          /\ main' = Append(main, Notify)
       \/ UNCHANGED <<currentUser, main>>
    /\ UNCHANGED <<cloudVars, keychain, verified, requests, uiVars, listeners>>

-----------------------------------------------------------------------------
(***************************************************************************)
(* FIRAuth: requests to the backend, and the current user they change.     *)
(***************************************************************************)
Send(by, user, stage, from) ==
    /\ Len(main) < MaxMain
    /\ \E s \in Slot \ {r.slot : r \in requests} :
          requests' = requests \cup
              {[slot |-> s, by |-> by, uid |-> user.uid, email |-> user.email,
                object |-> IF by \in SignIns THEN "new" ELSE "current",
                from |-> from, stage |-> stage]}

Answer(r, answered) ==
    /\ requests' = (requests \ {r}) \cup {answered}
    /\ UNCHANGED <<cloudVars, authVars, main, uiVars, listeners>>

\* verifyPassword: the backend knows accounts by their current address.
VerifyPassword(r) ==
    /\ ready
    /\ r.by # "signUp"
    /\ r.stage = "password"
    /\ r.email = account[r.uid]
    /\ Answer(r, [r EXCEPT !.stage = "info"])

\* signUpNewUser: the account is there from now on, whatever becomes of the
\* answer; the rest of createUser is that of any sign-in.
CreateUser(r) ==
    /\ ready
    /\ r.by = "signUp"
    /\ r.stage = "password"
    /\ account[r.uid] = 0
    /\ account' = [account EXCEPT ![r.uid] = 1]
    /\ requests' = (requests \ {r}) \cup {[r EXCEPT !.stage = "info"]}
    /\ UNCHANGED <<documents, authVars, main, uiVars, listeners>>

\* getAccountInfo: the answer carries the address the account has now, and
\* may be overtaken by later changes on its way.
GetAccountInfo(r) ==
    /\ ready
    /\ r.stage = "info"
    /\ Answer(r, [r EXCEPT !.stage = "done", !.email = account[r.uid]])

\* Variant: checkCurrentPassword ignores the error.
Fail_Ignored(r) ==
    /\ Len(main) < MaxMain
    /\ requests' = requests \ {r}
    /\ main' = Append(main, Completion(r))
    /\ UNCHANGED <<cloudVars, authVars, uiVars, listeners>>

\* The network, the backend or the keychain refuses: the completion only
\* shows a message.
Fail(r) ==
    /\ requests' = requests \ {r}
    /\ UNCHANGED <<cloudVars, authVars, main, uiVars, listeners>>

\* updateCurrentUser:byForce:savingToDisk:, with NoUser a sign-out.  Requests
\* about the previous FIRUser object go on, but not in this session.
Replaced(r) == IF r.object = "current" THEN [r EXCEPT !.object = "replaced"]
               ELSE r

UpdateCurrentUser(user, queue, others) ==
    /\ currentUser' = user
    /\ main' = queue
    /\ requests' = {Replaced(r) : r \in others}

\* A sign-in ends on the work queue.  A new user object replaces whoever is
\* signed in by then; the notification is queued before the completion.
FinishSignIn(r) ==
    LET user == [uid |-> r.uid, email |-> r.email] IN
    /\ ready
    /\ r.by \in SignIns
    /\ r.stage = "done"
    /\ Len(main) < MaxMain
    /\ UpdateCurrentUser(user, Append(Append(main, Notify), Completion(r)),
                         requests \ {r})
    /\ keychain' = user
    /\ verified' = verified \cup {r.uid}
    /\ UNCHANGED <<cloudVars, ready, uiVars, listeners>>

\* Variant: updateKeychainWithUser without its "no longer signed in" check.
FinishUserUpdate_AnyUser(r) ==
    LET renewed == [currentUser EXCEPT !.email = r.email] IN
    /\ r.by \in UserUpdates
    /\ r.stage = "done"
    /\ currentUser # NoUser
    /\ currentUser' = renewed
    /\ keychain' = renewed
    /\ requests' = requests \ {r}
    /\ UNCHANGED <<cloudVars, ready, verified, main, uiVars, listeners>>

\* An operation on a user object ends.  Its effect shows in the session only
\* while the object is still the current user.  The token it refreshed may be
\* new, and the keychain may refuse.
FinishUserUpdate(r) ==
    LET renewed == [currentUser EXCEPT !.email = r.email]
        Post(q) == IF r.by = "reload" THEN q ELSE Append(q, Completion(r))
    IN
    /\ r.by \in UserUpdates
    /\ r.stage = "done"
    /\ Len(main) < MaxMain
    /\ IF r.object = "current"
       THEN /\ currentUser' = renewed
            /\ \/ /\ keychain' = renewed
                  /\ main' \in {Post(main), Post(Append(main, Notify))}
               \/ UNCHANGED <<keychain, main>>
       ELSE /\ main' = Post(main)
            /\ UNCHANGED <<currentUser, keychain>>
    /\ requests' = requests \ {r}
    /\ UNCHANGED <<cloudVars, ready, verified, uiVars, listeners>>

\* Variant: the session ends without a notification.
TokenRevoked_Silent(r) ==
    /\ ready
    /\ r.by \in UserUpdates
    /\ r.stage = "info"
    /\ IF r.object = "current"
       THEN UpdateCurrentUser(NoUser, main, requests \ {r}) /\ keychain' = NoUser
       ELSE requests' = requests \ {r} /\ UNCHANGED <<currentUser, keychain, main>>
    /\ UNCHANGED <<cloudVars, ready, verified, uiVars, listeners>>

\* signOutIfTokenIsInvalid: a user's request learns that the account or the
\* token is gone; the session ends even if the keychain refuses.
TokenRevoked(r) ==
    /\ ready
    /\ r.by \in UserUpdates
    /\ r.stage = "info"
    /\ Len(main) < MaxMain
    /\ IF r.object = "current"
       THEN /\ UpdateCurrentUser(NoUser, Append(main, Notify),
                                 requests \ {r})
            /\ keychain' \in {NoUser, keychain}
       ELSE /\ requests' = requests \ {r}
            /\ UNCHANGED <<currentUser, keychain, main>>
    /\ UNCHANGED <<cloudVars, ready, verified, uiVars, listeners>>

\* ProfileUpdate.logout: signOut does nothing when nobody is signed in, and
\* an error of the keychain is only printed.
Logout(queue) ==
    \/ /\ currentUser # NoUser
       /\ UpdateCurrentUser(NoUser, Append(queue, Notify), requests)
       /\ keychain' = NoUser
    \/ /\ main' = queue
       /\ UNCHANGED <<currentUser, keychain, requests>>

-----------------------------------------------------------------------------
(***************************************************************************)
(* What the person does on the screens.                                    *)
(***************************************************************************)
Hide(x, screens) == IF x.from \in screens THEN [x EXCEPT !.from = "gone"]
                    ELSE x

HideIn(S, screens) == {Hide(r, screens) : r \in S}
HideInQueue(q, screens) == [i \in 1..Len(q) |-> Hide(q[i], screens)]

\* The person leaves a screen; going back takes it out of the window for
\* good, and nothing its completions do moves a later screen on.
Leave(from, to, closed) ==
    /\ screen = from
    /\ screen' = to
    /\ requests' = HideIn(requests, closed)
    /\ main' = HideInQueue(main, closed)

\* Segues of the storyboard, going back, and dismissing the two sheets.
Navigate ==
    /\ \/ Leave("Welcome", "Login", {})
       \/ Leave("Login", "Welcome", {"Login"})
       \/ Leave("Welcome", "SignUp", {})
       \/ Leave("SignUp", "Welcome", {})
       \/ Leave("Settings", "Home", {"Settings"})
       \/ Leave("Settings", "Password", {})
       \/ Leave("Password", "Settings", {"Password"})
       \/ Leave("UpdateEmail", "Settings", {})
    /\ UNCHANGED <<cloudVars, authVars, prevUid, rootOwner, listeners>>

\* The button stays enabled: a second press sends a second request.
LoginPressed(u) ==
    /\ screen = "Login"
    /\ account[u] # 0
    /\ Send("login", [uid |-> u, email |-> account[u]], "password",
            screen)
    /\ UNCHANGED <<cloudVars, authVars, main, uiVars, listeners>>

\* signUpButtonPressed, for the account that createUser is going to make.
SignUpPressed(u) ==
    /\ screen = "SignUp"
    /\ account[u] = 0
    /\ Send("signUp", [uid |-> u, email |-> 0], "password", "gone")
    /\ UNCHANGED <<cloudVars, authVars, main, uiVars, listeners>>

\* viewDidLoad of the settings screen: attach a listener nobody removes, and
\* reload the user.  Its two reloads are one here; a person who comes back to
\* the screen has several under way.
OpenSettings ==
    /\ screen = "Home"
    /\ screen' = "Settings"
    /\ IF currentUser = NoUser
       THEN UNCHANGED <<requests, listeners>>
       ELSE /\ listeners' = listeners \cup {currentUser.uid}
            /\ Send("reload", currentUser, "info", "gone")
    /\ UNCHANGED <<cloudVars, authVars, main, prevUid, rootOwner>>

\* emailRowPressed and checkCurrentPassword sign the current user in again.
Reauthenticate ==
    /\ currentUser # NoUser
    /\ \/ /\ screen = "Settings"
          /\ Send("emailRow", currentUser, "password", screen)
       \/ /\ screen = "Password"
          /\ Send("checkPassword", currentUser, "password", screen)
    /\ UNCHANGED <<cloudVars, authVars, main, uiVars, listeners>>

LogoutPressed ==
    /\ screen = "Settings"
    /\ Len(main) < MaxMain
    /\ Logout(main)
    /\ UNCHANGED <<cloudVars, ready, verified, uiVars, listeners>>

-----------------------------------------------------------------------------
(***************************************************************************)
(* Blocks on the main queue.                                               *)
(***************************************************************************)
Runs(kinds) == main # <<>> /\ Head(main).by \in kinds

\* Variant: the listener only notices signing in and signing out.
StateDidChange_NilOnly ==
    LET uid == UidOf(currentUser) IN
    /\ Runs({"notify"})
    /\ prevUid' = uid
    /\ main' = Tail(main)
    /\ IF prevUid # Unset /\ (uid = NoUser) = (prevUid = NoUser)
       THEN UNCHANGED <<rootOwner, screen>>
       ELSE /\ rootOwner' = uid
            /\ screen' = IF uid = NoUser THEN "Welcome" ELSE "Home"
    /\ UNCHANGED <<cloudVars, authVars, requests, listeners>>

\* The state listener reads the user when it runs, not when it was posted,
\* and calls SceneDelegate only when the uid differs from the last one.  A
\* new root controller leaves none of the old screens in the window.
StateDidChange ==
    LET uid == UidOf(currentUser) IN
    /\ Runs({"notify"})
    /\ prevUid' = uid
    /\ IF uid = prevUid
       THEN main' = Tail(main) /\ UNCHANGED <<rootOwner, screen, requests>>
       ELSE /\ rootOwner' = uid
            /\ screen' = IF uid = NoUser THEN "Welcome" ELSE "Home"
            /\ requests' = HideIn(requests, Senders)
            /\ main' = HideInQueue(Tail(main), Senders)
    /\ UNCHANGED <<cloudVars, authVars, listeners>>

\* Completions that only move on from their screen: perform a segue, or
\* dismiss the password sheet.
MoveOn ==
    LET b == Head(main)
        Segue(kind, to) ==
            /\ b.by = kind
            /\ screen' = IF screen = b.from THEN to ELSE screen
    IN
    /\ Runs({"login", "emailRow", "setPassword"})
    /\ main' = Tail(main)
    /\ \/ Segue("login", "Home")
       \/ Segue("emailRow", "UpdateEmail")
       \/ Segue("setPassword", "Settings")
    /\ UNCHANGED <<cloudVars, authVars, requests, prevUid, rootOwner,
                   listeners>>

\* createUser's completion writes the document; the root controller is the
\* state listener's business.  Name and picture are in other modules.
SignUpCompletion ==
    /\ Runs({"signUp"})
    /\ main' = Tail(main)
    /\ documents' = documents \cup {Head(main).uid}
    /\ UNCHANGED <<account, authVars, requests, uiVars, listeners>>

\* The current password was accepted: whoever is signed in NOW gets the new
\* password, if the two fields agree now.
PasswordChecked ==
    /\ Runs({"checkPassword"})
    /\ main' = Tail(main)
    /\ \/ /\ currentUser # NoUser
          /\ Send("setPassword", currentUser, "info", Head(main).from)
       \/ UNCHANGED requests
    /\ UNCHANGED <<cloudVars, authVars, uiVars, listeners>>

SameEmail(b, user) == b.uid = user.uid /\ b.email = user.email

\* checkForEmailUpdate's listener: whatever account the document belongs to,
\* an address other than the session's means sign out.
EmailSnapshot ==
    /\ Runs({"snapshot"})
    /\ IF currentUser # NoUser /\ SameEmail(Head(main), currentUser)
       THEN main' = Tail(main) /\ UNCHANGED <<currentUser, keychain, requests>>
       ELSE Logout(Tail(main))
    /\ UNCHANGED <<cloudVars, ready, verified, uiVars, listeners>>

-----------------------------------------------------------------------------
(***************************************************************************)
(* Firestore and the other devices.                                        *)
(***************************************************************************)
\* An event of the document, once there is one: when the listener is attached,
\* when any field changes, or when the backend's version arrives.
EmitSnapshot(u) ==
    /\ u \in listeners \cap documents
    /\ Len(main) < MaxMain
    /\ \E n \in 0..account[u] : main' = Append(main, Snapshot(u, n))
    /\ UNCHANGED <<cloudVars, authVars, requests, uiVars, listeners>>

\* The backend refuses a listen; the listener prints the error and is gone.
ListenRejected(u) ==
    /\ u \in listeners
    /\ listeners' = listeners \ {u}
    /\ UNCHANGED <<cloudVars, authVars, requests, main, uiVars>>

\* Another device changes the e-mail of the account.
RemoteEmailChange(u) ==
    /\ account[u] \in 1..MaxChanges[u]
    /\ account' = [account EXCEPT ![u] = @ + 1]
    /\ UNCHANGED <<documents, authVars, requests, main, uiVars, listeners>>

-----------------------------------------------------------------------------
RunMain == \/ StateDidChange \/ MoveOn \/ SignUpCompletion
           \/ PasswordChecked \/ EmailSnapshot

Auth == \/ LoadKeychain
        \/ \E r \in requests :
              \/ VerifyPassword(r) \/ CreateUser(r)
              \/ GetAccountInfo(r) \/ Fail(r)
              \/ FinishSignIn(r) \/ FinishUserUpdate(r) \/ TokenRevoked(r)

Cloud == \E u \in Uid : \/ EmitSnapshot(u) \/ ListenRejected(u)
                        \/ RemoteEmailChange(u)

Person == \/ Navigate \/ OpenSettings \/ Reauthenticate \/ LogoutPressed
          \/ \E u \in Uid : LoginPressed(u) \/ SignUpPressed(u)

Next == Relaunch \/ RunMain \/ Auth \/ Cloud \/ Person

Spec == Init /\ [][Next]_vars

\* The main queue and Auth's work queue keep running.
FairSpec == Spec /\ WF_vars(RunMain) /\ WF_vars(LoadKeychain)
-----------------------------------------------------------------------------
(***************************************************************************)
(* Properties.                                                             *)
(***************************************************************************)
Pending == \E i \in 1..Len(main) : main[i].by = "notify"

\* SceneDelegate's root controller shows the home of exactly the account that
\* is signed in, and the login screens when nobody is, whenever no state
\* notification is waiting: neither the comparison with previousUserID nor a
\* user replaced twice between two notifications loses a change.
RootFollowsUser ==
    Pending \/ (prevUid = UidOf(currentUser) /\ rootOwner = prevUid)

\* The completions of sign-ins, which show the home screens, open the e-mail
\* screen or change a password, find somebody signed in; if the session ended
\* after they were queued, the notification of its end is behind them.
EndIsAnnounced ==
    \/ currentUser # NoUser
    \/ \A i \in 1..Len(main) : main[i].by \in SignIns =>
           \E j \in i + 1..Len(main) : main[j].by = "notify"

\* Nobody is left on the login screens who is signed in, however the segue of
\* a login, the replaced root and going back follow each other.
SignedInSeesHome ==
    Pending \/ currentUser = NoUser \/ screen \in HomeScreens

\* Neither the session nor the user saved on disk has an address its account
\* never had: the answer to a request about a FIRUser that is no longer the
\* current user does not leak into another account's session.
EmailsNotAhead ==
    \A user \in {currentUser, keychain} \ {NoUser} :
        user.email <= account[user.uid]

\* PasswordResetViewController sets a password only for an account whose own
\* password was accepted since the launch, although updatePassword takes the
\* current user at the time of the completion and not the one checked.
PasswordOnlyVerified ==
    \A r \in requests : r.by = "setPassword" => r.uid \in verified

\* What checkForEmailUpdate prints, "email changed", whenever it signs out: the
\* account signed in has another address than before, or its own document
\* another text.
LogoutMeansEmailChanged ==
    [][(EmailSnapshot /\ currentUser # NoUser /\ currentUser' = NoUser)
         => \/ account[currentUser.uid] > 1
            \/ Head(main).uid = currentUser.uid]_vars

\* SceneDelegate's root controller eventually agrees with the session again,
\* whatever replaced the user.
RootCatchesUp == (rootOwner # UidOf(currentUser)) ~> (rootOwner = UidOf(currentUser))
=============================================================================
