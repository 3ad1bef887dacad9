-------------------------------- MODULE Login --------------------------------
(***************************************************************************)
(* The start and the end of the demo program: nim_comp::LoginManager with  *)
(* the forms it is wired to (LoginForm, MainForm), WindowsManager, UserDB  *)
(* and the Global Misc thread, in several processes of one installation.   *)
(*                                                                         *)
(* In each process two threads run: the UI thread, whose handlers and      *)
(* tasks are atomic here, and the Global Misc thread, which looks the      *)
(* account up while the user goes on clicking.  Both queues are those of   *)
(* TaskService: what is posted runs in order, once.  The processes share   *)
(* the named mutexes of CheckSingletonRun and the database file app.db.    *)
(***************************************************************************)
EXTENDS Naturals, Sequences

CONSTANTS
  Processes,
  Names,           \* what can be typed as an account; an account is a lower-case name
  Lower,           \* nbase::LowerString
  Passwords,       \* what can be typed as a password
  Imported,        \* the account of LoginForm::ImportDataToDB
  Secret,          \* its password
  NoName,          \* the empty account
  Absent,          \* no database, or no file
  CheckSingleton   \* "check_singleton" of the configuration is not 0

ASSUME ConstantsAssumption ==
  /\ Lower \in [Names -> Names]
  /\ \A n \in Names : Lower[Lower[n]] = Lower[n]
  /\ Imported \in Names /\ Lower[Imported] = Imported
  /\ Secret \in Passwords
  /\ NoName \notin Names /\ Absent \notin Names /\ NoName # Absent
  /\ CheckSingleton \in BOOLEAN

VARIABLES
  phase,     \* of the process: "running", "cleanup" once the UI loop ended, "exited"
  quit,      \* PostQuitMessage has been called
  status,    \* LoginManager::status_
  account,   \* account_
  password,  \* password_
  form,      \* LoginForm: "none", "shown", or "gone" when deleted
  buttons,   \* its buttons: login and cancel visible, cancel enabled
  main,      \* MainForm: "none", "shown", "hidden" or "gone"
  stop,      \* WindowsManager::stop_register_
  misc,      \* tasks of the Global Misc thread
  asked,     \* what the DoLoginAsyn at its head knows of the account
  ui,        \* tasks posted to the UI thread
  mutex,     \* account whose named mutex the process has created
  dbKey,     \* key the process opened its UserDB with
  fileKey,   \* key app.db was created with
  rows       \* accounts in app.db

vars == <<phase, quit, status, account, password, form, buttons, main, stop,
          misc, asked, ui, mutex, dbKey, fileKey, rows>>
loop   == <<phase, quit>>
login  == <<status, account, password>>
window == <<form, buttons, main, stop>>
queues == <<misc, asked, ui>>
db     == <<dbKey, fileKey, rows>>

Results == {"success", "uidNotExist", "passError"}
Loads   == {"friends", "sessions"}
Buttons == [login : BOOLEAN, cancel : BOOLEAN, enabled : BOOLEAN]

\* The buttons as login.xml lays them out.
Fresh == [login |-> TRUE, cancel |-> FALSE, enabled |-> TRUE]

Running(p) == phase[p] = "running"

\* A file created by an earlier run of ImportDataToDB, like the one in bin/other,
\* or none yet.
Init ==
  /\ phase = [p \in Processes |-> "exited"]
  /\ quit = [p \in Processes |-> FALSE]
  /\ status = [p \in Processes |-> "NONE"]
  /\ account = [p \in Processes |-> NoName]
  /\ password = [p \in Processes |-> NoName]
  /\ form = [p \in Processes |-> "none"]
  /\ buttons = [p \in Processes |-> Fresh]
  /\ main = [p \in Processes |-> "none"]
  /\ stop = [p \in Processes |-> FALSE]
  /\ misc = [p \in Processes |-> << >>]
  /\ asked = [p \in Processes |-> "no"]
  /\ ui = [p \in Processes |-> << >>]
  /\ mutex = [p \in Processes |-> NoName]
  /\ dbKey = [p \in Processes |-> Absent]
  /\ \/ fileKey = Absent /\ rows = {}
     \/ fileKey = NoName /\ rows = {Imported}

----------------------------------------------------------------------------
(* Windows *)

\* SingletonShow<MainForm>: the window that exists is activated, else one is
\* created; InitWindow posts both loads with the form's this.  When windows may
\* not be registered any more Create returns without a window.
ShowMainForm(p) ==
  IF main[p] \in {"shown", "hidden"} \/ stop[p]
    THEN UNCHANGED <<main, misc>>
    ELSE /\ main' = [main EXCEPT ![p] = "shown"]
         /\ misc' = [misc EXCEPT ![p] = Append(Append(@, "friends"), "sessions")]

\* The program starts and MainThread::Init opens its first window.  main.cpp
\* has a line for each of the two forms.
Start(p) ==
  /\ phase[p] = "exited"
  /\ phase' = [phase EXCEPT ![p] = "running"]
  /\ quit' = [quit EXCEPT ![p] = FALSE]
  /\ status' = [status EXCEPT ![p] = "NONE"]
  /\ account' = [account EXCEPT ![p] = NoName]
  /\ password' = [password EXCEPT ![p] = NoName]
  /\ buttons' = [buttons EXCEPT ![p] = Fresh]
  /\ stop' = [stop EXCEPT ![p] = FALSE]
  /\ asked' = [asked EXCEPT ![p] = "no"]
  /\ ui' = [ui EXCEPT ![p] = << >>]
  /\ dbKey' = [dbKey EXCEPT ![p] = Absent]
  /\ \/ /\ form' = [form EXCEPT ![p] = "shown"]
        /\ main' = [main EXCEPT ![p] = "none"]
        /\ misc' = [misc EXCEPT ![p] = << >>]
     \/ /\ form' = [form EXCEPT ![p] = "none"]
        /\ main' = [main EXCEPT ![p] = "shown"]
        /\ misc' = [misc EXCEPT ![p] = <<"friends", "sessions">>]
  /\ UNCHANGED <<mutex, fileKey, rows>>

\* Mutant: the form is destroyed as by the OnClose of its base class.
CloseLoginFormDestroys(p) ==
  /\ Running(p) /\ form[p] = "shown"
  /\ quit' = [quit EXCEPT ![p] = TRUE]
  /\ form' = [form EXCEPT ![p] = "gone"]
  /\ UNCHANGED <<phase, login, buttons, main, stop, queues, mutex, db>>

\* Mutant: the form is destroyed and nobody ends the program.
CloseLoginFormAlone(p) ==
  /\ Running(p) /\ form[p] = "shown"
  /\ form' = [form EXCEPT ![p] = "gone"]
  /\ UNCHANGED <<loop, login, buttons, main, stop, queues, mutex, db>>

\* LoginForm::OnClose, also by Esc: the window stays until the process ends.
CloseLoginForm(p) ==
  /\ Running(p) /\ form[p] = "shown"
  /\ quit' = [quit EXCEPT ![p] = TRUE]
  /\ UNCHANGED <<phase, login, window, queues, mutex, db>>

\* MainForm::OnClose hides the form, TrayLeftClick shows it again.
HideOrShowMainForm(p) ==
  /\ Running(p) /\ main[p] \in {"shown", "hidden"}
  /\ main' = [main EXCEPT ![p] = IF @ = "shown" THEN "hidden" ELSE "shown"]
  /\ UNCHANGED <<loop, login, form, buttons, stop, queues, mutex, db>>

----------------------------------------------------------------------------
(* The user database *)

\* UserDB::GetInstance(): the first use opens the file, with the account of
\* that moment as its key, and creates it if there is none.
OpenDB(p) ==
  /\ dbKey' = [dbKey EXCEPT ![p] = IF @ = Absent THEN account[p] ELSE @]
  /\ fileKey' = IF fileKey = Absent THEN dbKey'[p] ELSE fileKey

\* sqlite3 reads a file only with the key it was created with.
Readable(p) == dbKey'[p] = fileKey'

\* LoginForm::ImportDataToDB, by a click on an item of the login form's menu.
ImportDataToDB(p) ==
  /\ Running(p) /\ form[p] = "shown"
  /\ OpenDB(p)
  /\ rows' = IF Readable(p) THEN rows \cup {Imported} ELSE rows
  /\ UNCHANGED <<loop, login, window, queues, mutex>>

----------------------------------------------------------------------------
(* Logging in *)

\* CheckSingletonRun: no process has created the mutex of the name as typed.
CheckSingletonRun(n) == CheckSingleton => \A q \in Processes : mutex[q] # n

\* Mutant: the account keeps the case it was typed in.
SetAccountAsTyped(p, n) == account' = [account EXCEPT ![p] = n]

SetAccount(p, n) == account' = [account EXCEPT ![p] = Lower[n]]

\* LoginForm::StartLogin and LoginManager::DoLogin.
StartLogin(p, n, w) ==
  /\ Running(p) /\ form[p] = "shown" /\ buttons[p].login
  /\ CheckSingletonRun(n)
  /\ status' = [status EXCEPT ![p] = "LOGIN"]
  /\ SetAccount(p, n)
  /\ password' = [password EXCEPT ![p] = w]
  /\ misc' = [misc EXCEPT ![p] = Append(@, "login")]
  /\ buttons' = [buttons EXCEPT ![p] = [@ EXCEPT !.login = FALSE, !.cancel = TRUE]]
  /\ UNCHANGED <<loop, form, main, stop, asked, ui, mutex, db>>

\* Mutant: the cancel button stays enabled.
CancelLoginEnabled(p) ==
  /\ Running(p) /\ form[p] = "shown"
  /\ buttons[p].cancel /\ buttons[p].enabled
  /\ status' = [status EXCEPT ![p] = "CANCEL"]
  /\ UNCHANGED <<loop, account, password, window, queues, mutex, db>>

\* Mutant: the login is over at once and the form is ready for another.
CancelLoginAtOnce(p) ==
  /\ Running(p) /\ form[p] = "shown"
  /\ buttons[p].cancel /\ buttons[p].enabled
  /\ status' = [status EXCEPT ![p] = "NONE"]
  /\ buttons' = [buttons EXCEPT ![p] = Fresh]
  /\ UNCHANGED <<loop, account, password, form, main, stop, queues, mutex, db>>

\* LoginForm::CancelLogin: the answer that is under way will end the login.
CancelLogin(p) ==
  /\ Running(p) /\ form[p] = "shown"
  /\ buttons[p].cancel /\ buttons[p].enabled
  /\ status' = [status EXCEPT ![p] = "CANCEL"]
  /\ buttons' = [buttons EXCEPT ![p].enabled = FALSE]
  /\ UNCHANGED <<loop, account, password, form, main, stop, queues, mutex, db>>

\* The Global Misc thread has a task of this kind at the head of its queue; it
\* finishes its queue while the UI thread waits for it in Cleanup.
MiscRuns(p, tasks) ==
  /\ phase[p] # "exited"
  /\ misc[p] # << >> /\ Head(misc[p]) \in tasks

\* DoLoginAsyn looks the account up, with the account_ of this moment.
QueryAccountInfo(p) ==
  /\ MiscRuns(p, {"login"}) /\ asked[p] = "no"
  /\ OpenDB(p)
  /\ asked' = [asked EXCEPT ![p] =
       IF Readable(p) /\ account[p] \in rows THEN "found" ELSE "missing"]
  /\ UNCHANGED <<loop, login, window, misc, ui, mutex, rows>>

\* DoLoginAsyn compares with the password_ of this moment and posts the result.
LoginResult(p) ==
  CASE asked[p] = "missing" -> "uidNotExist"
    [] asked[p] = "found" /\ password[p] = Secret -> "success"
    [] OTHER -> "passError"

\* Mutant: nothing is posted for an account that was not found.
AnswerLoginIfFound(p) ==
  /\ MiscRuns(p, {"login"}) /\ asked[p] # "no"
  /\ misc' = [misc EXCEPT ![p] = Tail(@)]
  /\ asked' = [asked EXCEPT ![p] = "no"]
  /\ ui' = IF asked[p] = "found" THEN [ui EXCEPT ![p] = Append(@, LoginResult(p))] ELSE ui
  /\ UNCHANGED <<loop, login, window, mutex, db>>

AnswerLogin(p) ==
  /\ MiscRuns(p, {"login"}) /\ asked[p] # "no"
  /\ misc' = [misc EXCEPT ![p] = Tail(@)]
  /\ asked' = [asked EXCEPT ![p] = "no"]
  /\ ui' = [ui EXCEPT ![p] = Append(@, LoginResult(p))]
  /\ UNCHANGED <<loop, login, window, mutex, db>>

\* DoLoadFriendsAsyn or DoLoadSessionAsyn: the list is posted if the file is good.
Load(p) ==
  /\ MiscRuns(p, Loads)
  /\ misc' = [misc EXCEPT ![p] = Tail(@)]
  /\ \/ ui' = [ui EXCEPT ![p] = Append(@, Head(misc[p]))]
     \/ UNCHANGED ui
  /\ UNCHANGED <<loop, login, window, asked, mutex, db>>

----------------------------------------------------------------------------
(* Tasks of the UI thread *)

UIRuns(p, tasks) == Running(p) /\ ui[p] # << >> /\ Head(ui[p]) \in tasks

\* UILoginCallback for a login that was cancelled: UILogoutCallback, which has
\* the form put its buttons back.  The form's callbacks stay registered when it
\* is deleted.
LoginCancelled(p) ==
  /\ UIRuns(p, Results) /\ form[p] # "none"
  /\ status[p] = "CANCEL"
  /\ ui' = [ui EXCEPT ![p] = Tail(@)]
  /\ status' = [status EXCEPT ![p] = "NONE"]
  /\ buttons' = [buttons EXCEPT ![p] = Fresh]
  /\ UNCHANGED <<loop, account, password, form, main, stop, misc, asked, mutex, db>>

\* Mutant: the mutex is not created.
DoAfterLoginForgets(p) == UNCHANGED mutex

\* CreateSingletonRunMutex; a mutex that exists is opened all the same.
DoAfterLogin(p) ==
  mutex' = IF CheckSingleton THEN [mutex EXCEPT ![p] = account[p]] ELSE mutex

\* UILoginCallback with kNIMResSuccess: main form up, login form destroyed.
LoginSucceeded(p) ==
  /\ UIRuns(p, {"success"}) /\ form[p] # "none"
  /\ status[p] # "CANCEL"
  /\ ui' = [ui EXCEPT ![p] = Tail(@)]
  /\ status' = [status EXCEPT ![p] = "SUCCESS"]
  /\ DoAfterLogin(p)
  /\ ShowMainForm(p)
  /\ form' = [form EXCEPT ![p] = "gone"]
  /\ UNCHANGED <<loop, account, password, buttons, stop, asked, db>>

\* UILoginCallback with an error: OnLoginError.
LoginFailed(p) ==
  /\ UIRuns(p, Results \ {"success"}) /\ form[p] # "none"
  /\ status[p] # "CANCEL"
  /\ ui' = [ui EXCEPT ![p] = Tail(@)]
  /\ status' = [status EXCEPT ![p] = "NONE"]
  /\ buttons' = [buttons EXCEPT ![p] = [@ EXCEPT !.login = TRUE, !.cancel = FALSE]]
  /\ UNCHANGED <<loop, account, password, form, main, stop, misc, asked, mutex, db>>

\* OnGetAllFriendInfo or OnGetAllSessionInfo fills the main form.
Fill(p) ==
  /\ UIRuns(p, Loads)
  /\ ui' = [ui EXCEPT ![p] = Tail(@)]
  /\ UNCHANGED <<loop, login, window, misc, asked, mutex, db>>

----------------------------------------------------------------------------
(* Logging out and ending *)

\* MainForm::MenuLogoutClick: DoLogout(false), which destroys every window and
\* ends the program if nobody was logged in.
DoLogout(p) ==
  /\ Running(p) /\ main[p] \in {"shown", "hidden"}
  /\ status[p] # "EXIT"
  /\ status' = [status EXCEPT ![p] = "EXIT"]
  /\ stop' = [stop EXCEPT ![p] = TRUE]
  /\ main' = [main EXCEPT ![p] = "gone"]
  /\ form' = [form EXCEPT ![p] = IF @ = "shown" THEN "gone" ELSE @]
  /\ quit' = [quit EXCEPT ![p] = quit[p] \/ status[p] = "NONE"]
  /\ UNCHANGED <<phase, account, password, buttons, queues, mutex, db>>

\* The UI loop gets WM_QUIT; Cleanup stops the Global Misc thread.
EndLoop(p) ==
  /\ Running(p) /\ quit[p]
  /\ phase' = [phase EXCEPT ![p] = "cleanup"]
  /\ UNCHANGED <<quit, login, window, queues, mutex, db>>

\* The thread has ended; the system closes the handles of the process.
Exit(p) ==
  /\ phase[p] = "cleanup" /\ misc[p] = << >>
  /\ phase' = [phase EXCEPT ![p] = "exited"]
  /\ mutex' = [mutex EXCEPT ![p] = NoName]
  /\ UNCHANGED <<quit, login, window, queues, db>>

----------------------------------------------------------------------------
User(p) ==
  \/ Start(p) \/ CloseLoginForm(p) \/ HideOrShowMainForm(p) \/ ImportDataToDB(p)
  \/ \E n \in Names, w \in Passwords : StartLogin(p, n, w)
  \/ CancelLogin(p) \/ DoLogout(p)

Misc(p) == QueryAccountInfo(p) \/ AnswerLogin(p) \/ Load(p)

UITask(p) == LoginCancelled(p) \/ LoginSucceeded(p) \/ LoginFailed(p) \/ Fill(p)

Next == \E p \in Processes : User(p) \/ Misc(p) \/ UITask(p) \/ EndLoop(p) \/ Exit(p)

\* Both threads of a process are scheduled.  The user need not do anything.
Fairness ==
  \A p \in Processes :
    WF_vars(Misc(p)) /\ WF_vars(UITask(p)) /\ WF_vars(EndLoop(p)) /\ WF_vars(Exit(p))

Spec == Init /\ [][Next]_vars /\ Fairness

----------------------------------------------------------------------------
(* Properties *)

Tasks(p) == {misc[p][i] : i \in 1..Len(misc[p])} \cup {ui[p][i] : i \in 1..Len(ui[p])}

\* Every variable keeps its type.
TypeOK ==
  /\ phase \in [Processes -> {"running", "cleanup", "exited"}]
  /\ quit \in [Processes -> BOOLEAN]
  /\ status \in [Processes -> {"NONE", "LOGIN", "CANCEL", "SUCCESS", "EXIT"}]
  /\ account \in [Processes -> Names \cup {NoName}]
  /\ password \in [Processes -> Passwords \cup {NoName}]
  /\ form \in [Processes -> {"none", "shown", "gone"}]
  /\ buttons \in [Processes -> Buttons]
  /\ main \in [Processes -> {"none", "shown", "hidden", "gone"}]
  /\ stop \in [Processes -> BOOLEAN]
  /\ misc \in [Processes -> Seq(Loads \cup {"login"})]
  /\ asked \in [Processes -> {"no", "found", "missing"}]
  /\ ui \in [Processes -> Seq(Loads \cup Results)]
  /\ mutex \in [Processes -> Names \cup {NoName}]
  /\ dbKey \in [Processes -> Names \cup {NoName, Absent}]
  /\ fileKey \in Names \cup {NoName, Absent}
  /\ rows \subseteq Names

\* The asserts of DoLogin and CancelLogin (login_manager.cpp:235, 320) test the
\* status, the handlers that lead to them only which button can be clicked:
\* the two agree whatever the order of clicks and late answers, and the form
\* is never left without a button that fits its status.
ButtonsMatchStatus ==
  \A p \in Processes : (Running(p) /\ form[p] = "shown") =>
    /\ buttons[p].login <=> status[p] = "NONE"
    /\ buttons[p].cancel /\ buttons[p].enabled <=> status[p] = "LOGIN"

\* Every callback under way finds the form whose bare this it holds
\* (login_form.cpp:45-77 leaves ToWeakCallback out): the answer to a login the
\* login form, the lists the main form.  The one exception the code has is a
\* list that arrives after the user logged out.
CallbacksFindTheirForm ==
  \A p \in Processes : Running(p) =>
    /\ Tasks(p) \cap (Results \cup {"login"}) # {} => form[p] = "shown"
    /\ Tasks(p) \cap Loads # {} =>
         main[p] \in {"shown", "hidden"} \/ status[p] = "EXIT"

\* A process is logged in only to an account that is in the database, with its
\* password, although the Global Misc thread reads account_ and password_ while
\* the user clicks on (DoLoginAsyn, UILoginCallback).
OnlyRegisteredLogIn ==
  \A p \in Processes : status[p] = "SUCCESS" =>
    account[p] \in rows /\ password[p] = Secret

\* A running program has a window, or has been told to quit, or is one the user
\* has logged out of after a login: that one DoLogout(false) leaves running.
WindowlessIsEnding ==
  \A p \in Processes : Running(p) =>
    \/ form[p] = "shown" \/ main[p] \in {"shown", "hidden"}
    \/ quit[p]
    \/ status[p] = "EXIT" /\ account[p] # NoName

\* An account some process is logged in to cannot be used for another login
\* (login_manager.cpp:99), when it is typed in lower case and that process has
\* finished its own login: the mutex is created a second after the check, and
\* the check does not lower the name.
LoggedInIsTaken ==
  [][\A p, q \in Processes, n \in Names, w \in Passwords :
       (CheckSingleton /\ Lower[n] = n /\ StartLogin(p, n, w)) =>
         ~(Running(q) /\ status[q] = "SUCCESS" /\ account[q] = n)]_vars

\* A login ends: with an answer, in the state the form can start from again or
\* with the main form, unless the user quits first.
LoginEnds ==
  \A p \in Processes :
    status[p] \in {"LOGIN", "CANCEL"} ~> (status[p] \in {"NONE", "SUCCESS"} \/ ~Running(p))

\* The process can read the database: it was opened with the key of the file,
\* or will be.
CanRead(p) == dbKey[p] = fileKey \/ (dbKey[p] = Absent /\ account[p] = fileKey)

\* A registered user with the right password who waits gets in, in whatever
\* case the account was typed, if the process can read the database.  It cannot
\* when app.db was created under another account than the first one used here.
RegisteredGetsIn ==
  \A p \in Processes :
    (/\ status[p] = "LOGIN" /\ "login" \in Tasks(p) /\ asked[p] = "no"
     /\ Imported \in rows /\ Lower[account[p]] = Imported
     /\ password[p] = Secret /\ CanRead(p))
      ~> (status[p] \in {"SUCCESS", "CANCEL"} \/ ~Running(p))
============================================================================
