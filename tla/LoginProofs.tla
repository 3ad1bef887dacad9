----------------------------- MODULE LoginProofs -----------------------------
(***************************************************************************)
(* Proofs about Login.  The invariant says that a running process is in    *)
(* one of three modes: its login form is up and at most one login is under *)
(* way, in one place; or its main form is up; or it has been logged out.   *)
(***************************************************************************)
EXTENDS Login, TLAPS

Waiting    == [login |-> FALSE, cancel |-> TRUE, enabled |-> TRUE]
Cancelling == [login |-> FALSE, cancel |-> TRUE, enabled |-> FALSE]

FormUp(p) == form[p] = "shown" /\ main[p] = "none" /\ ~stop[p]

\* Nobody is logging in.
Idle(p) ==
  /\ status[p] = "NONE" /\ buttons[p] = Fresh
  /\ misc[p] = << >> /\ ui[p] = << >> /\ asked[p] = "no"

Busy(p) ==
  /\ \/ status[p] = "LOGIN" /\ buttons[p] = Waiting
     \/ status[p] = "CANCEL" /\ buttons[p] = Cancelling
  /\ account[p] \in Names

\* The login is with the Global Misc thread.
Asking(p) ==
  /\ misc[p] = <<"login">> /\ ui[p] = << >>
  /\ asked[p] = "found" => account[p] \in rows

\* Its result is posted, and right.
Answered(p) ==
  /\ misc[p] = << >> /\ asked[p] = "no"
  /\ \/ ui[p] = <<"success">> /\ account[p] \in rows /\ password[p] = Secret
     \/ ui[p] = <<"uidNotExist">>
     \/ ui[p] = <<"passError">>

\* The login form is shown: the buttons, the status, both queues and what
\* DoLoginAsyn knows move together.
LoginMode(p) == FormUp(p) /\ (Idle(p) \/ (Busy(p) /\ (Asking(p) \/ Answered(p))))

\* The main form is up, after a login or from the start.
MainMode(p) ==
  /\ form[p] # "shown" /\ main[p] \in {"shown", "hidden"}
  /\ \/ status[p] = "NONE"
     \/ /\ status[p] = "SUCCESS" /\ account[p] \in Names
        /\ CheckSingleton => mutex[p] = account[p]

\* DoLogout has destroyed the windows.
LogoutMode(p) ==
  /\ form[p] # "shown" /\ main[p] = "gone" /\ status[p] = "EXIT"
  /\ quit[p] \/ account[p] # NoName

\* Outside of LoginMode only lists are on their way.
LoadsOnly(p) == misc[p] \in Seq(Loads) /\ ui[p] \in Seq(Loads) /\ asked[p] = "no"

ListMode(p) == (MainMode(p) \/ LogoutMode(p)) /\ LoadsOnly(p)

Mode(p) == LoginMode(p) \/ ListMode(p)

ModeOK == \A p \in Processes : Running(p) => Mode(p)

LoginInv == TypeOK /\ ModeOK /\ OnlyRegisteredLogIn
-----------------------------------------------------------------------------
(* Steps *)

\* Nothing of process q changes.
Same(q) ==
  /\ phase'[q] = phase[q]
  /\ quit'[q] = quit[q]
  /\ status'[q] = status[q]
  /\ account'[q] = account[q]
  /\ password'[q] = password[q]
  /\ form'[q] = form[q]
  /\ buttons'[q] = buttons[q]
  /\ main'[q] = main[q]
  /\ stop'[q] = stop[q]
  /\ misc'[q] = misc[q]
  /\ asked'[q] = asked[q]
  /\ ui'[q] = ui[q]
  /\ mutex'[q] = mutex[q]
  /\ dbKey'[q] = dbKey[q]

LEMMA Split ==
  ASSUME NEW p \in Processes, User(p) \/ Misc(p) \/ UITask(p) \/ EndLoop(p) \/ Exit(p)
  PROVE  \/ Start(p)
         \/ CloseLoginForm(p)
         \/ HideOrShowMainForm(p)
         \/ ImportDataToDB(p)
         \/ \E n \in Names, w \in Passwords : StartLogin(p, n, w)
         \/ CancelLogin(p)
         \/ DoLogout(p)
         \/ QueryAccountInfo(p)
         \/ AnswerLogin(p)
         \/ Load(p)
         \/ LoginCancelled(p)
         \/ LoginSucceeded(p)
         \/ LoginFailed(p)
         \/ Fill(p)
         \/ EndLoop(p)
         \/ Exit(p)
BY DEF User, Misc, UITask

\* A step of one process leaves the others alone and removes no account.
LEMMA Others ==
  ASSUME TypeOK, NEW p \in Processes, NEW q \in Processes, p # q,
         User(p) \/ Misc(p) \/ UITask(p) \/ EndLoop(p) \/ Exit(p)
  PROVE  Same(q) /\ rows \subseteq rows'
<1> USE DEF Same, TypeOK, loop, login, window, queues, db
<1>1. CASE Start(p)
  <2>1. form'[q] = form[q] /\ main'[q] = main[q] /\ misc'[q] = misc[q]
    BY <1>1 DEF Start
  <2>2. phase'[q] = phase[q] /\ quit'[q] = quit[q]
    BY <1>1 DEF Start
  <2>3. status'[q] = status[q] /\ stop'[q] = stop[q]
    BY <1>1 DEF Start
  <2>4. buttons'[q] = buttons[q]
    BY <1>1 DEF Start, Fresh
  <2>5. account'[q] = account[q] /\ password'[q] = password[q]
    BY <1>1 DEF Start
  <2>6. asked'[q] = asked[q] /\ ui'[q] = ui[q] /\ dbKey'[q] = dbKey[q]
        /\ mutex'[q] = mutex[q] /\ rows' = rows
    BY <1>1 DEF Start
  <2>7. QED  BY <2>1, <2>2, <2>3, <2>4, <2>5, <2>6
<1>2. CASE CloseLoginForm(p)
  BY <1>2 DEF CloseLoginForm
<1>3. CASE HideOrShowMainForm(p)
  BY <1>3 DEF HideOrShowMainForm
<1>4. CASE ImportDataToDB(p)
  BY <1>4 DEF ImportDataToDB, OpenDB
<1>5. CASE \E n \in Names, w \in Passwords : StartLogin(p, n, w)
  BY <1>5 DEF StartLogin, SetAccount
<1>6. CASE CancelLogin(p)
  BY <1>6 DEF CancelLogin
<1>7. CASE DoLogout(p)
  BY <1>7 DEF DoLogout
<1>8. CASE QueryAccountInfo(p)
  BY <1>8 DEF QueryAccountInfo, OpenDB, MiscRuns
<1>9. CASE AnswerLogin(p)
  BY <1>9 DEF AnswerLogin, MiscRuns, LoginResult
<1>10. CASE Load(p)
  BY <1>10 DEF Load, MiscRuns
<1>11. CASE LoginCancelled(p)
  BY <1>11 DEF LoginCancelled, UIRuns
<1>12. CASE LoginSucceeded(p)
  BY <1>12 DEF LoginSucceeded, UIRuns, DoAfterLogin, ShowMainForm
<1>13. CASE LoginFailed(p)
  BY <1>13 DEF LoginFailed, UIRuns
<1>14. CASE Fill(p)
  BY <1>14 DEF Fill, UIRuns
<1>15. CASE EndLoop(p)
  BY <1>15 DEF EndLoop
<1>16. CASE Exit(p)
  BY <1>16 DEF Exit
<1>q. QED  BY Split, <1>1, <1>2, <1>3, <1>4, <1>5, <1>6, <1>7, <1>8, <1>9, <1>10, <1>11, <1>12, <1>13, <1>14, <1>15, <1>16

ProcessTypes ==
  /\ phase \in [Processes -> {"running", "cleanup", "exited"}]
  /\ quit \in [Processes -> BOOLEAN]
  /\ status \in [Processes -> {"NONE", "LOGIN", "CANCEL", "SUCCESS", "EXIT"}]
  /\ account \in [Processes -> Names \cup {NoName}]
  /\ password \in [Processes -> Passwords \cup {NoName}]
  /\ mutex \in [Processes -> Names \cup {NoName}]

WindowTypes ==
  /\ form \in [Processes -> {"none", "shown", "gone"}]
  /\ main \in [Processes -> {"none", "shown", "hidden", "gone"}]
  /\ stop \in [Processes -> BOOLEAN]

QueueTypes ==
  /\ misc \in [Processes -> Seq(Loads \cup {"login"})]
  /\ asked \in [Processes -> {"no", "found", "missing"}]
  /\ ui \in [Processes -> Seq(Loads \cup Results)]

DBTypes ==
  /\ dbKey \in [Processes -> Names \cup {NoName, Absent}]
  /\ fileKey \in Names \cup {NoName, Absent}
  /\ rows \subseteq Names

LEMMA TypesParts ==
  TypeOK <=> ProcessTypes /\ WindowTypes /\ buttons \in [Processes -> Buttons]
               /\ QueueTypes /\ DBTypes
BY DEF TypeOK, ProcessTypes, WindowTypes, QueueTypes, DBTypes

LEMMA ProcessTypesStep ==
  ASSUME ConstantsAssumption, TypeOK, NEW p \in Processes,
         User(p) \/ Misc(p) \/ UITask(p) \/ EndLoop(p) \/ Exit(p)
  PROVE  ProcessTypes'
<1> USE TypesParts DEF ProcessTypes, loop, login, window, queues, db
<1>1. CASE Start(p)
  BY <1>1 DEF Start
<1>2. CASE CloseLoginForm(p)
  BY <1>2 DEF CloseLoginForm
<1>3. CASE HideOrShowMainForm(p)
  BY <1>3 DEF HideOrShowMainForm
<1>4. CASE ImportDataToDB(p)
  BY <1>4 DEF ImportDataToDB, OpenDB
<1>5. CASE \E n \in Names, w \in Passwords : StartLogin(p, n, w)
  BY <1>5 DEF StartLogin, SetAccount, ConstantsAssumption
<1>6. CASE CancelLogin(p)
  BY <1>6 DEF CancelLogin
<1>7. CASE DoLogout(p)
  BY <1>7 DEF DoLogout
<1>8. CASE QueryAccountInfo(p)
  BY <1>8 DEF QueryAccountInfo, OpenDB, MiscRuns
<1>9. CASE AnswerLogin(p)
  BY <1>9 DEF AnswerLogin, MiscRuns, LoginResult
<1>10. CASE Load(p)
  BY <1>10 DEF Load, MiscRuns
<1>11. CASE LoginCancelled(p)
  BY <1>11 DEF LoginCancelled, UIRuns
<1>12. CASE LoginSucceeded(p)
  BY <1>12 DEF LoginSucceeded, UIRuns, DoAfterLogin, ShowMainForm
<1>13. CASE LoginFailed(p)
  BY <1>13 DEF LoginFailed, UIRuns
<1>14. CASE Fill(p)
  BY <1>14 DEF Fill, UIRuns
<1>15. CASE EndLoop(p)
  BY <1>15 DEF EndLoop
<1>16. CASE Exit(p)
  BY <1>16 DEF Exit
<1>q. QED  BY Split, <1>1, <1>2, <1>3, <1>4, <1>5, <1>6, <1>7, <1>8, <1>9, <1>10, <1>11, <1>12, <1>13, <1>14, <1>15, <1>16

LEMMA WindowTypesStep ==
  ASSUME ConstantsAssumption, TypeOK, NEW p \in Processes,
         User(p) \/ Misc(p) \/ UITask(p) \/ EndLoop(p) \/ Exit(p)
  PROVE  WindowTypes'
<1> USE TypesParts DEF WindowTypes, loop, login, window, queues, db
<1>1. CASE Start(p)
  BY <1>1 DEF Start
<1>2. CASE CloseLoginForm(p)
  BY <1>2 DEF CloseLoginForm
<1>3. CASE HideOrShowMainForm(p)
  BY <1>3 DEF HideOrShowMainForm
<1>4. CASE ImportDataToDB(p)
  BY <1>4 DEF ImportDataToDB, OpenDB
<1>5. CASE \E n \in Names, w \in Passwords : StartLogin(p, n, w)
  BY <1>5 DEF StartLogin, SetAccount
<1>6. CASE CancelLogin(p)
  BY <1>6 DEF CancelLogin
<1>7. CASE DoLogout(p)
  BY <1>7 DEF DoLogout
<1>8. CASE QueryAccountInfo(p)
  BY <1>8 DEF QueryAccountInfo, OpenDB, MiscRuns
<1>9. CASE AnswerLogin(p)
  BY <1>9 DEF AnswerLogin, MiscRuns, LoginResult
<1>10. CASE Load(p)
  BY <1>10 DEF Load, MiscRuns
<1>11. CASE LoginCancelled(p)
  BY <1>11 DEF LoginCancelled, UIRuns
<1>12. CASE LoginSucceeded(p)
  BY <1>12 DEF LoginSucceeded, UIRuns, DoAfterLogin, ShowMainForm
<1>13. CASE LoginFailed(p)
  BY <1>13 DEF LoginFailed, UIRuns
<1>14. CASE Fill(p)
  BY <1>14 DEF Fill, UIRuns
<1>15. CASE EndLoop(p)
  BY <1>15 DEF EndLoop
<1>16. CASE Exit(p)
  BY <1>16 DEF Exit
<1>q. QED  BY Split, <1>1, <1>2, <1>3, <1>4, <1>5, <1>6, <1>7, <1>8, <1>9, <1>10, <1>11, <1>12, <1>13, <1>14, <1>15, <1>16

LEMMA ButtonTypesStep ==
  ASSUME ConstantsAssumption, TypeOK, NEW p \in Processes,
         User(p) \/ Misc(p) \/ UITask(p) \/ EndLoop(p) \/ Exit(p)
  PROVE  (buttons \in [Processes -> Buttons])'
<1> USE TypesParts DEF Buttons, Fresh, loop, login, window, queues, db
<1>1. CASE Start(p)
  BY <1>1 DEF Start
<1>2. CASE CloseLoginForm(p)
  BY <1>2 DEF CloseLoginForm
<1>3. CASE HideOrShowMainForm(p)
  BY <1>3 DEF HideOrShowMainForm
<1>4. CASE ImportDataToDB(p)
  BY <1>4 DEF ImportDataToDB, OpenDB
<1>5. CASE \E n \in Names, w \in Passwords : StartLogin(p, n, w)
  <2>1. buttons' = [buttons EXCEPT ![p] = [@ EXCEPT !.login = FALSE, !.cancel = TRUE]]
    BY <1>5 DEF StartLogin
  <2>2. [buttons[p] EXCEPT !.login = FALSE, !.cancel = TRUE] \in Buttons
    OBVIOUS
  <2>3. QED  BY <2>1, <2>2
<1>6. CASE CancelLogin(p)
  BY <1>6 DEF CancelLogin
<1>7. CASE DoLogout(p)
  BY <1>7 DEF DoLogout
<1>8. CASE QueryAccountInfo(p)
  BY <1>8 DEF QueryAccountInfo, OpenDB, MiscRuns
<1>9. CASE AnswerLogin(p)
  BY <1>9 DEF AnswerLogin, MiscRuns, LoginResult
<1>10. CASE Load(p)
  BY <1>10 DEF Load, MiscRuns
<1>11. CASE LoginCancelled(p)
  BY <1>11 DEF LoginCancelled, UIRuns
<1>12. CASE LoginSucceeded(p)
  BY <1>12 DEF LoginSucceeded, UIRuns, DoAfterLogin, ShowMainForm
<1>13. CASE LoginFailed(p)
  BY <1>13 DEF LoginFailed, UIRuns
<1>14. CASE Fill(p)
  BY <1>14 DEF Fill, UIRuns
<1>15. CASE EndLoop(p)
  BY <1>15 DEF EndLoop
<1>16. CASE Exit(p)
  BY <1>16 DEF Exit
<1>q. QED  BY Split, <1>1, <1>2, <1>3, <1>4, <1>5, <1>6, <1>7, <1>8, <1>9, <1>10, <1>11, <1>12, <1>13, <1>14, <1>15, <1>16

LEMMA QueueTypesStep ==
  ASSUME ConstantsAssumption, TypeOK, NEW p \in Processes,
         User(p) \/ Misc(p) \/ UITask(p) \/ EndLoop(p) \/ Exit(p)
  PROVE  QueueTypes'
<1> USE TypesParts DEF QueueTypes, Loads, Results, loop, login, window, queues, db
<1>1. CASE Start(p)
  <2>1. <<"friends", "sessions">> \in Seq(Loads \cup {"login"})
    BY DEF Loads
  <2>2. << >> \in Seq(Loads \cup {"login"}) /\ << >> \in Seq(Loads \cup Results)
    OBVIOUS
  <2>3. misc' \in [Processes -> Seq(Loads \cup {"login"})]
    BY <1>1, <2>1, <2>2 DEF Start
  <2>4. QED  BY <1>1, <2>2, <2>3 DEF Start
<1>2. CASE CloseLoginForm(p)
  BY <1>2 DEF CloseLoginForm
<1>3. CASE HideOrShowMainForm(p)
  BY <1>3 DEF HideOrShowMainForm
<1>4. CASE ImportDataToDB(p)
  BY <1>4 DEF ImportDataToDB, OpenDB
<1>5. CASE \E n \in Names, w \in Passwords : StartLogin(p, n, w)
  BY <1>5 DEF StartLogin, SetAccount
<1>6. CASE CancelLogin(p)
  BY <1>6 DEF CancelLogin
<1>7. CASE DoLogout(p)
  BY <1>7 DEF DoLogout
<1>8. CASE QueryAccountInfo(p)
  BY <1>8 DEF QueryAccountInfo, OpenDB, MiscRuns
<1>9. CASE AnswerLogin(p)
  BY <1>9 DEF AnswerLogin, MiscRuns, LoginResult
<1>10. CASE Load(p)
  <2>1. Head(misc[p]) \in Loads \cup Results
    BY <1>10 DEF Load, MiscRuns
  <2>2. ui[p] \in Seq(Loads \cup Results) /\ misc[p] \in Seq(Loads \cup {"login"})
    OBVIOUS
  <2>3. Append(ui[p], Head(misc[p])) \in Seq(Loads \cup Results)
    BY <2>1, <2>2
  <2>4. Tail(misc[p]) \in Seq(Loads \cup {"login"})
    BY <1>10, <2>2 DEF Load, MiscRuns
  <2>5. QED  BY <1>10, <2>3, <2>4 DEF Load
<1>11. CASE LoginCancelled(p)
  BY <1>11 DEF LoginCancelled, UIRuns
<1>12. CASE LoginSucceeded(p)
  <2>1. ui[p] \in Seq(Loads \cup Results) /\ misc[p] \in Seq(Loads \cup {"login"})
    OBVIOUS
  <2>2. Append(Append(misc[p], "friends"), "sessions") \in Seq(Loads \cup {"login"})
    BY <2>1 DEF Loads
  <2>3. Tail(ui[p]) \in Seq(Loads \cup Results)
    BY <1>12, <2>1 DEF LoginSucceeded, UIRuns
  <2>4. misc' \in [Processes -> Seq(Loads \cup {"login"})]
    BY <1>12, <2>2 DEF LoginSucceeded, ShowMainForm
  <2>5. QED  BY <1>12, <2>3, <2>4 DEF LoginSucceeded
<1>13. CASE LoginFailed(p)
  BY <1>13 DEF LoginFailed, UIRuns
<1>14. CASE Fill(p)
  BY <1>14 DEF Fill, UIRuns
<1>15. CASE EndLoop(p)
  BY <1>15 DEF EndLoop
<1>16. CASE Exit(p)
  BY <1>16 DEF Exit
<1>q. QED  BY Split, <1>1, <1>2, <1>3, <1>4, <1>5, <1>6, <1>7, <1>8, <1>9, <1>10, <1>11, <1>12, <1>13, <1>14, <1>15, <1>16

LEMMA DBTypesStep ==
  ASSUME ConstantsAssumption, TypeOK, NEW p \in Processes,
         User(p) \/ Misc(p) \/ UITask(p) \/ EndLoop(p) \/ Exit(p)
  PROVE  DBTypes'
<1> USE TypesParts DEF DBTypes, loop, login, window, queues, db
<1>1. CASE Start(p)
  BY <1>1 DEF Start
<1>2. CASE CloseLoginForm(p)
  BY <1>2 DEF CloseLoginForm
<1>3. CASE HideOrShowMainForm(p)
  BY <1>3 DEF HideOrShowMainForm
<1>4. CASE ImportDataToDB(p)
  BY <1>4 DEF ImportDataToDB, OpenDB, ConstantsAssumption, ProcessTypes
<1>5. CASE \E n \in Names, w \in Passwords : StartLogin(p, n, w)
  BY <1>5 DEF StartLogin, SetAccount
<1>6. CASE CancelLogin(p)
  BY <1>6 DEF CancelLogin
<1>7. CASE DoLogout(p)
  BY <1>7 DEF DoLogout
<1>8. CASE QueryAccountInfo(p)
  BY <1>8 DEF QueryAccountInfo, OpenDB, MiscRuns, ProcessTypes
<1>9. CASE AnswerLogin(p)
  BY <1>9 DEF AnswerLogin, MiscRuns, LoginResult
<1>10. CASE Load(p)
  BY <1>10 DEF Load, MiscRuns
<1>11. CASE LoginCancelled(p)
  BY <1>11 DEF LoginCancelled, UIRuns
<1>12. CASE LoginSucceeded(p)
  BY <1>12 DEF LoginSucceeded, UIRuns, DoAfterLogin, ShowMainForm
<1>13. CASE LoginFailed(p)
  BY <1>13 DEF LoginFailed, UIRuns
<1>14. CASE Fill(p)
  BY <1>14 DEF Fill, UIRuns
<1>15. CASE EndLoop(p)
  BY <1>15 DEF EndLoop
<1>16. CASE Exit(p)
  BY <1>16 DEF Exit
<1>q. QED  BY Split, <1>1, <1>2, <1>3, <1>4, <1>5, <1>6, <1>7, <1>8, <1>9, <1>10, <1>11, <1>12, <1>13, <1>14, <1>15, <1>16

-----------------------------------------------------------------------------
(* The modes *)

LEMMA Stays ==
  ASSUME NEW q \in Processes, Same(q), rows \subseteq rows', Running(q) => Mode(q)
  PROVE  (Running(q) => Mode(q))'
BY DEF Same, Running, Mode, LoginMode, FormUp, Idle, Busy, Asking, Answered,
       ListMode, MainMode, LogoutMode, LoadsOnly

LEMMA Singles ==
  ASSUME NEW t
  PROVE  /\ << t >> # << >> /\ Head(<< t >>) = t /\ Tail(<< t >>) = << >>
         /\ Append(<< >>, t) = << t >>
OBVIOUS

\* What the buttons say of the mode.
LEMMA LoginButton ==
  ASSUME NEW p, Mode(p), form[p] = "shown", buttons[p].login
  PROVE  FormUp(p) /\ Idle(p)
BY DEF Mode, LoginMode, ListMode, MainMode, LogoutMode, Busy, Waiting, Cancelling

LEMMA CancelButton ==
  ASSUME NEW p, Mode(p), form[p] = "shown", buttons[p].cancel, buttons[p].enabled
  PROVE  FormUp(p) /\ Busy(p) /\ status[p] = "LOGIN" /\ (Asking(p) \/ Answered(p))
BY DEF Mode, LoginMode, ListMode, MainMode, LogoutMode, Busy, Idle, Fresh, Waiting, Cancelling

\* What the head of a queue says of the mode.
LEMMA LoginTask ==
  ASSUME NEW p, Mode(p), misc[p] # << >>, Head(misc[p]) = "login"
  PROVE  FormUp(p) /\ Busy(p) /\ Asking(p)
<1>1. ~ListMode(p)
  <2>1. ASSUME misc[p] \in Seq(Loads)  PROVE Head(misc[p]) \in Loads
    BY <2>1
  <2>2. QED  BY <2>1 DEF ListMode, LoadsOnly, Loads
<1>2. QED  BY <1>1 DEF Mode, LoginMode, Idle, Answered

LEMMA ResultTask ==
  ASSUME NEW p, Mode(p), ui[p] # << >>, Head(ui[p]) \in Results
  PROVE  FormUp(p) /\ Busy(p) /\ Answered(p)
<1>1. ~ListMode(p)
  <2>1. ASSUME ui[p] \in Seq(Loads)  PROVE Head(ui[p]) \in Loads
    BY <2>1
  <2>2. QED  BY <2>1 DEF ListMode, LoadsOnly, Loads, Results
<1>2. QED  BY <1>1 DEF Mode, LoginMode, Idle, Asking

LEMMA LoadTask ==
  ASSUME NEW p, Mode(p),
         (misc[p] # << >> /\ Head(misc[p]) \in Loads) \/ (ui[p] # << >> /\ Head(ui[p]) \in Loads)
  PROVE  ListMode(p)
<1>1. ~Idle(p)
  BY DEF Idle
<1>2. ~Asking(p)
  BY Singles DEF Asking, Loads
<1>3. ~Answered(p)
  BY Singles DEF Answered, Loads
<1>4. QED  BY <1>1, <1>2, <1>3 DEF Mode, LoginMode

\* Every step of a running process leads from a mode to a mode.
LEMMA ModeStep ==
  ASSUME ConstantsAssumption, TypeOK, NEW p \in Processes, Running(p) => Mode(p),
         User(p) \/ Misc(p) \/ UITask(p) \/ EndLoop(p) \/ Exit(p)
  PROVE  (Running(p) => Mode(p))'
<1> USE DEF loop, login, window, queues, db, TypeOK
<1>m. SUFFICES ASSUME Running(p)' PROVE Mode(p)'
  OBVIOUS
<1>1. CASE Start(p)
  <2>1. <<"friends", "sessions">> \in Seq(Loads) /\ << >> \in Seq(Loads)
    BY DEF Loads
  <2>2. status'[p] = "NONE" /\ buttons'[p] = Fresh /\ stop'[p] = FALSE
        /\ asked'[p] = "no" /\ ui'[p] = << >>
    BY <1>1 DEF Start
  <2>3. CASE form'[p] = "shown" /\ main'[p] = "none" /\ misc'[p] = << >>
    BY <2>2, <2>3 DEF Mode, LoginMode, FormUp, Idle
  <2>4. CASE form'[p] = "none" /\ main'[p] = "shown" /\ misc'[p] = <<"friends", "sessions">>
    BY <2>1, <2>2, <2>4 DEF Mode, ListMode, MainMode, LoadsOnly
  <2>5. QED  BY <1>1, <2>3, <2>4 DEF Start
<1>2. CASE CloseLoginForm(p)
  BY <1>m, <1>2 DEF CloseLoginForm, Running, Mode, LoginMode, FormUp, Idle, Busy, Asking, Answered,
         ListMode, MainMode, LogoutMode, LoadsOnly
<1>3. CASE HideOrShowMainForm(p)
  BY <1>m, <1>3 DEF HideOrShowMainForm, Running, Mode, LoginMode, FormUp, Idle, Busy, Asking, Answered,
         ListMode, MainMode, LogoutMode, LoadsOnly
<1>4. CASE ImportDataToDB(p)
  BY <1>m, <1>4 DEF ImportDataToDB, OpenDB, Running, Mode, LoginMode, FormUp, Idle, Busy, Asking, Answered,
         ListMode, MainMode, LogoutMode, LoadsOnly
<1>5. CASE \E n \in Names, w \in Passwords : StartLogin(p, n, w)
  <2>1. PICK n \in Names, w \in Passwords : StartLogin(p, n, w)
    BY <1>5
  <2>2. Running(p)
    BY <2>1 DEF StartLogin
  <2>3. FormUp(p) /\ Idle(p)
    BY <2>1, <2>2, LoginButton DEF StartLogin
  <2>4. FormUp(p)'
    BY <2>1, <2>3 DEF StartLogin, FormUp
  <2>5. buttons'[p] = Waiting
    <3>1. buttons'[p] = [Fresh EXCEPT !.login = FALSE, !.cancel = TRUE]
      BY <2>1, <2>3 DEF StartLogin, Idle
    <3>2. QED  BY <3>1 DEF Fresh, Waiting
  <2>6. account'[p] \in Names /\ status'[p] = "LOGIN"
    BY <2>1 DEF StartLogin, SetAccount, ConstantsAssumption
  <2>7. misc'[p] = <<"login">> /\ ui'[p] = << >> /\ asked'[p] = "no"
    BY <2>1, <2>3, Singles DEF StartLogin, Idle
  <2>8. Busy(p)' /\ Asking(p)'
    BY <2>5, <2>6, <2>7 DEF Busy, Asking
  <2>9. QED  BY <2>4, <2>8 DEF Mode, LoginMode
<1>6. CASE CancelLogin(p)
  <2>1. FormUp(p) /\ Busy(p) /\ status[p] = "LOGIN" /\ (Asking(p) \/ Answered(p))
    BY <1>6, CancelButton DEF CancelLogin
  <2>2. FormUp(p)'
    BY <1>6, <2>1 DEF CancelLogin, FormUp
  <2>3. buttons'[p] = Cancelling
    <3>1. buttons[p] = Waiting
      BY <2>1 DEF Busy
    <3>2. buttons'[p] = [Waiting EXCEPT !.enabled = FALSE]
      BY <1>6, <3>1 DEF CancelLogin
    <3>3. QED  BY <3>2 DEF Waiting, Cancelling
  <2>4. Busy(p)'
    BY <1>6, <2>1, <2>3 DEF CancelLogin, Busy
  <2>5. (Asking(p) \/ Answered(p))'
    BY <1>6, <2>1 DEF CancelLogin, Asking, Answered
  <2>6. QED  BY <2>2, <2>4, <2>5 DEF Mode, LoginMode
<1>7. CASE DoLogout(p)
  <2>1. ListMode(p) /\ MainMode(p)
    BY <1>7 DEF DoLogout, Mode, LoginMode, FormUp, ListMode, LogoutMode
  <2>2. LoadsOnly(p)'
    BY <1>7, <2>1 DEF DoLogout, ListMode, LoadsOnly
  <2>3. quit'[p] \/ account'[p] # NoName
    BY <1>7, <2>1 DEF DoLogout, MainMode, ConstantsAssumption
  <2>4. LogoutMode(p)'
    BY <1>7, <2>3 DEF DoLogout, LogoutMode
  <2>5. QED  BY <2>2, <2>4 DEF Mode, ListMode
<1>8. CASE QueryAccountInfo(p)
  <2>1. Running(p)
    BY <1>m, <1>8 DEF QueryAccountInfo, Running
  <2>2. FormUp(p) /\ Busy(p) /\ Asking(p)
    BY <1>8, <2>1, LoginTask DEF QueryAccountInfo, MiscRuns
  <2>3. FormUp(p)' /\ Busy(p)'
    BY <1>8, <2>2 DEF QueryAccountInfo, FormUp, Busy
  <2>4. Asking(p)'
    BY <1>8, <2>2 DEF QueryAccountInfo, Asking
  <2>5. QED  BY <2>3, <2>4 DEF Mode, LoginMode
<1>9. CASE AnswerLogin(p)
  <2>1. Running(p)
    BY <1>m, <1>9 DEF AnswerLogin, Running
  <2>2. FormUp(p) /\ Busy(p) /\ Asking(p)
    BY <1>9, <2>1, LoginTask DEF AnswerLogin, MiscRuns
  <2>3. FormUp(p)' /\ Busy(p)'
    BY <1>9, <2>2 DEF AnswerLogin, FormUp, Busy
  <2>4. misc'[p] = << >> /\ asked'[p] = "no" /\ ui'[p] = << LoginResult(p) >>
    BY <1>9, <2>2, Singles DEF AnswerLogin, Asking
  <2>5. \/ LoginResult(p) = "success" /\ account[p] \in rows /\ password[p] = Secret
        \/ LoginResult(p) = "uidNotExist"
        \/ LoginResult(p) = "passError"
    <3>1. asked[p] = "found" \/ asked[p] = "missing"
      BY <1>9 DEF AnswerLogin
    <3>2. CASE asked[p] = "missing"
      BY <3>2 DEF LoginResult
    <3>3. CASE asked[p] = "found"
      BY <2>2, <3>3 DEF LoginResult, Asking
    <3>4. QED  BY <3>1, <3>2, <3>3
  <2>6. Answered(p)'
    BY <1>9, <2>4, <2>5 DEF AnswerLogin, Answered
  <2>7. QED  BY <2>3, <2>6 DEF Mode, LoginMode
<1>10. CASE Load(p)
  <2>1. Running(p) /\ ListMode(p)
    BY <1>m, <1>10, LoadTask DEF Load, MiscRuns, Running
  <2>2. Tail(misc[p]) \in Seq(Loads) /\ Append(ui[p], Head(misc[p])) \in Seq(Loads)
    BY <1>10, <2>1 DEF Load, MiscRuns, ListMode, LoadsOnly
  <2>3. LoadsOnly(p)'
    BY <1>10, <2>1, <2>2 DEF Load, ListMode, LoadsOnly
  <2>4. MainMode(p)' \/ LogoutMode(p)'
    BY <1>10, <2>1 DEF Load, ListMode, MainMode, LogoutMode
  <2>5. QED  BY <2>3, <2>4 DEF Mode, ListMode
<1>11. CASE LoginCancelled(p)
  <2>1. FormUp(p) /\ Busy(p) /\ Answered(p)
    BY <1>11, ResultTask DEF LoginCancelled, UIRuns
  <2>2. FormUp(p)'
    BY <1>11, <2>1 DEF LoginCancelled, FormUp
  <2>3. ui'[p] = << >> /\ misc'[p] = << >> /\ asked'[p] = "no"
    BY <1>11, <2>1, Singles DEF LoginCancelled, Answered
  <2>4. Idle(p)'
    BY <1>11, <2>3 DEF LoginCancelled, Idle
  <2>5. QED  BY <2>2, <2>4 DEF Mode, LoginMode
<1>12. CASE LoginSucceeded(p)
  <2>1. FormUp(p) /\ Busy(p) /\ Answered(p)
    BY <1>12, ResultTask DEF LoginSucceeded, UIRuns, Results
  <2>2. ui'[p] = << >> /\ asked'[p] = "no"
    BY <1>12, <2>1, Singles DEF LoginSucceeded, Answered
  <2>3. main'[p] = "shown" /\ misc'[p] = Append(Append(<< >>, "friends"), "sessions")
    BY <1>12, <2>1 DEF LoginSucceeded, ShowMainForm, FormUp, Answered
  <2>4. LoadsOnly(p)'
    BY <2>2, <2>3 DEF LoadsOnly, Loads
  <2>5. MainMode(p)'
    BY <1>12, <2>1, <2>3 DEF LoginSucceeded, DoAfterLogin, Busy, MainMode
  <2>6. QED  BY <2>4, <2>5 DEF Mode, ListMode
<1>13. CASE LoginFailed(p)
  <2>1. FormUp(p) /\ Busy(p) /\ Answered(p)
    BY <1>13, ResultTask DEF LoginFailed, UIRuns
  <2>2. FormUp(p)'
    BY <1>13, <2>1 DEF LoginFailed, FormUp
  <2>3. ui'[p] = << >> /\ misc'[p] = << >> /\ asked'[p] = "no"
    BY <1>13, <2>1, Singles DEF LoginFailed, Answered
  <2>4. buttons'[p] = Fresh
    <3>1. buttons[p] = Waiting
      BY <1>13, <2>1 DEF LoginFailed, Busy
    <3>2. buttons'[p] = [Waiting EXCEPT !.login = TRUE, !.cancel = FALSE]
      BY <1>13, <3>1 DEF LoginFailed
    <3>3. QED  BY <3>2 DEF Waiting, Fresh
  <2>5. Idle(p)'
    BY <1>13, <2>3, <2>4 DEF LoginFailed, Idle
  <2>6. QED  BY <2>2, <2>5 DEF Mode, LoginMode
<1>14. CASE Fill(p)
  <2>1. ListMode(p)
    BY <1>14, LoadTask DEF Fill, UIRuns
  <2>2. LoadsOnly(p)'
    BY <1>14, <2>1 DEF Fill, UIRuns, ListMode, LoadsOnly
  <2>3. MainMode(p)' \/ LogoutMode(p)'
    BY <1>14, <2>1 DEF Fill, ListMode, MainMode, LogoutMode
  <2>4. QED  BY <2>2, <2>3 DEF Mode, ListMode
<1>15. CASE EndLoop(p)
  BY <1>m, <1>15 DEF EndLoop, Running, Mode, LoginMode, FormUp, Idle, Busy, Asking, Answered,
         ListMode, MainMode, LogoutMode, LoadsOnly
<1>16. CASE Exit(p)
  BY <1>m, <1>16 DEF Exit, Running, Mode, LoginMode, FormUp, Idle, Busy, Asking, Answered,
         ListMode, MainMode, LogoutMode, LoadsOnly
<1>q. QED  BY <1>m, Split, <1>1, <1>2, <1>3, <1>4, <1>5, <1>6, <1>7, <1>8, <1>9, <1>10, <1>11, <1>12, <1>13, <1>14, <1>15, <1>16

-----------------------------------------------------------------------------
(* Theorems *)

LEMMA InvInit == ConstantsAssumption /\ Init => LoginInv
BY DEF ConstantsAssumption, Init, LoginInv, TypeOK, ModeOK, Running, OnlyRegisteredLogIn,
       Buttons, Fresh

LEMMA RegisteredStep ==
  ASSUME ConstantsAssumption, LoginInv, NEW p \in Processes,
         User(p) \/ Misc(p) \/ UITask(p) \/ EndLoop(p) \/ Exit(p)
  PROVE  (status[p] = "SUCCESS" => account[p] \in rows /\ password[p] = Secret)'
<1> USE DEF loop, login, window, queues, db, TypeOK, LoginInv, OnlyRegisteredLogIn
<1>1. CASE Start(p)
  BY <1>1 DEF Start
<1>2. CASE CloseLoginForm(p)
  BY <1>2 DEF CloseLoginForm
<1>3. CASE HideOrShowMainForm(p)
  BY <1>3 DEF HideOrShowMainForm
<1>4. CASE ImportDataToDB(p)
  BY <1>4 DEF ImportDataToDB, OpenDB
<1>5. CASE \E n \in Names, w \in Passwords : StartLogin(p, n, w)
  BY <1>5 DEF StartLogin, SetAccount
<1>6. CASE CancelLogin(p)
  BY <1>6 DEF CancelLogin
<1>7. CASE DoLogout(p)
  BY <1>7 DEF DoLogout
<1>8. CASE QueryAccountInfo(p)
  BY <1>8 DEF QueryAccountInfo, OpenDB, MiscRuns
<1>9. CASE AnswerLogin(p)
  BY <1>9 DEF AnswerLogin, MiscRuns, LoginResult
<1>10. CASE Load(p)
  BY <1>10 DEF Load, MiscRuns
<1>11. CASE LoginCancelled(p)
  BY <1>11 DEF LoginCancelled, UIRuns
<1>12. CASE LoginSucceeded(p)
  <2>1. Running(p) => FormUp(p) /\ Busy(p) /\ Answered(p)
    BY <1>12, ResultTask DEF LoginSucceeded, UIRuns, Results, ModeOK
  <2>2. account[p] \in rows /\ password[p] = Secret
    BY <1>12, <2>1, Singles DEF LoginSucceeded, UIRuns, Answered
  <2>3. QED  BY <1>12, <2>2 DEF LoginSucceeded
<1>13. CASE LoginFailed(p)
  BY <1>13 DEF LoginFailed, UIRuns
<1>14. CASE Fill(p)
  BY <1>14 DEF Fill, UIRuns
<1>15. CASE EndLoop(p)
  BY <1>15 DEF EndLoop
<1>16. CASE Exit(p)
  BY <1>16 DEF Exit
<1>q. QED  BY Split, <1>1, <1>2, <1>3, <1>4, <1>5, <1>6, <1>7, <1>8, <1>9, <1>10, <1>11, <1>12, <1>13, <1>14, <1>15, <1>16

LEMMA InvStep ==
  ASSUME ConstantsAssumption, LoginInv, [Next]_vars
  PROVE  LoginInv'
<1>1. CASE UNCHANGED vars
  BY <1>1 DEF vars, LoginInv, TypeOK, ModeOK, Running, Mode, LoginMode, FormUp, Idle, Busy,
              Asking, Answered, ListMode, MainMode, LogoutMode, LoadsOnly, OnlyRegisteredLogIn
<1>2. ASSUME NEW p \in Processes, User(p) \/ Misc(p) \/ UITask(p) \/ EndLoop(p) \/ Exit(p)
      PROVE  LoginInv'
  <2>1. TypeOK'
    BY <1>2, TypesParts, ProcessTypesStep, WindowTypesStep, ButtonTypesStep, QueueTypesStep,
       DBTypesStep DEF LoginInv, TypeOK, ProcessTypes, WindowTypes, QueueTypes, DBTypes
  <2>2. ASSUME NEW q \in Processes, q # p
        PROVE  Same(q) /\ rows \subseteq rows'
    BY <1>2, <2>2, Others DEF LoginInv
  <2>3. ASSUME NEW q \in Processes  PROVE (Running(q) => Mode(q))'
    BY <1>2, <2>2, ModeStep, Stays DEF LoginInv, ModeOK
  <2>4. ASSUME NEW q \in Processes
        PROVE  (status[q] = "SUCCESS" => account[q] \in rows /\ password[q] = Secret)'
    <3>1. CASE q = p
      BY <1>2, <3>1, RegisteredStep
    <3>2. CASE q # p
      BY <2>2, <3>2 DEF Same, LoginInv, OnlyRegisteredLogIn
    <3>3. QED  BY <3>1, <3>2
  <2>5. QED  BY <2>1, <2>3, <2>4 DEF LoginInv, ModeOK, OnlyRegisteredLogIn
<1>3. QED  BY <1>1, <1>2 DEF Next

\* The invariant holds for any processes, names and configuration.
THEOREM LoginInvariant == Spec => []LoginInv
<1>1. Init => LoginInv
  BY InvInit, ConstantsAssumption
<1>2. LoginInv /\ [Next]_vars => LoginInv'
  BY InvStep, ConstantsAssumption
<1>3. QED  BY <1>1, <1>2, PTL DEF Spec

\* Type correctness.
THEOREM LoginTypes == Spec => []TypeOK
<1>1. LoginInv => TypeOK
  BY DEF LoginInv
<1>2. QED  BY <1>1, LoginInvariant, PTL

\* Whoever is logged in is registered, with that password: the credentials the
\* Global Misc thread reads one after the other are those of one click.
THEOREM OnlyRegistered == Spec => []OnlyRegisteredLogIn
<1>1. LoginInv => OnlyRegisteredLogIn
  BY DEF LoginInv
<1>2. QED  BY <1>1, LoginInvariant, PTL

LEMMA ModeButtons ==
  ASSUME NEW p, Mode(p), form[p] = "shown"
  PROVE  /\ buttons[p].login <=> status[p] = "NONE"
         /\ buttons[p].cancel /\ buttons[p].enabled <=> status[p] = "LOGIN"
<1>1. Idle(p) \/ Busy(p)
  BY DEF Mode, LoginMode, ListMode, MainMode, LogoutMode
<1>2. CASE Idle(p)
  BY <1>2 DEF Idle, Fresh
<1>3. CASE Busy(p)
  BY <1>3 DEF Busy, Waiting, Cancelling
<1>4. QED  BY <1>1, <1>2, <1>3

\* The asserts of DoLogin and CancelLogin hold, and the buttons fit the status.
THEOREM AssertsHold == Spec => []ButtonsMatchStatus
<1>1. LoginInv => ButtonsMatchStatus
  BY ModeButtons DEF LoginInv, ModeOK, ButtonsMatchStatus
<1>2. QED  BY <1>1, LoginInvariant, PTL

\* No answer to a login finds its form deleted, and no list the main form
\* unless the user has logged out.
THEOREM CallbacksSafe == Spec => []CallbacksFindTheirForm
<1>1. ASSUME LoginInv, NEW p \in Processes, Running(p)
      PROVE  /\ Tasks(p) \cap (Results \cup {"login"}) # {} => form[p] = "shown"
             /\ Tasks(p) \cap Loads # {} =>
                  main[p] \in {"shown", "hidden"} \/ status[p] = "EXIT"
  <2>1. Mode(p)
    BY <1>1 DEF LoginInv, ModeOK
  <2>2. CASE LoginMode(p)
    <3>1. \A t \in Tasks(p) : t \in Results \cup {"login"}
      BY <2>2 DEF LoginMode, Idle, Asking, Answered, Tasks, Results
    <3>2. QED  BY <2>2, <3>1 DEF LoginMode, FormUp, Results, Loads
  <2>3. CASE ListMode(p)
    <3>1. \A t \in Tasks(p) : t \in Loads
      BY <2>3 DEF ListMode, LoadsOnly, Tasks
    <3>2. QED  BY <2>3, <3>1 DEF ListMode, MainMode, LogoutMode, Results, Loads
  <2>4. QED  BY <2>1, <2>2, <2>3 DEF Mode
<1>2. LoginInv => CallbacksFindTheirForm
  BY <1>1 DEF CallbacksFindTheirForm
<1>3. QED  BY <1>2, LoginInvariant, PTL

\* A running process without a window is about to end, or was logged out of.
THEOREM Windowless == Spec => []WindowlessIsEnding
<1>1. LoginInv => WindowlessIsEnding
  BY DEF LoginInv, ModeOK, WindowlessIsEnding, Mode, LoginMode, FormUp, ListMode, MainMode,
         LogoutMode
<1>2. QED  BY <1>1, LoginInvariant, PTL

\* A second login to an account typed in lower case is refused once the first
\* one is complete, in any number of processes.
THEOREM Taken == Spec => LoggedInIsTaken
<1> DEFINE Refused ==
      \A p, q \in Processes, n \in Names, w \in Passwords :
        (CheckSingleton /\ Lower[n] = n /\ StartLogin(p, n, w)) =>
          ~(Running(q) /\ status[q] = "SUCCESS" /\ account[q] = n)
<1>1. ASSUME LoginInv, NEW q \in Processes, Running(q), CheckSingleton, status[q] = "SUCCESS"
      PROVE  mutex[q] = account[q]
  BY <1>1 DEF LoginInv, ModeOK, Mode, LoginMode, Idle, Busy, ListMode, MainMode, LogoutMode
<1>2. LoginInv => Refused
  BY <1>1 DEF StartLogin, CheckSingletonRun
<1>3. QED  BY <1>2, LoginInvariant, PTL DEF LoggedInIsTaken
=============================================================================
