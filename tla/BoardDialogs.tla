---------------------------- MODULE BoardDialogs ----------------------------
(***************************************************************************)
(* The dialogs of a board page that create a task, delete one and show the *)
(* history of one, over the tab's session: KanbanBoardController's locks,  *)
(* what is to be deleted and what history is shown.  Each opening of the   *)
(* page has a controller of its own.                                       *)
(***************************************************************************)
EXTENDS Session

VARIABLES
    createTaskLock,
    deleteTaskLock,
    deletion,       \* deletion.task is set
    historyMarkup

dialogVars == <<createTaskLock, deleteTaskLock, deletion, historyMarkup>>
vars == <<sessionVars, dialogVars>>

ASSUME MarkupAssumption == None \notin {"loading", "history", "error"}

DialogTypeOK ==
    /\ SessionTypeOK
    /\ createTaskLock \in BOOLEAN
    /\ deleteTaskLock \in BOOLEAN
    /\ deletion \in BOOLEAN
    /\ historyMarkup \in {None, "loading", "history", "error"}

Init ==
    /\ SessionInit
    /\ createTaskLock = FALSE
    /\ deleteTaskLock = FALSE
    /\ deletion = FALSE
    /\ historyMarkup = None

\* A page opened: its controller's initial scope.
NewPage ==
    /\ createTaskLock' = FALSE
    /\ deleteTaskLock' = FALSE
    /\ deletion' = FALSE
    /\ historyMarkup' = None

SamePage == UNCHANGED dialogVars

Ongoing(kind) == {k \in DOMAIN calls : calls[k].request = kind}

-----------------------------------------------------------------------------
(* What the user asks for.                                                 *)

\* Not logged in any more, nothing is sent and nothing changes.
createTask ==
    /\ ~createTaskLock
    /\ userInfo # None
    /\ Ask("createTask", FALSE)
    /\ createTaskLock' = TRUE
    /\ UNCHANGED <<deleteTaskLock, deletion, historyMarkup>>

\* Also while a deletion is under way.
startDeleteTask ==
    /\ page = "board"
    /\ deletion' = TRUE
    /\ UNCHANGED <<sessionVars, createTaskLock, deleteTaskLock, historyMarkup>>

\* The dialog's button is disabled while it is locked.
deleteTask ==
    /\ ~deleteTaskLock
    /\ deletion
    /\ Ask("deleteTask", FALSE)
    /\ deleteTaskLock' = TRUE
    /\ UNCHANGED <<createTaskLock, deletion, historyMarkup>>

\* Each time with a new promise of a token.
showTaskHistory ==
    /\ Ask("taskHistory", TRUE)
    /\ historyMarkup' = "loading"
    /\ UNCHANGED <<createTaskLock, deleteTaskLock, deletion>>

-----------------------------------------------------------------------------
(* The answers.                                                            *)

\* A mutant: the lock is kept when the creation fails.
ResetOnSuccess(outcome) == outcome = "error" /\ createTaskLock

\* createTask's and resetCreateTask's lock.
resetCreateTask(outcome) == FALSE

\* A mutant: an error is not shown.
OnlyHistories(outcome) == IF outcome = "ok" THEN "history" ELSE historyMarkup

\* A hollow answer has no history.
HistoryShown(outcome) == IF outcome = "ok" THEN "history" ELSE "error"

TaskCreated(k, outcome) ==
    /\ k \in Ongoing("createTask")
    /\ createTaskLock' = resetCreateTask(outcome)
    /\ UNCHANGED <<deleteTaskLock, deletion, historyMarkup>>

\* resetDeleteTask, of the task there is to be deleted by now.
TaskDeleted(k) ==
    /\ k \in Ongoing("deleteTask")
    /\ deleteTaskLock' = FALSE
    /\ deletion' = FALSE
    /\ UNCHANGED <<createTaskLock, historyMarkup>>

HistoryLoaded(k, outcome) ==
    /\ k \in Ongoing("taskHistory")
    /\ historyMarkup' = HistoryShown(outcome)
    /\ UNCHANGED <<createTaskLock, deleteTaskLock, deletion>>

Answered(k) ==
    \E outcome \in {"ok", "hollow", "error"} :
        /\ Answer(k, outcome)
        /\ TaskCreated(k, outcome) \/ TaskDeleted(k) \/ HistoryLoaded(k, outcome)

-----------------------------------------------------------------------------
(* The session below.                                                      *)

\* login, at once or when its token comes, opens the page anew.
LoginUser == \E email \in Typed : Login(email) /\ IF page' = page THEN SamePage ELSE NewPage

Authenticated(i) ==
    \/ AuthRetries(i) /\ SamePage
    \/ /\ AuthSucceeds(i) \/ AuthFails(i)
       /\ IF auths[i].login = None THEN SamePage ELSE NewPage

Navigate == (Logout \/ VisitLogin \/ VisitBoard \/ Reload) /\ NewPage

Next ==
    \/ LoginUser \/ Navigate
    \/ createTask \/ startDeleteTask \/ deleteTask \/ showTaskHistory
    \/ \E i \in Auths : Authenticated(i)
    \/ \E k \in DOMAIN calls : Answered(k)
    \/ Expire /\ SamePage

\* A POST ends with a token or an error, the first of which may have it
\* repeated; no lock is to rely on an answer without data.
Ended(i) == Authenticated(i) /\ (auths[i].again => AuthRetries(i) \/ AuthSucceeds(i))

\* Every request the browser sends ends somehow; the user may do anything.
Fairness ==
    /\ \A i \in Auths : WF_vars(Ended(i))
    /\ WF_vars(Len(calls) > 0 /\ Answered(1))

Spec == Init /\ [][Next]_vars /\ Fairness

-----------------------------------------------------------------------------
(* A dialog is locked as long as a request of it is under way on this      *)
(* page, no longer and no shorter, whatever became of the request and of   *)
(* the session meanwhile (resetCreateTask, resetDeleteTask).               *)
LocksFollowRequests ==
    /\ createTaskLock = (Ongoing("createTask") # {})
    /\ deleteTaskLock = (Ongoing("deleteTask") # {})

(* The history dialog waits only while a history is on its way, and shows  *)
(* an error if none comes (showTaskHistory), also for the empty body that  *)
(* the gateway makes of a refusal.                                         *)
HistoryIsAwaited == historyMarkup = "loading" => Ongoing("taskHistory") # {}

(* No dialog stays locked: its request ends, be it after authentications   *)
(* that fail, are repeated or give way to others.                          *)
LocksAreReleased ==
    /\ []<>~createTaskLock
    /\ []<>~deleteTaskLock

-----------------------------------------------------------------------------
(* The inductive invariant, proved in BoardDialogs_proofs.                 *)

\* The locks let one request of a kind go at a time.
OneRequest(kind) == \A j, k \in Ongoing(kind) : j = k

(* Session and dialogs at any time: who is logged in, what waits for whose *)
(* token, what is locked and what is under way agree.                      *)
DialogIInv ==
    /\ DialogTypeOK
    /\ SessionIInv
    /\ LocksFollowRequests
    /\ HistoryIsAwaited
    /\ OneRequest("createTask") /\ OneRequest("deleteTask")
=============================================================================
