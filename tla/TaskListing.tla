---------------------------- MODULE TaskListing ----------------------------
(***************************************************************************)
(* GET /tasks over the task view: TaskQueryController.listAllTasks makes   *)
(* two queries, the backlog and the tasks on a board, while the workflow   *)
(* goes on changing the documents between them.                            *)
(***************************************************************************)
EXTENDS TaskQuerySide

VARIABLES
    listing,  \* the listing under way or answered last
    touched   \* tasks whose document changed between its queries

listingVars == <<log, delivered, acked, failed, view, restarts, listing, touched>>

Entry == [id: Tasks, task: Task]

Listing ==
    [step: {"none", "half", "done"}, boardId: BoardRefs,
     backlog: SUBSET Entry, tasks: SUBSET Entry]

ListingTypeOK ==
    /\ TypeOK
    /\ listing \in Listing
    /\ touched \in SUBSET Tasks

NoListing == [step |-> "none", boardId |-> Null, backlog |-> {}, tasks |-> {}]

ListingInit == Init /\ listing = NoListing /\ touched = {}

\* The tasks that have a document in the view, and what a query returns.
Stored == {t \in Tasks : view[t] # Null}
Found(ids) == {[id |-> t, task |-> view[t]] : t \in ids}

\* taskRepository.findByStatus(backlog)
FindByStatusBacklog(b) ==
    /\ listing.step # "half"
    /\ listing' = [step |-> "half", boardId |-> b, tasks |-> {},
                   backlog |-> Found({t \in Stored : view[t].status = "backlog"})]
    /\ touched' = {}
    /\ UNCHANGED vars

\* A mutant: the board's tasks are found without a look at their status.
FindByBoardId ==
    /\ listing.step = "half"
    /\ listing' = [listing EXCEPT
          !.step = "done",
          !.tasks = IF listing.boardId = Null THEN {}
                    ELSE Found({t \in Stored : view[t].boardId = listing.boardId})]
    /\ UNCHANGED <<vars, touched>>

\* taskRepository.findByBoardIdAndStatusNot(boardId, backlog), or no tasks
\* without a board.
FindByBoardIdAndStatusNot ==
    /\ listing.step = "half"
    /\ listing' = [listing EXCEPT
          !.step = "done",
          !.tasks = IF listing.boardId = Null THEN {}
                    ELSE Found({t \in Stored : /\ view[t].boardId = listing.boardId
                                                /\ view[t].status # "backlog"})]
    /\ UNCHANGED <<vars, touched>>

\* What the view's changes mean for a listing under way.
Touch ==
    /\ touched' = IF listing.step = "half"
                  THEN touched \cup {t \in Tasks : view'[t] # view[t]}
                  ELSE touched
    /\ UNCHANGED listing

\* The workflow and the store between the queries.
ViewChanges ==
    /\ \E t \in Tasks : Publish(t) \/ Handle(t) \/ HandleFails(t) \/ Acknowledge(t)
    /\ Touch

\* A restart cuts the listing short.
RestartListing == Restart /\ listing' = NoListing /\ touched' = {}

ListingNext ==
    \/ \E b \in BoardRefs : FindByStatusBacklog(b)
    \/ FindByBoardIdAndStatusNot
    \/ ViewChanges
    \/ RestartListing

ListingSpec == ListingInit /\ [][ListingNext]_listingVars

-----------------------------------------------------------------------------
\* What the board page shows of a board: its tasks and the whole backlog.
Visible(doc, b) == doc # Null /\ (doc.status = "backlog" \/ (b # Null /\ doc.boardId = b))

(* A listing shows every task that did not change between its two queries  *)
(* just as it is: once if it is in the backlog or on the board, not at all *)
(* otherwise.  (One that was moved meanwhile may be missing or twice.)     *)
UnchangedTasksListedOnce ==
    [][listing.step = "half" /\ listing'.step = "done" =>
        \A t \in Tasks \ touched :
            LET entry == [id |-> t, task |-> view[t]]
                inBacklog == {e \in listing'.backlog : e.id = t}
                inTasks == {e \in listing'.tasks : e.id = t}
            IN  /\ inBacklog \cup inTasks
                      = IF Visible(view[t], listing.boardId) THEN {entry} ELSE {}
                /\ inBacklog \cap inTasks = {}]_listingVars

-----------------------------------------------------------------------------
(* The inductive invariant, proved in TaskQuerySide_proofs.                *)

\* What the first query found is still so of the tasks left alone since.
BacklogFollows ==
    listing.step = "half" =>
        /\ listing.tasks = {}
        /\ \A e \in listing.backlog : e.id \notin touched => view[e.id] = e.task
        /\ \A t \in Stored \ touched :
              view[t].status = "backlog" => [id |-> t, task |-> view[t]] \in listing.backlog

ListedAsAsked ==
    /\ \A e \in listing.backlog : e.task.status = "backlog"
    /\ \A e \in listing.tasks : /\ e.task.status # "backlog"
                                 /\ listing.boardId # Null /\ e.task.boardId = listing.boardId

ListedTasksExist == \A e \in listing.backlog \cup listing.tasks : log[e.id] # <<>>

\* There are finitely many tasks at any time, so an answer is a finite list.
AnswersAreFinite ==
    /\ IsFiniteSet({t \in Tasks : log[t] # <<>>})
    /\ IsFiniteSet(listing.backlog)
    /\ IsFiniteSet(listing.tasks)

(* A listing under way is as the first query left it, and the view has     *)
(* stayed as the listing has it but for the tasks it knows to have changed.*)
ListingIInv ==
    /\ QueryIInv
    /\ ListingTypeOK
    /\ BacklogFollows
    /\ ListedAsAsked
    /\ ListedTasksExist
    /\ AnswersAreFinite
=============================================================================
