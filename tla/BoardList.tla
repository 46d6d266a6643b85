----------------------------- MODULE BoardList -----------------------------
(***************************************************************************)
(* Boards and the page that lists them.  A board is created and never      *)
(* changed: its aggregate has one command and one event.  The list page    *)
(* (kbnBoardList) learns of a board in three ways: from the answer to      *)
(* GET /boards, from the message of its creation and, if it created the    *)
(* board itself, from the answer to its POST.                              *)
(***************************************************************************)
EXTENDS Naturals, Sequences, FiniteSets, SequencesExt

CONSTANTS
    Boards,  \* board ids, used in any order
    Titles,
    Users,   \* who created or updated a board
    Times,   \* when
    Null     \* no such thing

ASSUME ListAssumption ==
    /\ {Null, "-1", "undefined"} \cap Boards = {}
    /\ Times \subseteq Nat

VARIABLES
    created,     \* created[b]: the BoardInfo in b's event, Null if there is none
    view,        \* view[b]: the document of b, Null if there is none
    boards,      \* $scope.boards
    loading,     \* how far loadBoards of the open page got
    answer,      \* the boards in its answer
    creating,    \* the POST of the open page, which holds createBoardLock
    connection   \* of the STOMP client

\* History variables of the open page.
VARIABLES
    told,        \* the boards that messages and answers to its POSTs told it of
    indexed,     \* the boards with a document when its load found what to answer
    overtaken    \* those it was told of before the answer to its load came,
                 \* and not again, which had no document yet when it was found

historyVars == <<told, indexed, overtaken>>
pageVars == <<boards, loading, answer, creating, historyVars>>
vars == <<created, view, connection, pageVars>>

AuditEntry == [who: Users, when: Times]
BoardInfo == [title: Titles, creation: AuditEntry, update: AuditEntry]
Board == [id: Boards, title: Titles, createdBy: Users, createdDate: Times,
          updatedBy: Users, updatedDate: Times]

ASSUME EventAssumption == Null \notin BoardInfo

\* The first entry of the list is the button that adds a board.  The gateway
\* turns an error into an empty answer, whose id is undefined.
addBoardBoard == [id |-> "-1"]
EmptyAnswer == [id |-> "undefined"]

NoPost == [step |-> "none", id |-> Null]

ListTypeOK ==
    /\ created \in [Boards -> BoardInfo \cup {Null}]
    /\ view \in [Boards -> Board \cup {Null}]
    /\ boards \in Seq(Board \cup {addBoardBoard, EmptyAnswer})
    /\ loading \in {"closed", "asked", "answered", "loaded", "refused", "failed"}
    /\ answer \in SUBSET Board
    /\ creating \in [step: {"none", "sent", "saved"}, id: Boards \cup {Null}]
    /\ connection \in {"none", "connecting", "open", "broken"}
    /\ {told, indexed, overtaken} \subseteq SUBSET Boards

Init ==
    /\ created = [b \in Boards |-> Null]
    /\ view = [b \in Boards |-> Null]
    /\ boards = <<>>
    /\ loading = "closed"
    /\ answer = {}
    /\ creating = NoPost
    /\ connection = "none"
    /\ told = {}
    /\ indexed = {}
    /\ overtaken = {}

-----------------------------------------------------------------------------
(* The server: a board as stored, in a document, a message and an answer.  *)

\* The browser writes the two entries one after the other.
Infos == {info \in BoardInfo : /\ info.creation.who = info.update.who
                               /\ info.creation.when <= info.update.when}

Existing == {b \in Boards : created[b] # Null}

\* BoardService.save: process and apply leave the event with the command's info.
save(b) ==
    /\ b \notin Existing
    /\ \E info \in Infos : created' = [created EXCEPT ![b] = info]

\* A mutant: the constructor of Board that takes no update.
DocumentNotUpdated(b, info) ==
    [id |-> b, title |-> info.title,
     createdBy |-> info.creation.who, createdDate |-> info.creation.when,
     updatedDate |-> info.creation.when, updatedBy |-> Null]

\* BoardUpdateService.create
Document(b, info) ==
    [id |-> b, title |-> info.title,
     createdBy |-> info.creation.who, createdDate |-> info.creation.when,
     updatedDate |-> info.update.when, updatedBy |-> info.update.who]

\* WebsocketEventsTranslator.sendBoardEvents
Message(b, info) ==
    [id |-> b, title |-> info.title,
     createdBy |-> info.creation.who, createdDate |-> info.creation.when,
     updatedBy |-> info.update.who, updatedDate |-> info.update.when]

\* BoardCommandController.makeBoardResponse
Response(b, info) ==
    [id |-> b, title |-> info.title,
     createdBy |-> info.creation.who, createdDate |-> info.creation.when,
     updatedBy |-> info.update.who, updatedDate |-> info.update.when]

\* Other users, and this one from a page left meanwhile.
OthersSave(b) ==
    /\ save(b)
    /\ UNCHANGED <<view, boards, loading, answer, creating, connection, historyVars>>

\* A redelivered event writes the same document again.
Handle(b) ==
    /\ b \in Existing
    /\ view' = [view EXCEPT ![b] = Document(b, created[b])]
    /\ UNCHANGED <<created, connection, pageVars>>

-----------------------------------------------------------------------------
(* The page.                                                               *)

\* A mutant: a board is added without a look for it.
AddBoard(shown, data) == Append(shown, data)

\* A mutant: a board that is not listed yet is not added.
ReplaceBoard(shown, data) ==
    [i \in DOMAIN shown |-> IF shown[i].id = data.id THEN data ELSE shown[i]]

processBoardCreation(shown, data) ==
    LET locationIdx == SelectInSeq(shown, LAMBDA b : b.id = data.id)
    IN  IF locationIdx = 0 THEN Append(shown, data) ELSE [shown EXCEPT ![locationIdx] = data]

\* The controller starts: it loads the boards and listens for new ones.
OpenList ==
    /\ loading = "closed"
    /\ loading' = "asked"
    /\ boards' = <<>>
    /\ connection' = IF connection = "none" THEN "connecting" ELSE connection
    /\ UNCHANGED <<created, view, answer, creating, historyVars>>

\* $destroy: nothing that arrives later finds this page.
LeaveList ==
    /\ loading # "closed"
    /\ loading' = "closed"
    /\ boards' = <<>>
    /\ answer' = {}
    /\ creating' = NoPost
    /\ told' = {} /\ indexed' = {} /\ overtaken' = {}
    /\ UNCHANGED <<created, view, connection>>

Indexed == {b \in Boards : view[b] # Null}

listAllBoards ==
    /\ loading = "asked"
    /\ loading' = "answered"
    /\ answer' = {view[b] : b \in Indexed}
    /\ indexed' = Indexed
    /\ UNCHANGED <<created, view, boards, creating, connection, told, overtaken>>

\* The answer, in whatever order, replaces what was shown before.
BoardsLoaded(data) ==
    /\ \E found \in SetToSeqs(data) : boards' = <<addBoardBoard>> \o found
    /\ overtaken' = told \ indexed
    /\ answer' = {}
    /\ UNCHANGED <<created, view, creating, connection, told, indexed>>

\* loadBoards' then.  What the gateway makes of a refusal has no boards.
loadBoards ==
    \/ loading = "answered" /\ BoardsLoaded(answer) /\ loading' = "loaded"
    \/ loading = "asked" /\ BoardsLoaded({}) /\ loading' = "refused"

LoadFails ==
    /\ loading \in {"asked", "answered"}
    /\ loading' = "failed"
    /\ answer' = {}
    /\ UNCHANGED <<created, view, boards, creating, connection, historyVars>>

createBoard ==
    /\ loading # "closed"
    /\ creating.step = "none"
    /\ creating' = [step |-> "sent", id |-> Null]
    /\ UNCHANGED <<created, view, boards, loading, answer, connection, historyVars>>

saveBoard(b) ==
    /\ creating.step = "sent"
    /\ save(b)
    /\ creating' = [step |-> "saved", id |-> b]
    /\ UNCHANGED <<view, boards, loading, answer, connection, historyVars>>

\* The POST's answer: the board, or an error made empty by the gateway.
BoardCreated ==
    /\ \/ /\ creating.step = "saved"
          /\ boards' = processBoardCreation(boards, Response(creating.id, created[creating.id]))
          /\ told' = told \cup {creating.id}
          /\ overtaken' = overtaken \ {creating.id}
       \/ /\ creating.step \in {"sent", "saved"}
          /\ boards' = processBoardCreation(boards, EmptyAnswer)
          /\ UNCHANGED <<told, overtaken>>
    /\ creating' = NoPost
    /\ UNCHANGED <<created, view, loading, answer, connection, indexed>>

createBoardUnlock ==
    /\ creating.step # "none"
    /\ creating' = NoPost
    /\ UNCHANGED <<created, view, boards, loading, answer, connection, historyVars>>

\* The message of a creation; the translator may get the event, and send the
\* message, again.  With no page or no connection it is lost.
Receive(b) ==
    /\ connection = "open"
    /\ loading # "closed"
    /\ b \in Existing
    /\ boards' = processBoardCreation(boards, Message(b, created[b]))
    /\ told' = told \cup {b}
    /\ overtaken' = overtaken \ {b}
    /\ UNCHANGED <<created, view, loading, answer, creating, connection, indexed>>

\* The STOMP client connects once.
Connect ==
    /\ connection = "connecting"
    /\ connection' = "open"
    /\ UNCHANGED <<created, view, pageVars>>

Disconnect ==
    /\ connection \in {"connecting", "open"}
    /\ connection' = "broken"
    /\ UNCHANGED <<created, view, pageVars>>

Next ==
    \/ \E b \in Boards : OthersSave(b) \/ Handle(b)
    \/ OpenList \/ LeaveList \/ listAllBoards \/ loadBoards \/ LoadFails
    \/ createBoard \/ BoardCreated \/ createBoardUnlock
    \/ \E b \in Boards : saveBoard(b) \/ Receive(b)
    \/ Connect \/ Disconnect

Spec == Init /\ [][Next]_vars

-----------------------------------------------------------------------------
Listed == {i \in DOMAIN boards : boards[i].id \in Boards}
ListedIds == {boards[i].id : i \in Listed}

(* The list shows a board at most once and as it was created, although it  *)
(* may learn of it from a load, a message (again) and an answer, in any    *)
(* order, each made by a piece of code of its own.                         *)
ListedOnceAsCreated ==
    \A i \in Listed :
        LET board == boards[i]
            info == created[board.id]
        IN  /\ board.id \in Existing
            /\ board.title = info.title
            /\ board.createdBy = info.creation.who /\ board.createdDate = info.creation.when
            /\ board.updatedBy = info.update.who /\ board.updatedDate = info.update.when
            /\ \A j \in Listed : boards[j].id = board.id => j = i

(* A loaded list has every board that had a document when its load found  *)
(* what to answer, and every one that its page is told of, in whatever     *)
(* order answers and messages come and whatever comes later.  Left out are *)
(* those it was told of too early: they had no document when the answer    *)
(* was found, which then takes them off the list again, the user's own     *)
(* new board too (KanbanBoardList.loadBoards).                             *)
LoadedListIsComplete ==
    loading \in {"loaded", "refused"} => indexed \cup (told \ overtaken) \subseteq ListedIds

-----------------------------------------------------------------------------
(* The inductive invariant behind both: whatever the list may yet take up  *)
(* is a board as it was created.                                           *)

DocumentsAsCreated ==
    /\ \A b \in Indexed : b \in Existing /\ view[b] = Document(b, created[b])
    /\ IsFiniteSet(Indexed)

AnswerAsCreated ==
    /\ \A board \in answer :
          board.id \in Existing /\ board = Document(board.id, created[board.id])
    /\ IsFiniteSet(answer)

AnswerIsComplete ==
    /\ loading \in {"closed", "asked"} => indexed = {}
    /\ loading = "answered" => indexed \subseteq {board.id : board \in answer}

SavedExists == creating.step = "saved" => creating.id \in Existing

(* No document, answer under way or answered POST has anything but a board *)
(* as it was created, so that neither the list can: there are three pieces *)
(* of code that make a board of an event, and they agree.                  *)
ListIInv ==
    /\ ListTypeOK
    /\ DocumentsAsCreated
    /\ AnswerAsCreated
    /\ AnswerIsComplete
    /\ SavedExists
    /\ ListedOnceAsCreated
    /\ LoadedListIsComplete
=============================================================================
