---------------------------- MODULE DragAndDrop ----------------------------
(***************************************************************************)
(* Dragging on a board page: the mouse handlers of kbnTask, which live on  *)
(* the document and outlive their card, the events they make of the mouse  *)
(* and what the columns and the board do on those events.                  *)
(*                                                                         *)
(* A card here is the scope and element Angular keeps for a task.  A       *)
(* message that moves or deletes the task, and the answer to loadTasks,    *)
(* destroy it and make a new one: a destroyed scope's $emit and $apply do  *)
(* nothing.  What a drop does on the server is BoardPage's matter.         *)
(***************************************************************************)
EXTENDS Naturals, Sequences, SequencesExt

CONSTANTS
    Cards,      \* the tasks of the page
    MaxTimers   \* bound on the animations of a card's clones that run at once

ASSUME TimersAssumption == MaxTimers \in Nat

VARIABLES
    status,    \* status[c]: the column c is shown in, Gone if in none
    pointer,   \* the column under the mouse pointer, Nowhere if there is none
    held,      \* cards with handlers on the document, in the order they were pressed
    ghosts,    \* the document has handlers of cards that were destroyed
    moving,    \* cards with $scope.isMoving (KanbanTaskController)
    hosts,     \* columns with $scope.isMovingHost (KanbanColumnController)
    alert,     \* columns with $scope.isColumnAlert
    state,     \* of KanbanBoardController
    listening, \* the document has mouseenter and mouseleave handlers for columns
    clones,    \* cards whose clone is on the screen
    animated,  \* those of them whose clone is moving back
    timers,    \* timers[c]: animations of c's clones, removed ones included, to end
    puts,      \* puts[p]: how often the last step sent p, a request to move a task
    lost       \* columns a card was taken away from while it was dragged

vars == <<status, pointer, held, ghosts, moving, hosts, alert, state, listening,
          clones, animated, timers, puts, lost>>

\* The columns in the order of KanbanBoard.tpl.html.
Column == {"scheduled", "started", "completed", "backlog"}
Position == [scheduled |-> 1, started |-> 2, completed |-> 3, backlog |-> 4]
Gone == "gone"
Nowhere == "nowhere"

Put == [card: Cards, status: Column]
NoPuts == [p \in Put |-> 0]
Held == {held[i] : i \in DOMAIN held}

DragTypeOK ==
    /\ status \in [Cards -> Column \cup {Gone}]
    /\ pointer \in Column \cup {Nowhere}
    /\ held \in Seq(Cards)
    /\ ghosts \in BOOLEAN
    /\ moving \in SUBSET Cards
    /\ hosts \in SUBSET Column
    /\ alert \in SUBSET Column
    /\ state \in {"go_on_alert", "go_off_alert"}
    /\ listening \in BOOLEAN
    /\ clones \in SUBSET Cards
    /\ animated \in SUBSET Cards
    /\ timers \in [Cards -> Nat]
    /\ puts \in [Put -> Nat]
    /\ lost \in SUBSET Column

Init ==
    /\ status \in [Cards -> Column \cup {Gone}]
    /\ pointer = Nowhere
    /\ held = <<>>
    /\ ghosts = FALSE
    /\ moving = {}
    /\ hosts = {}
    /\ alert = {}
    /\ state = "go_off_alert"
    /\ listening = FALSE
    /\ clones = {}
    /\ animated = {}
    /\ timers = [c \in Cards |-> 0]
    /\ puts = NoPuts
    /\ lost = {}

-----------------------------------------------------------------------------
(* The mouse.                                                              *)

\* The cards that follow the mouse: the handlers of mousemove run in the
\* order they were added, up to one whose clone is gone, which throws.
Following == {held[i] : i \in {j \in DOMAIN held : \A k \in 1..j : held[k] \in clones}}

\* Those for which onMove does not return at once.
Starting == Following \ moving

\* A destroyed card's handler may throw as well, before any of these.
Starts == {Starting} \cup IF ghosts THEN {{}} ELSE {}

\* mousedown: a clone replaces the last one, whose animation goes on unseen.
\* If another card is held, its release was lost (to another window, say) and
\* it came along to this one.
Press(c) ==
    /\ status[c] = pointer
    /\ ghosts \/ Starting \subseteq {c}
    /\ timers[c] < MaxTimers
    /\ held' = IF c \in Held THEN held ELSE Append(held, c)
    /\ clones' = clones \cup {c}
    /\ animated' = animated \ {c}
    /\ puts' = NoPuts
    /\ UNCHANGED <<status, pointer, ghosts, moving, hosts, alert, state, listening, timers, lost>>

\* A mutant: a column that was left is not relaxed.
AlertOnly(q) == alert \cup ({q} \cap Column)

\* relaxColumn and alertColumn.
AlertAt(q) == IF q = pointer THEN alert ELSE (alert \ {pointer}) \cup ({q} \cap Column)

\* The pointer enters q, then mousemove: the first card to start puts the
\* columns on alert, too late for the one the pointer has just entered.
Move(q) ==
    /\ pointer' = q
    /\ alert' = IF listening THEN AlertAt(q) ELSE alert
    /\ \E cards \in Starts :
          /\ moving' = moving \cup cards
          /\ hosts' = hosts \cup {status[c] : c \in cards}
          /\ IF cards # {} THEN state' = "go_on_alert" /\ listening' = TRUE
             ELSE UNCHANGED <<state, listening>>
    /\ puts' = NoPuts
    /\ UNCHANGED <<status, held, ghosts, clones, animated, timers, lost>>

\* A mutant: a drop on the card's own column is a move as well.
AcceptingAll(c) == alert

\* tryAcceptTask: the columns that take c, one after the other.
Accepting(c) == alert \ {status[c]}
LastOf(columns) == CHOOSE q \in columns : \A p \in columns : Position[p] <= Position[q]

\* A mutant: only the clones of cards that moved are brought back.
ReturningMoved(ended) == (moving \cap clones) \ ended

\* kbnTask's task_moved: the clones that begin to move back.
Returning(ended) == (Held \cap clones) \ ended

\* A mutant: the board stays on alert when no column takes the card.
OffWhenTaken == IF Accepting(Head(held)) = {} THEN state ELSE "go_off_alert"

\* The board's task_moved.
AfterDrop == "go_off_alert"

\* A mutant: columns have no handler for task_moved.
HostsKept == hosts

\* KanbanColumnController's task_moved, in the columns of the cards.
HostsLeft == hosts \ {status[c] : c \in Held}

\* The PUTs of a column that accepts a card: the board's scope hears the
\* broadcast, and nobody the emission at the root.
Saves == 1

\* mouseup: onStill of every held card.  The board heeds the first, and the
\* columns on alert take it.  Then task_moved_updated ends the animations of
\* all clones, and the card has a new scope in its new column.
Release ==
    /\ held # <<>>
    /\ LET dropped == Head(held)
           taken == state = "go_on_alert" /\ Accepting(dropped) # {}
           ended == IF taken THEN animated \cup {dropped} ELSE {}
           back == Returning(ended)
       IN  /\ status' = IF taken THEN [status EXCEPT ![dropped] = LastOf(Accepting(dropped))] ELSE status
           /\ puts' = [p \in Put |->
                 IF taken /\ p.card = dropped /\ p.status \in Accepting(dropped) THEN Saves ELSE 0]
           /\ clones' = clones \ ended
           /\ animated' = (animated \ ended) \cup back
           /\ timers' = [c \in Cards |->
                 CASE c = dropped /\ taken -> 0
                   [] c \in ended \ {dropped} -> timers[c] - 1
                   [] c \in back -> timers[c] + 1
                   [] OTHER -> timers[c]]
    /\ hosts' = HostsLeft
    /\ lost' = lost \ {status[c] : c \in Held}
    /\ state' = AfterDrop
    /\ listening' = (listening /\ state = "go_off_alert")
    /\ alert' = IF state = "go_on_alert" THEN {} ELSE alert
    /\ moving' = moving \ Held
    /\ held' = <<>>
    /\ ghosts' = FALSE
    /\ UNCHANGED pointer

\* mouseup with destroyed cards' handlers only: onStill does nothing.
ReleaseGhosts ==
    /\ ghosts /\ held = <<>>
    /\ ghosts' = FALSE
    /\ puts' = NoPuts
    /\ UNCHANGED <<status, pointer, held, moving, hosts, alert, state,
                   listening, clones, animated, timers, lost>>

\* A mutant: the animation that ends is ended once more.
EndingTwice(c) == IF c \in animated THEN 2 ELSE 1

\* It may be the one the clone has itself.
Ending(c) == IF c \in animated /\ timers[c] > 1 THEN 2 ELSE 1

\* The oldest animation of c's clones ends: killAnimatedClone removes the
\* clone there is now, be it held again, and ends its animation if it has one.
killAnimatedClone(c) ==
    /\ timers[c] > 0
    /\ timers' = [timers EXCEPT ![c] = @ - Ending(c)]
    /\ clones' = clones \ {c}
    /\ animated' = animated \ {c}
    /\ puts' = NoPuts
    /\ UNCHANGED <<status, pointer, held, ghosts, moving, hosts, alert, state,
                   listening, lost>>

-----------------------------------------------------------------------------
(* What the server tells the page, and the page itself.                    *)

\* A mutant: a destroyed scope can be dragged on.
StillHeld(c) == held

\* A card is held once.
HeldWithout(c) == RemoveFirst(held, c)

\* These cards' scopes are destroyed, the others stay held.  The clone of one
\* that is held stays where the mouse is released, and belongs to no card.
Destroy(cards, others) ==
    /\ held' = others
    /\ ghosts' = (ghosts \/ Held \cap cards # {})
    /\ moving' = moving \ cards
    /\ clones' = clones \ cards
    /\ animated' = animated \ cards
    /\ timers' = [c \in Cards |-> IF c \in cards THEN 0 ELSE timers[c]]
    /\ puts' = NoPuts
    /\ UNCHANGED pointer

\* A message shows c in another column or takes it off the page.
ShowTask(c, column) ==
    /\ column # status[c]
    /\ status' = [status EXCEPT ![c] = column]
    /\ Destroy({c}, HeldWithout(c))
    /\ lost' = lost \cup {status[d] : d \in moving \cap {c}}
    /\ UNCHANGED <<hosts, alert, state, listening>>

\* The answer to loadTasks: new objects for all tasks.
ShowTasks(columns) ==
    /\ status' = columns
    /\ Destroy(Cards, <<>>)
    /\ lost' = lost \cup {status[d] : d \in moving}
    /\ UNCHANGED <<hosts, alert, state, listening>>

\* Another board is opened.  Nothing takes the handlers off the document.
OpenBoard(columns) ==
    /\ status' = columns
    /\ Destroy(Cards, <<>>)
    /\ hosts' = {}
    /\ alert' = {}
    /\ state' = "go_off_alert"
    /\ lost' = {}
    /\ UNCHANGED listening

Shown == [Cards -> Column \cup {Gone}]

Served ==
    \/ \E c \in Cards, column \in Column \cup {Gone} : ShowTask(c, column)
    \/ \E columns \in Shown : ShowTasks(columns) \/ OpenBoard(columns)

Next ==
    \/ \E c \in Cards : Press(c) \/ killAnimatedClone(c)
    \/ \E q \in Column \cup {Nowhere} : Move(q)
    \/ Release \/ ReleaseGhosts
    \/ Served

Spec == Init /\ [][Next]_vars

-----------------------------------------------------------------------------
(* The user's own actions move at most one card, one that is held while    *)
(* one is dragged, to the column under the pointer, and send a PUT that    *)
(* says so once: clicks, lost releases, cards that vanish while they are   *)
(* dragged and boards left in a drag add no move (tryAcceptTask).          *)
DropsAreSaved ==
    [][\/ Served
       \/ status' = status /\ puts' = NoPuts
       \/ \E c \in Held :
             /\ moving # {} \/ lost # {}
             /\ status[c] # pointer
             /\ status' = [status EXCEPT ![c] = pointer]
             /\ puts' = [NoPuts EXCEPT ![[card |-> c, status |-> pointer]] = 1]]_vars

(* At most the column under the pointer is on alert, so that a drop is     *)
(* taken once, although columns are told to relax only while the document  *)
(* listens, and it may listen for a board that was left.                   *)
AlertFollowsPointer == alert \subseteq {pointer}

(* A column is marked as a host while a card of it is dragged, by whatever *)
(* release; the mark stays only if the card was taken away meanwhile.      *)
HostsAreDragged == hosts = lost \cup {status[c] : c \in moving}

(* The board is on alert while a card is dragged, and at no other time but *)
(* after a dragged card was taken away, until the next release.            *)
OnAlertWhileDragging ==
    /\ moving # {} => state = "go_on_alert"
    /\ state = "go_on_alert" => listening /\ (moving # {} \/ lost # {})

(* A clone on the screen is held or about to go, however presses, releases *)
(* and the ends of animations interleave.                                  *)
ClonesGoAway ==
    /\ clones \subseteq Held \cup animated
    /\ \A c \in animated : timers[c] > 0

-----------------------------------------------------------------------------
(* The inductive invariant, proved in DragAndDrop_proofs.                  *)

HeldOnce == \A i, j \in DOMAIN held : held[i] = held[j] => i = j

HeldIsShown == \A c \in Held : status[c] \in Column

MovingIsHeld == moving \subseteq Held

\* relaxColumn and alertColumn are called by the handlers on the document.
AlertWhileListening == ~listening => alert = {}

(* Whoever drags, presses, leaves or is shown what: the marks of cards,    *)
(* columns and board, the handlers on the document and the clones agree.   *)
DragIInv ==
    /\ DragTypeOK
    /\ HeldOnce
    /\ HeldIsShown
    /\ MovingIsHeld
    /\ AlertWhileListening
    /\ AlertFollowsPointer
    /\ HostsAreDragged
    /\ OnAlertWhileDragging
    /\ ClonesGoAway
=============================================================================
