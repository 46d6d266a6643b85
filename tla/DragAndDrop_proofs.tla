------------------------- MODULE DragAndDrop_proofs -------------------------
(***************************************************************************)
(* Safety of dragging for any number of cards and animations: DragIInv is  *)
(* inductive, and a step of the user moves a card only as it shows.        *)
(***************************************************************************)
EXTENDS DragAndDrop, SequenceLemmas

-----------------------------------------------------------------------------
(* The cards that start to move are held.                                  *)
LEMMA StartsAreHeld ==
    ASSUME DragIInv, NEW cards \in Starts
    PROVE  cards \subseteq Held /\ cards \subseteq Cards
<1>1. cards \subseteq Held
    BY DEF Starts, Starting, Following, Held
<1>2. Held \subseteq Cards
    BY DEF DragIInv, DragTypeOK, Held
<1>3. QED
    BY <1>1, <1>2

\* No PUT, and those of a release.
LEMMA PutTypes ==
    /\ NoPuts \in [Put -> Nat]
    /\ \A P : [p \in Put |-> IF P[p] THEN Saves ELSE 0] \in [Put -> Nat]
BY DEF NoPuts, Saves

\* DragIInv is kept by a press, alone or after a lost release,
LEMMA PressIInv ==
    ASSUME DragIInv, NEW c \in Cards, Press(c)
    PROVE  DragIInv'
<1>1. /\ status[c] = pointer
      /\ held' = IF c \in Held THEN held ELSE Append(held, c)
      /\ clones' = clones \cup {c}
      /\ animated' = animated \ {c}
      /\ puts' = NoPuts
      /\ status' = status /\ pointer' = pointer /\ moving' = moving /\ hosts' = hosts
      /\ alert' = alert /\ state' = state /\ listening' = listening
      /\ timers' = timers /\ lost' = lost /\ ghosts' = ghosts
    BY DEF Press
<1>2. held \in Seq(Cards) /\ Len(held) \in Nat /\ DOMAIN held = 1..Len(held)
    BY DEF DragIInv, DragTypeOK
<1>3. held' \in Seq(Cards) /\ HeldOnce' /\ Held' = Held \cup {c}
    <2>1. CASE c \in Held
        BY <1>1, <1>2, <2>1 DEF Held, HeldOnce, DragIInv
    <2>2. CASE c \notin Held
        <3>1. held' = Append(held, c)
            BY <1>1, <2>2
        <3>2. /\ held' \in Seq(Cards) /\ DOMAIN held' = 1..(Len(held) + 1)
              /\ \A i \in 1..Len(held) : held'[i] = held[i]
              /\ held'[Len(held) + 1] = c
            BY <1>2, <3>1
        <3>3. \A i \in 1..(Len(held) + 1) : i \in 1..Len(held) \/ i = Len(held) + 1
            BY <1>2
        <3>4. \A i \in 1..Len(held) : held[i] # c
            BY <1>2, <2>2 DEF Held
        <3>5. HeldOnce'
            BY <1>2, <3>2, <3>3, <3>4 DEF DragIInv, HeldOnce
        <3>6. Held' = Held \cup {c}
            BY <1>2, <3>2, <3>3 DEF Held
        <3>7. QED
            BY <3>2, <3>5, <3>6
    <2>3. QED
        BY <2>1, <2>2
<1>4. DragTypeOK'
    BY <1>1, <1>3, PutTypes DEF DragIInv, DragTypeOK
<1>5. HeldIsShown'
    <2>1. status[c] \in Column
        BY <1>1 DEF DragIInv, DragTypeOK, Gone, Nowhere, Column
    <2>2. QED
        BY <1>1, <1>3, <2>1 DEF DragIInv, HeldIsShown
<1>6. MovingIsHeld' /\ ClonesGoAway'
    BY <1>1, <1>3 DEF DragIInv, MovingIsHeld, ClonesGoAway
<1>7. AlertWhileListening' /\ AlertFollowsPointer' /\ HostsAreDragged' /\ OnAlertWhileDragging'
    BY <1>1
    DEF DragIInv, AlertWhileListening, AlertFollowsPointer, HostsAreDragged, OnAlertWhileDragging
<1>8. QED
    BY <1>3, <1>4, <1>5, <1>6, <1>7 DEF DragIInv

\* by the pointer's moves, which start drags and set alerts,
LEMMA MoveIInv ==
    ASSUME DragIInv, NEW q \in Column \cup {Nowhere}, Move(q)
    PROVE  DragIInv'
<1>1. /\ pointer' = q
      /\ alert' = IF listening THEN AlertAt(q) ELSE alert
      /\ puts' = NoPuts
      /\ status' = status /\ held' = held /\ ghosts' = ghosts /\ clones' = clones
      /\ animated' = animated /\ timers' = timers /\ lost' = lost
    BY DEF Move
<1>2. PICK cards \in Starts :
          /\ moving' = moving \cup cards
          /\ hosts' = hosts \cup {status[c] : c \in cards}
          /\ IF cards # {} THEN state' = "go_on_alert" /\ listening' = TRUE
             ELSE UNCHANGED <<state, listening>>
    BY DEF Move
<1>3. cards \subseteq Held /\ cards \subseteq Cards
    BY StartsAreHeld
<1>4. /\ alert' \subseteq Column
      /\ alert' \subseteq {q}
      /\ ~listening => alert' = {}
    BY <1>1 DEF DragIInv, DragTypeOK, AlertAt, AlertFollowsPointer, AlertWhileListening
<1>5. {status[c] : c \in cards} \subseteq Column
    BY <1>3 DEF DragIInv, HeldIsShown
<1>6. /\ state' \in {"go_on_alert", "go_off_alert"} /\ listening' \in BOOLEAN
      /\ moving' \in SUBSET Cards /\ hosts' \in SUBSET Column
    BY <1>2, <1>3, <1>5 DEF DragIInv, DragTypeOK
<1>7. DragTypeOK'
    BY <1>1, <1>4, <1>6, PutTypes DEF DragIInv, DragTypeOK
<1>8. Held' = Held
    BY <1>1 DEF Held
<1>9. HeldOnce' /\ HeldIsShown' /\ ClonesGoAway'
    BY <1>1, <1>8 DEF DragIInv, HeldOnce, HeldIsShown, ClonesGoAway
<1>10. MovingIsHeld'
    BY <1>2, <1>3, <1>8 DEF DragIInv, MovingIsHeld
<1>11. AlertWhileListening' /\ AlertFollowsPointer'
    BY <1>1, <1>2, <1>4 DEF AlertWhileListening, AlertFollowsPointer
<1>12. HostsAreDragged'
    BY <1>1, <1>2 DEF DragIInv, HostsAreDragged
<1>13. OnAlertWhileDragging'
    BY <1>1, <1>2 DEF DragIInv, OnAlertWhileDragging
<1>14. QED
    BY <1>7, <1>9, <1>10, <1>11, <1>12, <1>13 DEF DragIInv

(* Only the column under the pointer can take a card (tryAcceptTask).      *)
LEMMA PointerAccepts ==
    ASSUME DragIInv, NEW c \in Cards, Accepting(c) # {}
    PROVE  /\ pointer \in Column /\ pointer # status[c]
           /\ Accepting(c) = {pointer}
           /\ LastOf(Accepting(c)) = pointer
<1>1. pointer \in Column /\ pointer # status[c] /\ Accepting(c) = {pointer}
    BY DEF DragIInv, DragTypeOK, AlertFollowsPointer, Accepting
<1>2. Position[pointer] <= Position[pointer]
    BY <1>1 DEF Position, Column
<1>3. LastOf({pointer}) = pointer
    BY <1>2 DEF LastOf
<1>4. QED
    BY <1>1, <1>3

\* by a release with its drop,
LEMMA ReleaseIInv ==
    ASSUME DragIInv, Release
    PROVE  DragIInv'
<1> DEFINE dropped == Head(held)
           taken == state = "go_on_alert" /\ Accepting(dropped) # {}
           ended == IF taken THEN animated \cup {dropped} ELSE {}
           back == Returning(ended)
<1>1. /\ status' = IF taken THEN [status EXCEPT ![dropped] = LastOf(Accepting(dropped))] ELSE status
      /\ puts' = [p \in Put |->
            IF taken /\ p.card = dropped /\ p.status \in Accepting(dropped) THEN Saves ELSE 0]
      /\ clones' = clones \ ended
      /\ animated' = (animated \ ended) \cup back
      /\ timers' = [c \in Cards |->
            CASE c = dropped /\ taken -> 0
              [] c \in ended \ {dropped} -> timers[c] - 1
              [] c \in back -> timers[c] + 1
              [] OTHER -> timers[c]]
    BY DEF Release
<1>2. /\ held # <<>>
      /\ hosts' = hosts \ {status[c] : c \in Held}
      /\ lost' = lost \ {status[c] : c \in Held}
      /\ state' = "go_off_alert"
      /\ listening' = (listening /\ state = "go_off_alert")
      /\ alert' = IF state = "go_on_alert" THEN {} ELSE alert
      /\ moving' = moving \ Held
      /\ held' = <<>>
      /\ ghosts' = FALSE
      /\ pointer' = pointer
    BY DEF Release, HostsLeft, AfterDrop
<1>3. dropped \in Cards /\ dropped \in Held /\ Held \subseteq Cards
    BY <1>2 DEF DragIInv, DragTypeOK, Held
<1>4. /\ back = (Held \cap clones) \ ended
      /\ ended \subseteq Cards /\ back \subseteq Cards
      /\ dropped \in ended <=> (taken \/ dropped \in ended)
      /\ ~taken => ended = {}
      /\ taken => ended = animated \cup {dropped}
    BY <1>3 DEF Returning, DragIInv, DragTypeOK
<1>5. taken => LastOf(Accepting(dropped)) = pointer /\ pointer \in Column
               /\ Accepting(dropped) = {pointer}
    BY <1>3, PointerAccepts
<1> HIDE DEF dropped, taken, ended, back
<1>6. moving' = {} /\ Held' = {}
    BY <1>2 DEF DragIInv, MovingIsHeld, Held
<1>7. timers' \in [Cards -> Nat] /\ \A c \in animated' : timers'[c] > 0
    <2>1. ASSUME NEW c \in Cards
          PROVE  timers'[c] \in Nat /\ (c \in animated' => timers'[c] > 0)
        <3>1. timers[c] \in Nat /\ (c \in animated => timers[c] > 0)
            BY DEF DragIInv, DragTypeOK, ClonesGoAway
        <3>2. timers'[c] = CASE c = dropped /\ taken -> 0
                            [] c \in ended \ {dropped} -> timers[c] - 1
                            [] c \in back -> timers[c] + 1
                            [] OTHER -> timers[c]
            BY <1>1
        <3>3. CASE c = dropped /\ taken
            BY <1>1, <1>4, <3>2, <3>3
        <3>4. CASE c \in ended \ {dropped}
            <4>1. c \in animated /\ c \notin animated'
                BY <1>1, <1>4, <3>4
            <4>2. timers'[c] = timers[c] - 1
                BY <1>4, <3>2, <3>4
            <4>3. QED
                BY <3>1, <4>1, <4>2
        <3>5. CASE c \in back
            <4>1. timers'[c] = timers[c] + 1
                BY <1>4, <3>2, <3>5
            <4>2. QED
                BY <3>1, <4>1
        <3>6. CASE c \notin back /\ ~(c = dropped /\ taken) /\ c \notin ended \ {dropped}
            <4>1. timers'[c] = timers[c]
                BY <3>2, <3>6
            <4>2. c \in animated' => c \in animated
                BY <1>1, <3>6
            <4>3. QED
                BY <3>1, <4>1, <4>2
        <3>7. QED
            BY <3>3, <3>4, <3>5, <3>6
    <2>2. animated' \subseteq Cards
        BY <1>1, <1>4 DEF DragIInv, DragTypeOK
    <2>3. timers' = [c \in Cards |-> timers'[c]]
        BY <1>1
    <2>4. QED
        BY <2>1, <2>2, <2>3
<1>8. DragTypeOK'
    <2>1. status' \in [Cards -> Column \cup {Gone}]
        BY <1>1, <1>5 DEF DragIInv, DragTypeOK
    <2>2. puts' \in [Put -> Nat]
        BY <1>1 DEF Saves
    <2>3. clones' \in SUBSET Cards /\ animated' \in SUBSET Cards
        BY <1>1, <1>4 DEF DragIInv, DragTypeOK
    <2>4. held' \in Seq(Cards)
        BY <1>2
    <2>5. /\ pointer' \in Column \cup {Nowhere} /\ moving' \in SUBSET Cards
          /\ hosts' \in SUBSET Column /\ lost' \in SUBSET Column /\ alert' \in SUBSET Column
          /\ state' \in {"go_on_alert", "go_off_alert"} /\ ghosts' \in BOOLEAN
        BY <1>2 DEF DragIInv, DragTypeOK
    <2>6. listening' \in BOOLEAN
        BY <1>2 DEF DragIInv, DragTypeOK
    <2>7. QED
        BY <1>7, <2>1, <2>2, <2>3, <2>4, <2>5, <2>6 DEF DragTypeOK
<1>9. HeldOnce' /\ HeldIsShown' /\ MovingIsHeld'
    BY <1>2, <1>6 DEF HeldOnce, HeldIsShown, MovingIsHeld
<1>10. AlertWhileListening' /\ AlertFollowsPointer'
    BY <1>2 DEF DragIInv, DragTypeOK, AlertWhileListening, AlertFollowsPointer
<1>11. HostsAreDragged'
    <2>1. {status[c] : c \in moving} \subseteq {status[c] : c \in Held}
        BY DEF DragIInv, MovingIsHeld
    <2>2. hosts = lost \cup {status[c] : c \in moving}
        BY DEF DragIInv, HostsAreDragged
    <2>3. hosts' = lost'
        BY <1>2, <2>1, <2>2
    <2>4. QED
        BY <1>6, <2>3 DEF HostsAreDragged
<1>12. OnAlertWhileDragging'
    BY <1>2, <1>6 DEF OnAlertWhileDragging
<1>13. ClonesGoAway'
    <2>1. clones \subseteq Held \cup animated
        BY DEF DragIInv, ClonesGoAway
    <2>2. clones' \subseteq animated'
        BY <1>1, <1>4, <2>1
    <2>3. QED
        BY <1>7, <2>2 DEF ClonesGoAway
<1>14. QED
    BY <1>8, <1>9, <1>10, <1>11, <1>12, <1>13 DEF DragIInv

\* by one that ends handlers of cards taken away,
LEMMA ReleaseGhostsIInv ==
    ASSUME DragIInv, ReleaseGhosts
    PROVE  DragIInv'
<1>1. /\ ghosts' = FALSE /\ puts' = NoPuts
      /\ status' = status /\ pointer' = pointer /\ held' = held /\ moving' = moving
      /\ hosts' = hosts /\ alert' = alert /\ state' = state /\ listening' = listening
      /\ clones' = clones /\ animated' = animated /\ timers' = timers /\ lost' = lost
    BY DEF ReleaseGhosts
<1>2. DragTypeOK'
    BY <1>1, PutTypes DEF DragIInv, DragTypeOK, Held
<1>3. HeldOnce' /\ HeldIsShown' /\ MovingIsHeld' /\ AlertWhileListening'
    BY <1>1 DEF DragIInv, HeldOnce, HeldIsShown, MovingIsHeld, AlertWhileListening, Held
<1>4. AlertFollowsPointer' /\ HostsAreDragged' /\ OnAlertWhileDragging' /\ ClonesGoAway'
    BY <1>1
    DEF DragIInv, AlertFollowsPointer, HostsAreDragged, OnAlertWhileDragging, ClonesGoAway, Held
<1>5. QED
    BY <1>2, <1>3, <1>4 DEF DragIInv

\* by the end of an animation, an earlier clone's included,
LEMMA KillIInv ==
    ASSUME DragIInv, NEW c \in Cards, killAnimatedClone(c)
    PROVE  DragIInv'
<1>1. /\ timers[c] > 0
      /\ timers' = [timers EXCEPT ![c] = @ - Ending(c)]
      /\ clones' = clones \ {c} /\ animated' = animated \ {c} /\ puts' = NoPuts
    BY DEF killAnimatedClone
<1>2. /\ status' = status /\ pointer' = pointer /\ held' = held /\ moving' = moving
      /\ hosts' = hosts /\ alert' = alert /\ state' = state /\ listening' = listening
      /\ ghosts' = ghosts /\ lost' = lost
    BY DEF killAnimatedClone
<1>3. timers[c] \in Nat /\ timers[c] - Ending(c) \in Nat
    BY <1>1 DEF DragIInv, DragTypeOK, Ending
<1>4. DragTypeOK'
    BY <1>1, <1>2, <1>3, PutTypes DEF DragIInv, DragTypeOK
<1>5. ClonesGoAway'
    <2>1. \A d \in animated' : timers'[d] = timers[d]
        BY <1>1 DEF DragIInv, DragTypeOK
    <2>2. QED
        BY <1>1, <1>2, <2>1 DEF DragIInv, ClonesGoAway, Held
<1>6. HeldOnce' /\ HeldIsShown' /\ MovingIsHeld'
    BY <1>2 DEF DragIInv, HeldOnce, HeldIsShown, MovingIsHeld, Held
<1>7. AlertWhileListening' /\ AlertFollowsPointer' /\ HostsAreDragged' /\ OnAlertWhileDragging'
    BY <1>2
    DEF DragIInv, AlertWhileListening, AlertFollowsPointer, HostsAreDragged, OnAlertWhileDragging
<1>8. QED
    BY <1>4, <1>5, <1>6, <1>7 DEF DragIInv

-----------------------------------------------------------------------------
(* What Destroy leaves of the cards and their clones.                      *)
LEMMA DestroyedCards ==
    ASSUME DragIInv, NEW cards \in SUBSET Cards, NEW others \in Seq(Cards), Once(others),
           Elements(others) = Held \ cards, Destroy(cards, others)
    PROVE  /\ held' \in Seq(Cards) /\ ghosts' \in BOOLEAN /\ pointer' = pointer
           /\ Held' = Held \ cards
           /\ moving' = moving \ cards
           /\ clones' \in SUBSET Cards /\ animated' \in SUBSET Cards
           /\ timers' \in [Cards -> Nat] /\ puts' = NoPuts
           /\ HeldOnce' /\ MovingIsHeld' /\ ClonesGoAway'
<1>1. /\ held' = others
      /\ moving' = moving \ cards
      /\ clones' = clones \ cards
      /\ animated' = animated \ cards
      /\ timers' = [c \in Cards |-> IF c \in cards THEN 0 ELSE timers[c]]
      /\ puts' = NoPuts /\ pointer' = pointer
    BY DEF Destroy
<1>2. ghosts' \in BOOLEAN
    BY DEF Destroy
<1>3. HeldOnce' /\ Held' = Held \ cards
    BY <1>1 DEF HeldOnce, Held, Once, Elements
<1>4. MovingIsHeld'
    BY <1>1, <1>3 DEF DragIInv, MovingIsHeld
<1>5. timers' \in [Cards -> Nat]
    BY <1>1 DEF DragIInv, DragTypeOK
<1>6. animated' \in SUBSET Cards /\ clones' \in SUBSET Cards
    BY <1>1 DEF DragIInv, DragTypeOK
<1>7. \A c \in animated' : timers'[c] = timers[c]
    BY <1>1, <1>6
<1>8. ClonesGoAway'
    BY <1>1, <1>3, <1>7 DEF DragIInv, ClonesGoAway
<1>9. QED
    BY <1>1, <1>2, <1>3, <1>4, <1>5, <1>6, <1>8

\* by a card that others move or delete,
LEMMA ShowTaskIInv ==
    ASSUME DragIInv, NEW c \in Cards, NEW column \in Column \cup {Gone}, ShowTask(c, column)
    PROVE  DragIInv'
<1>1. /\ status' = [status EXCEPT ![c] = column]
      /\ Destroy({c}, HeldWithout(c))
      /\ lost' = lost \cup {status[d] : d \in moving \cap {c}}
      /\ hosts' = hosts /\ alert' = alert /\ state' = state /\ listening' = listening
    BY DEF ShowTask
<1>2. /\ HeldWithout(c) \in Seq(Cards) /\ Once(HeldWithout(c))
      /\ Elements(HeldWithout(c)) = Held \ {c}
    <2>1. held \in Seq(Cards) /\ Once(held) /\ Elements(held) = Held
        BY DEF DragIInv, DragTypeOK, HeldOnce, Once, Elements, Held
    <2>2. HeldWithout(c) = RemoveFirst(held, c)
        BY DEF HeldWithout
    <2>3. QED
        BY <2>1, <2>2, RemoveFirstProperties
<1>3. /\ held' \in Seq(Cards) /\ ghosts' \in BOOLEAN /\ pointer' = pointer
      /\ Held' = Held \ {c}
      /\ moving' = moving \ {c}
      /\ clones' \in SUBSET Cards /\ animated' \in SUBSET Cards
      /\ timers' \in [Cards -> Nat] /\ puts' = NoPuts
      /\ HeldOnce' /\ MovingIsHeld' /\ ClonesGoAway'
    BY <1>1, <1>2, DestroyedCards
<1>4. /\ status' \in [Cards -> Column \cup {Gone}]
      /\ \A d \in Cards \ {c} : status'[d] = status[d]
    BY <1>1 DEF DragIInv, DragTypeOK
<1>5. Held \subseteq Cards /\ moving \subseteq Held /\ \A d \in Held : status[d] \in Column
    BY DEF DragIInv, DragTypeOK, Held, MovingIsHeld, HeldIsShown
<1>6. DragTypeOK'
    <2>1. lost' \in SUBSET Column /\ moving' \in SUBSET Cards
        BY <1>1, <1>3, <1>5 DEF DragIInv, DragTypeOK
    <2>2. QED
        BY <1>1, <1>3, <1>4, <2>1, PutTypes DEF DragIInv, DragTypeOK
<1>7. HeldIsShown'
    BY <1>3, <1>4, <1>5 DEF HeldIsShown
<1>8. AlertWhileListening' /\ AlertFollowsPointer'
    BY <1>1, <1>3 DEF DragIInv, AlertWhileListening, AlertFollowsPointer
<1>9. HostsAreDragged'
    <2>1. {status'[d] : d \in moving'} = {status[d] : d \in moving \ {c}}
        BY <1>3, <1>4, <1>5
    <2>2. {status[d] : d \in moving \cap {c}} \cup {status[d] : d \in moving \ {c}}
             = {status[d] : d \in moving}
        OBVIOUS
    <2>3. QED
        BY <1>1, <2>1, <2>2 DEF DragIInv, HostsAreDragged
<1>10. OnAlertWhileDragging'
    <2>1. moving # {} => moving' # {} \/ lost' # {}
        BY <1>1, <1>3
    <2>2. lost # {} => lost' # {}
        BY <1>1
    <2>3. moving' # {} => moving # {}
        BY <1>3
    <2>4. QED
        BY <1>1, <2>1, <2>2, <2>3 DEF DragIInv, OnAlertWhileDragging
<1>11. QED
    BY <1>3, <1>6, <1>7, <1>8, <1>9, <1>10 DEF DragIInv

(* New objects for all cards: none is held or dragged any more.            *)
LEMMA AllDestroyed ==
    ASSUME DragIInv, Destroy(Cards, <<>>)
    PROVE  /\ held' \in Seq(Cards) /\ ghosts' \in BOOLEAN /\ pointer' = pointer
           /\ Held' = {} /\ moving' = {}
           /\ clones' \in SUBSET Cards /\ animated' \in SUBSET Cards
           /\ timers' \in [Cards -> Nat] /\ puts' = NoPuts
           /\ HeldOnce' /\ MovingIsHeld' /\ ClonesGoAway'
<1>1. Held \subseteq Cards /\ moving \subseteq Cards
    BY DEF DragIInv, DragTypeOK, Held
<1>2. <<>> \in Seq(Cards) /\ Once(<<>>) /\ Elements(<<>>) = Held \ Cards
    BY <1>1 DEF Once, Elements
<1>3. /\ held' \in Seq(Cards) /\ ghosts' \in BOOLEAN /\ pointer' = pointer
      /\ Held' = Held \ Cards
      /\ moving' = moving \ Cards
      /\ clones' \in SUBSET Cards /\ animated' \in SUBSET Cards
      /\ timers' \in [Cards -> Nat] /\ puts' = NoPuts
      /\ HeldOnce' /\ MovingIsHeld' /\ ClonesGoAway'
    <2>1. Cards \in SUBSET Cards
        OBVIOUS
    <2>2. QED
        BY <2>1, <1>2, DestroyedCards, Zenon
<1>4. Held' = {} /\ moving' = {}
    BY <1>1, <1>3
<1>5. QED
    BY <1>3, <1>4

\* by a load that replaces all cards,
LEMMA ShowTasksIInv ==
    ASSUME DragIInv, NEW columns \in Shown, ShowTasks(columns)
    PROVE  DragIInv'
<1>1. /\ status' = columns
      /\ lost' = lost \cup {status[d] : d \in moving}
      /\ hosts' = hosts /\ alert' = alert /\ state' = state /\ listening' = listening
      /\ Destroy(Cards, <<>>)
    BY DEF ShowTasks
<1>2. /\ held' \in Seq(Cards) /\ ghosts' \in BOOLEAN /\ pointer' = pointer
      /\ Held' = {} /\ moving' = {}
      /\ clones' \in SUBSET Cards /\ animated' \in SUBSET Cards
      /\ timers' \in [Cards -> Nat] /\ puts' = NoPuts
      /\ HeldOnce' /\ MovingIsHeld' /\ ClonesGoAway'
    BY <1>1, AllDestroyed
<1>3. lost' = hosts
    BY <1>1 DEF DragIInv, HostsAreDragged
<1>4. DragTypeOK'
    BY <1>1, <1>2, <1>3, PutTypes DEF DragIInv, DragTypeOK, Shown
<1>5. HeldIsShown' /\ HostsAreDragged'
    BY <1>1, <1>2, <1>3 DEF HeldIsShown, HostsAreDragged
<1>6. AlertWhileListening' /\ AlertFollowsPointer'
    BY <1>1, <1>2 DEF DragIInv, AlertWhileListening, AlertFollowsPointer
<1>7. OnAlertWhileDragging'
    <2>1. moving # {} \/ lost # {} => lost' # {}
        BY <1>1
    <2>2. QED
        BY <1>1, <1>2, <2>1 DEF DragIInv, OnAlertWhileDragging
<1>8. QED
    BY <1>2, <1>4, <1>5, <1>6, <1>7 DEF DragIInv

\* and by another board.
LEMMA OpenBoardIInv ==
    ASSUME DragIInv, NEW columns \in Shown, OpenBoard(columns)
    PROVE  DragIInv'
<1>1. /\ status' = columns /\ hosts' = {} /\ alert' = {} /\ state' = "go_off_alert"
      /\ lost' = {} /\ listening' = listening
      /\ Destroy(Cards, <<>>)
    BY DEF OpenBoard
<1>2. /\ held' \in Seq(Cards) /\ ghosts' \in BOOLEAN /\ pointer' = pointer
      /\ Held' = {} /\ moving' = {}
      /\ clones' \in SUBSET Cards /\ animated' \in SUBSET Cards
      /\ timers' \in [Cards -> Nat] /\ puts' = NoPuts
      /\ HeldOnce' /\ MovingIsHeld' /\ ClonesGoAway'
    BY <1>1, AllDestroyed
<1>3. DragTypeOK'
    BY <1>1, <1>2, PutTypes DEF DragIInv, DragTypeOK, Shown
<1>4. /\ HeldIsShown' /\ AlertWhileListening' /\ AlertFollowsPointer'
      /\ HostsAreDragged' /\ OnAlertWhileDragging'
    BY <1>1, <1>2
    DEF HeldIsShown, AlertWhileListening, AlertFollowsPointer, HostsAreDragged,
        OnAlertWhileDragging
<1>5. QED
    BY <1>2, <1>3, <1>4 DEF DragIInv

-----------------------------------------------------------------------------
\* Nothing is pressed or dragged at first.
LEMMA InitDragIInv == Init => DragIInv
<1> SUFFICES ASSUME Init PROVE DragIInv
    OBVIOUS
<1>1. Held = {} /\ <<>> \in Seq(Cards)
    BY DEF Init, Held
<1>2. DragTypeOK
    BY <1>1, PutTypes DEF Init, DragTypeOK
<1>3. QED
    BY <1>1, <1>2
    DEF Init, DragIInv, HeldOnce, HeldIsShown, MovingIsHeld, AlertWhileListening,
        AlertFollowsPointer, HostsAreDragged, OnAlertWhileDragging, ClonesGoAway

\* Every step keeps it.
LEMMA NextDragIInv == DragIInv /\ [Next]_vars => DragIInv'
<1> SUFFICES ASSUME DragIInv, [Next]_vars PROVE DragIInv'
    OBVIOUS
<1>1. ASSUME NEW c \in Cards, Press(c) PROVE DragIInv'
    BY <1>1, PressIInv
<1>2. ASSUME NEW c \in Cards, killAnimatedClone(c) PROVE DragIInv'
    BY <1>2, KillIInv
<1>3. ASSUME NEW q \in Column \cup {Nowhere}, Move(q) PROVE DragIInv'
    BY <1>3, MoveIInv
<1>4. CASE Release
    BY <1>4, ReleaseIInv
<1>5. CASE ReleaseGhosts
    BY <1>5, ReleaseGhostsIInv
<1>6. CASE Served
    <2>1. ASSUME NEW c \in Cards, NEW column \in Column \cup {Gone}, ShowTask(c, column)
          PROVE  DragIInv'
        BY <2>1, ShowTaskIInv
    <2>2. ASSUME NEW columns \in Shown, ShowTasks(columns) PROVE DragIInv'
        BY <2>2, ShowTasksIInv
    <2>3. ASSUME NEW columns \in Shown, OpenBoard(columns) PROVE DragIInv'
        BY <2>3, OpenBoardIInv
    <2>4. QED
        BY <1>6, <2>1, <2>2, <2>3 DEF Served
<1>7. CASE UNCHANGED vars
    BY <1>7
    DEF vars, DragIInv, DragTypeOK, HeldOnce, HeldIsShown, MovingIsHeld, AlertWhileListening,
        AlertFollowsPointer, HostsAreDragged, OnAlertWhileDragging, ClonesGoAway, Held
<1>8. QED
    BY <1>1, <1>2, <1>3, <1>4, <1>5, <1>6, <1>7 DEF Next

(* The inductive invariant: no lost release, late animation or card that   *)
(* vanishes leaves a column on alert for no card, marked as a host, or a   *)
(* clone behind.                                                           *)
THEOREM DragInvariance == Spec => []DragIInv
<1>1. Init => DragIInv
    BY InitDragIInv
<1>2. DragIInv /\ [Next]_vars => DragIInv'
    BY NextDragIInv
<1>3. QED
    BY <1>1, <1>2, PTL DEF Spec

(* The variables keep the types of DragTypeOK.                             *)
THEOREM DragTypeCorrectness == Spec => []DragTypeOK
<1>1. DragIInv => DragTypeOK
    BY DEF DragIInv
<1>2. QED
    BY <1>1, DragInvariance, PTL

(* A drop is taken once, by the column under the pointer, if by any.       *)
THEOREM AlertIsUnderThePointer == Spec => []AlertFollowsPointer
<1>1. DragIInv => AlertFollowsPointer
    BY DEF DragIInv
<1>2. QED
    BY <1>1, DragInvariance, PTL

(* Columns are marked as hosts of dragged cards, or of those taken away.   *)
THEOREM HostMarks == Spec => []HostsAreDragged
<1>1. DragIInv => HostsAreDragged
    BY DEF DragIInv
<1>2. QED
    BY <1>1, DragInvariance, PTL

(* The board is on alert as long as a card is dragged.                     *)
THEOREM BoardAlert == Spec => []OnAlertWhileDragging
<1>1. DragIInv => OnAlertWhileDragging
    BY DEF DragIInv
<1>2. QED
    BY <1>1, DragInvariance, PTL

(* A clone that is not held has an animation that will take it away.       *)
THEOREM ClonesAreHeldOrLeave == Spec => []ClonesGoAway
<1>1. DragIInv => ClonesGoAway
    BY DEF DragIInv
<1>2. QED
    BY <1>1, DragInvariance, PTL

(* A step of the user moves at most one card, one that is held while one   *)
(* is dragged or was taken away, to the column under the pointer, and asks *)
(* the server for just that.                                               *)
THEOREM DropsMoveOneCard == Spec => DropsAreSaved
<1> DEFINE Saved == \/ Served
                    \/ status' = status /\ puts' = NoPuts
                    \/ \E c \in Held :
                          /\ moving # {} \/ lost # {}
                          /\ status[c] # pointer
                          /\ status' = [status EXCEPT ![c] = pointer]
                          /\ puts' = [NoPuts EXCEPT ![[card |-> c, status |-> pointer]] = 1]
<1>1. DragIInv /\ [Next]_vars => [Saved]_vars
    <2> SUFFICES ASSUME DragIInv, Next PROVE Saved
        OBVIOUS
    <2>1. CASE \E c \in Cards : Press(c) \/ killAnimatedClone(c)
        BY <2>1 DEF Press, killAnimatedClone
    <2>2. CASE \E q \in Column \cup {Nowhere} : Move(q)
        BY <2>2 DEF Move
    <2>3. CASE ReleaseGhosts
        BY <2>3 DEF ReleaseGhosts
    <2>4. CASE Release
        <3> DEFINE dropped == Head(held)
                   taken == state = "go_on_alert" /\ Accepting(dropped) # {}
        <3>1. /\ held # <<>>
              /\ status' = IF taken THEN [status EXCEPT ![dropped] = LastOf(Accepting(dropped))]
                           ELSE status
              /\ puts' = [p \in Put |->
                    IF taken /\ p.card = dropped /\ p.status \in Accepting(dropped) THEN Saves ELSE 0]
            BY <2>4 DEF Release
        <3>2. dropped \in Cards /\ dropped \in Held
            BY <3>1 DEF DragIInv, DragTypeOK, Held
        <3>3. CASE ~taken
            BY <3>1, <3>3 DEF NoPuts
        <3>4. CASE taken
            <4>1. /\ pointer # status[dropped]
                  /\ Accepting(dropped) = {pointer} /\ LastOf(Accepting(dropped)) = pointer
                BY <3>2, <3>4, PointerAccepts
            <4>2. moving # {} \/ lost # {}
                BY <3>4 DEF DragIInv, OnAlertWhileDragging
            <4>3. status' = [status EXCEPT ![dropped] = pointer]
                BY <3>1, <3>4, <4>1
            <4>4. puts' = [NoPuts EXCEPT ![[card |-> dropped, status |-> pointer]] = 1]
                <5>1. puts' = [p \in Put |-> IF p.card = dropped /\ p.status = pointer THEN 1 ELSE 0]
                    BY <3>1, <3>4, <4>1 DEF Saves
                <5> HIDE DEF dropped
                <5>2. \A p \in Put : p.card = dropped /\ p.status = pointer
                                       <=> p = [card |-> dropped, status |-> pointer]
                    BY DEF Put
                <5>3. QED
                    BY <5>1, <5>2 DEF NoPuts
            <4>5. QED
                BY <3>2, <4>1, <4>2, <4>3, <4>4
        <3>5. QED
            BY <3>3, <3>4
    <2>5. CASE Served
        BY <2>5
    <2>6. QED
        BY <2>1, <2>2, <2>3, <2>4, <2>5 DEF Next
<1>2. QED
    BY <1>1, DragInvariance, PTL DEF Spec, DropsAreSaved
=============================================================================
