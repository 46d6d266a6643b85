-------------------------- MODULE BoardPage_proofs --------------------------
(***************************************************************************)
(* Safety of the board page for any number of tasks, boards, events and    *)
(* moves: PageIInv is inductive on top of ListingIInv, so a settled page   *)
(* shows every task in the column the command side has it in.              *)
(***************************************************************************)
EXTENDS BoardPage, TaskQuerySide_proofs

-----------------------------------------------------------------------------
(* Filter, the page's shown.filter(..).                                    *)

\* The defining equation of Filter, up to the k-th card.
IsFiltered(f, shown, keep, k) ==
    f = [n \in 0..k |->
            IF n = 0 THEN <<>>
            ELSE IF shown[n] \in keep THEN Append(f[n - 1], shown[n]) ELSE f[n - 1]]

\* There is a function that satisfies the equation.
LEMMA FilteredExist ==
    ASSUME NEW shown, NEW keep, NEW k \in Nat
    PROVE  \E f : IsFiltered(f, shown, keep, k)
<1> DEFINE Bad == {n \in Nat : ~ \E f : IsFiltered(f, shown, keep, n)}
<1> SUFFICES ASSUME Bad # {} PROVE FALSE
    OBVIOUS
<1>1. PICK m \in Bad : \A n \in Bad : m <= n
    BY LeastNatural
<1>2. CASE m = 0
    <2>1. IsFiltered([n \in 0..0 |-> <<>>], shown, keep, 0)
        BY DEF IsFiltered
    <2>2. QED
        BY <1>2, <2>1
<1>3. CASE m # 0
    <2>1. m - 1 \in Nat /\ m - 1 \notin Bad
        BY <1>1, <1>3
    <2>2. PICK f : IsFiltered(f, shown, keep, m - 1)
        BY <2>1
    <2> DEFINE next == IF shown[m] \in keep THEN Append(f[m - 1], shown[m]) ELSE f[m - 1]
               g == [n \in 0..m |-> IF n < m THEN f[n] ELSE next]
    <2>3. \A n \in 0..m : g[n] = IF n = 0 THEN <<>>
                                 ELSE IF shown[n] \in keep THEN Append(g[n - 1], shown[n])
                                 ELSE g[n - 1]
        <3> SUFFICES ASSUME NEW n \in 0..m
                     PROVE  g[n] = IF n = 0 THEN <<>>
                                   ELSE IF shown[n] \in keep THEN Append(g[n - 1], shown[n])
                                   ELSE g[n - 1]
            OBVIOUS
        <3>1. CASE n = m
            <4>1. g[n] = next /\ g[n - 1] = f[m - 1]
                BY <1>3, <3>1
            <4>2. QED
                BY <1>3, <3>1, <4>1
        <3>2. CASE n < m
            <4>1. g[n] = f[n] /\ n \in 0..(m - 1)
                BY <3>2
            <4>2. n # 0 => g[n - 1] = f[n - 1]
                BY <3>2
            <4>3. QED
                BY <2>2, <4>1, <4>2 DEF IsFiltered
        <3>3. QED
            BY <3>1, <3>2
    <2>4. IsFiltered(g, shown, keep, m)
        BY <2>3, Zenon DEF IsFiltered
    <2>5. QED
        BY <2>4
<1>4. QED
    BY <1>2, <1>3

\* The cards of kept are those of the first k shown that are in keep, each at
\* a place of its own.
Picks(kept, shown, keep, k) ==
    \E at \in [DOMAIN kept -> 1..k] :
        /\ \A i \in DOMAIN kept : kept[i] = shown[at[i]] /\ kept[i] \in keep
        /\ \A i, j \in DOMAIN kept : at[i] = at[j] => i = j
        /\ \A m \in 1..k : shown[m] \in keep => \E i \in DOMAIN kept : at[i] = m

\* Nothing is picked of no cards.
LEMMA PicksNone ==
    ASSUME NEW shown, NEW keep
    PROVE  Picks(<<>>, shown, keep, 0)
<1> DEFINE at == [i \in {} |-> 0]
<1>1. DOMAIN <<>> = {} /\ 1..0 = {}
    OBVIOUS
<1>2. at \in [DOMAIN <<>> -> 1..0]
    BY <1>1
<1>3. QED
    BY <1>1, <1>2 DEF Picks

\* One more card looked at is picked or passed over.
LEMMA PicksOneMore ==
    ASSUME NEW S, NEW shown \in Seq(S), NEW keep, NEW k \in 1..Len(shown),
           NEW kept \in Seq(S), Picks(kept, shown, keep, k - 1)
    PROVE  IF shown[k] \in keep THEN Picks(Append(kept, shown[k]), shown, keep, k)
                                ELSE Picks(kept, shown, keep, k)
<1>1. PICK at \in [DOMAIN kept -> 1..(k - 1)] :
         /\ \A i \in DOMAIN kept : kept[i] = shown[at[i]] /\ kept[i] \in keep
         /\ \A i, j \in DOMAIN kept : at[i] = at[j] => i = j
         /\ \A m \in 1..(k - 1) : shown[m] \in keep => \E i \in DOMAIN kept : at[i] = m
    BY DEF Picks
<1>2. /\ k \in Nat /\ Len(kept) \in Nat /\ DOMAIN kept = 1..Len(kept)
      /\ \A m \in 1..k : m = k \/ m \in 1..(k - 1)
      /\ \A m \in 1..(k - 1) : m \in 1..k /\ m # k
    BY LenProperties
<1>3. CASE shown[k] \notin keep
    <2>1. at \in [DOMAIN kept -> 1..k]
        BY <1>2
    <2>2. \A m \in 1..k : shown[m] \in keep => \E i \in DOMAIN kept : at[i] = m
        BY <1>1, <1>2, <1>3
    <2>3. Picks(kept, shown, keep, k)
        BY <1>1, <2>1, <2>2 DEF Picks
    <2>4. QED
        BY <1>3, <2>3
<1>4. CASE shown[k] \in keep
    <2> DEFINE more == Append(kept, shown[k])
               n == Len(kept)
               to == [i \in 1..(n + 1) |-> IF i = n + 1 THEN k ELSE at[i]]
    <2>1. /\ DOMAIN more = 1..(n + 1)
          /\ more[n + 1] = shown[k]
          /\ \A i \in 1..n : more[i] = kept[i]
        OBVIOUS
    <2>2. \A i \in 1..(n + 1) : i = n + 1 \/ i \in 1..n
        BY <1>2
    <2>3. /\ \A i \in 1..n : i # n + 1 /\ i \in 1..(n + 1)
          /\ n + 1 \in 1..(n + 1)
        BY <1>2
    <2> HIDE DEF more, n
    <2>4. to[n + 1] = k /\ \A i \in 1..n : to[i] = at[i] /\ to[i] \in 1..k /\ to[i] # k
        BY <1>2, <2>3 DEF n
    <2>5. to \in [DOMAIN more -> 1..k]
        <3>1. k \in 1..k
            BY <1>2
        <3>2. \A i \in 1..(n + 1) : to[i] \in 1..k
            BY <2>2, <2>4, <3>1
        <3>3. QED
            BY <2>1, <3>2
    <2> HIDE DEF to
    <2>6. \A i \in DOMAIN more : more[i] = shown[to[i]] /\ more[i] \in keep
        BY <1>1, <1>2, <1>4, <2>1, <2>2, <2>4 DEF n
    <2>7. \A i, j \in DOMAIN more : to[i] = to[j] => i = j
        BY <1>1, <1>2, <2>1, <2>2, <2>4 DEF n
    <2>8. \A m \in 1..k : shown[m] \in keep => \E i \in DOMAIN more : to[i] = m
        <3> SUFFICES ASSUME NEW m \in 1..k, shown[m] \in keep
                     PROVE  \E i \in DOMAIN more : to[i] = m
            OBVIOUS
        <3>1. CASE m = k
            BY <2>1, <2>3, <2>4, <3>1
        <3>2. CASE m \in 1..(k - 1)
            <4>1. PICK i \in 1..n : at[i] = m
                BY <1>1, <1>2, <3>2 DEF n
            <4>2. QED
                BY <2>1, <2>3, <2>4, <4>1
        <3>3. QED
            BY <1>2, <3>1, <3>2
    <2>9. Picks(more, shown, keep, k)
        BY <2>5, <2>6, <2>7, <2>8 DEF Picks
    <2>10. QED
        BY <1>4, <2>9 DEF more
<1>5. QED
    BY <1>3, <1>4

(* Filter returns the cards that are kept, none of them twice.             *)
LEMMA FilterPicks ==
    ASSUME NEW S, NEW shown \in Seq(S), NEW keep
    PROVE  /\ Filter(shown, keep) \in Seq(S)
           /\ Picks(Filter(shown, keep), shown, keep, Len(shown))
<1>1. Len(shown) \in Nat /\ \A n \in 1..Len(shown) : shown[n] \in S
    OBVIOUS
<1> DEFINE f == CHOOSE g : IsFiltered(g, shown, keep, Len(shown))
<1>2. IsFiltered(f, shown, keep, Len(shown))
    BY <1>1, FilteredExist
<1>3. Filter(shown, keep) = f[Len(shown)]
    BY SMT DEF Filter, IsFiltered
<1> HIDE DEF f
<1> DEFINE Good(n) == f[n] \in Seq(S) /\ Picks(f[n], shown, keep, n)
           Bad == {n \in 0..Len(shown) : ~Good(n)}
<1>4. Bad = {}
    <2> SUFFICES ASSUME Bad # {} PROVE FALSE
        OBVIOUS
    <2>1. PICK m \in Bad : \A n \in Bad : m <= n
        <3>1. Bad \subseteq Nat
            BY <1>1
        <3> HIDE DEF Bad
        <3>2. QED
            BY <3>1, LeastNatural
    <2>2. CASE m = 0
        <3>1. f[0] = <<>>
            BY <1>1, <1>2 DEF IsFiltered
        <3>2. <<>> \in Seq(S) /\ Picks(<<>>, shown, keep, 0)
            BY PicksNone
        <3>3. Good(0)
            BY <3>1, <3>2
        <3>4. QED
            BY <2>1, <2>2, <3>3
    <2>3. CASE m # 0
        <3>1. m \in 1..Len(shown) /\ m \in 0..Len(shown) /\ m - 1 \in 0..Len(shown)
            BY <1>1, <2>1, <2>3
        <3>2. Good(m - 1)
            <4>1. m - 1 \notin Bad
                BY <1>1, <2>1, <3>1
            <4>2. QED
                BY <3>1, <4>1
        <3>3. f[m] = IF shown[m] \in keep THEN Append(f[m - 1], shown[m]) ELSE f[m - 1]
            BY <1>2, <2>3, <3>1 DEF IsFiltered
        <3>4. f[m] \in Seq(S)
            <4>1. shown[m] \in S /\ f[m - 1] \in Seq(S)
                BY <1>1, <3>1, <3>2
            <4> HIDE DEF Bad
            <4>2. QED
                BY <3>3, <4>1
        <3>5. Picks(f[m], shown, keep, m)
            BY <3>1, <3>2, <3>3, PicksOneMore
        <3>6. QED
            BY <2>1, <3>4, <3>5
    <2>4. QED
        BY <2>2, <2>3
<1>5. Good(Len(shown))
    BY <1>1, <1>4
<1>6. QED
    BY <1>3, <1>5

-----------------------------------------------------------------------------
(* What the handlers do to the cards of a task.                            *)

None(cards, t) == \A i \in DOMAIN cards : cards[i].id # t

\* The cards are of the backlog and of the page's board.
OfBoard(card) == card.status = "backlog" \/ card.boardId = Board
OnlyOfBoard(cards) == \A i \in DOMAIN cards : OfBoard(cards[i])

\* The page goes on showing the cards of t that it shows, and no other.
CardsStay(shown, next, t) ==
    /\ \A i \in DOMAIN next : next[i].id = t => \E j \in DOMAIN shown : shown[j] = next[i]
    /\ \A j \in DOMAIN shown : shown[j].id = t => \E i \in DOMAIN next : next[i].id = t
    /\ AtMostOnce(shown, t) => AtMostOnce(next, t)

\* What stays over two changes stays over both.
LEMMA StayTransitive ==
    ASSUME NEW first, NEW second, NEW third, NEW t,
           CardsStay(first, second, t), CardsStay(second, third, t)
    PROVE  CardsStay(first, third, t)
<1>1. \A i \in DOMAIN third : third[i].id = t => \E j \in DOMAIN first : first[j] = third[i]
    <2> SUFFICES ASSUME NEW i \in DOMAIN third, third[i].id = t
                 PROVE  \E j \in DOMAIN first : first[j] = third[i]
        OBVIOUS
    <2>1. PICK k \in DOMAIN second : second[k] = third[i]
        BY DEF CardsStay
    <2>2. QED
        BY <2>1 DEF CardsStay
<1>2. QED
    BY <1>1 DEF CardsStay

(* The cards that Filter returns.                                          *)
LEMMA FilterProperties ==
    ASSUME NEW shown \in Seq(Card), NEW keep, NEW kept, kept = Filter(shown, keep)
    PROVE  /\ kept \in Seq(Card)
           /\ \A i \in DOMAIN kept : kept[i] \in keep /\ \E j \in DOMAIN shown : shown[j] = kept[i]
           /\ \A j \in DOMAIN shown : shown[j] \in keep => \E i \in DOMAIN kept : kept[i] = shown[j]
           /\ \A t : AtMostOnce(shown, t) => AtMostOnce(kept, t)
<1>1. kept \in Seq(Card) /\ Picks(kept, shown, keep, Len(shown))
    BY FilterPicks
<1>2. DOMAIN shown = 1..Len(shown)
    OBVIOUS
<1>3. PICK at \in [DOMAIN kept -> DOMAIN shown] :
         /\ \A i \in DOMAIN kept : kept[i] = shown[at[i]] /\ kept[i] \in keep
         /\ \A i, j \in DOMAIN kept : at[i] = at[j] => i = j
         /\ \A m \in DOMAIN shown : shown[m] \in keep => \E i \in DOMAIN kept : at[i] = m
    BY <1>1, <1>2 DEF Picks
<1>4. \A i \in DOMAIN kept : at[i] \in DOMAIN shown
    BY <1>3
<1>5. \A t : AtMostOnce(shown, t) => AtMostOnce(kept, t)
    <2>1. ASSUME NEW t, AtMostOnce(shown, t), NEW i \in DOMAIN kept, NEW j \in DOMAIN kept,
                 kept[i].id = t, kept[j].id = t
          PROVE  i = j
        <3>1. shown[at[i]].id = t /\ shown[at[j]].id = t
            BY <1>3, <2>1
        <3>2. at[i] = at[j]
            BY <1>4, <2>1, <3>1 DEF AtMostOnce
        <3>3. QED
            BY <1>3, <3>2
    <2>2. ASSUME NEW t, AtMostOnce(shown, t) PROVE AtMostOnce(kept, t)
        BY <2>1, <2>2, Zenon DEF AtMostOnce
    <2>3. QED
        BY <2>2
<1>6. \A i \in DOMAIN kept : kept[i] \in keep /\ \E j \in DOMAIN shown : shown[j] = kept[i]
    BY <1>3, <1>4
<1>7. \A j \in DOMAIN shown : shown[j] \in keep => \E i \in DOMAIN kept : kept[i] = shown[j]
    BY <1>3
<1>8. QED
    BY <1>1, <1>5, <1>6, <1>7

(* Cards that are kept stay.                                               *)
LEMMA FilterKeeps ==
    ASSUME NEW shown \in Seq(Card), NEW keep, NEW kept, kept = Filter(shown, keep), NEW t,
           \A j \in DOMAIN shown : shown[j].id = t => shown[j] \in keep
    PROVE  CardsStay(shown, kept, t)
<1>1. /\ \A i \in DOMAIN kept : \E j \in DOMAIN shown : shown[j] = kept[i]
      /\ \A j \in DOMAIN shown : shown[j] \in keep => \E i \in DOMAIN kept : kept[i] = shown[j]
      /\ AtMostOnce(shown, t) => AtMostOnce(kept, t)
    BY FilterProperties
<1>2. QED
    BY <1>1 DEF CardsStay

\* filter(t => t.id != id) takes off the task's cards and no others.
LEMMA WithoutProperties ==
    ASSUME NEW shown \in Seq(Card), NEW id, NEW next, next = Without(shown, id)
    PROVE  /\ next \in Seq(Card)
           /\ None(next, id)
           /\ \A i \in DOMAIN next : \E j \in DOMAIN shown : shown[j] = next[i]
           /\ \A t : t # id => CardsStay(shown, next, t)
<1> DEFINE keep == {card \in ToSet(shown) : card.id # id}
<1>1. \A j \in DOMAIN shown : shown[j] \in ToSet(shown)
    BY DEF ToSet
<1>2. next = Filter(shown, keep)
    BY DEF Without
<1>3. \A j \in DOMAIN shown : shown[j].id # id => shown[j] \in keep
    BY <1>1
<1>4. \A card \in keep : card.id # id
    OBVIOUS
<1> HIDE DEF keep
<1>5. \A t : t # id => CardsStay(shown, next, t)
    BY <1>2, <1>3, FilterKeeps
<1>6. /\ next \in Seq(Card)
      /\ \A i \in DOMAIN next : next[i] \in keep /\ \E j \in DOMAIN shown : shown[j] = next[i]
    BY <1>2, FilterProperties
<1>7. QED
    BY <1>4, <1>5, <1>6 DEF None

Adds(shown, card, next) == next = Append(shown, card)

\* Adding a card changes nothing about other tasks.
LEMMA AddProperties ==
    ASSUME NEW shown \in Seq(Card), NEW card \in Card, NEW id, id = card.id,
           NEW next, Adds(shown, card, next)
    PROVE  /\ next \in Seq(Card)
           /\ \A i \in DOMAIN next : next[i] = card \/ \E j \in DOMAIN shown : shown[j] = next[i]
           /\ \E i \in DOMAIN next : next[i] = card
           /\ None(shown, id) => AtMostOnce(next, id)
           /\ \A t : t # id => CardsStay(shown, next, t)
<1> DEFINE n == Len(shown)
<1>1. /\ n \in Nat /\ DOMAIN shown = 1..n
      /\ next \in Seq(Card) /\ DOMAIN next = 1..(n + 1)
      /\ next[n + 1] = card
      /\ \A i \in 1..n : next[i] = shown[i]
    <2> USE DEF Adds
    <2>1. next \in Seq(Card) /\ Len(next) = n + 1
        OBVIOUS
    <2>2. DOMAIN next = 1..(n + 1)
        BY <2>1, LenProperties
    <2>3. QED
        BY <2>1, <2>2
<1> HIDE DEF n
<1>2. /\ \A i \in DOMAIN next : i = n + 1 \/ i \in DOMAIN shown
      /\ n + 1 \in DOMAIN next
      /\ \A i \in DOMAIN shown : i \in DOMAIN next /\ next[i] = shown[i]
    BY <1>1
<1>3. ASSUME NEW t, t # id PROVE CardsStay(shown, next, t)
    <2>1. \A i \in DOMAIN next : next[i].id = t => i \in DOMAIN shown /\ shown[i] = next[i]
        BY <1>1, <1>2, <1>3
    <2>2. QED
        BY <1>2, <2>1 DEF CardsStay, AtMostOnce
<1>4. None(shown, id) => AtMostOnce(next, id)
    BY <1>2 DEF None, AtMostOnce
<1>5. QED
    BY <1>1, <1>2, <1>3, <1>4

(* A card is replaced by one of the same task.                             *)
LEMMA ReplaceProperties ==
    ASSUME NEW shown \in Seq(Card), NEW k \in DOMAIN shown, NEW card \in Card,
           card.id = shown[k].id, NEW next, next = [shown EXCEPT ![k] = card]
    PROVE  /\ next \in Seq(Card) /\ DOMAIN next = DOMAIN shown
           /\ next[k] = card
           /\ \A i \in DOMAIN shown : i # k => next[i] = shown[i]
           /\ \A t : AtMostOnce(shown, t) => AtMostOnce(next, t)
           /\ \A t : t # card.id => CardsStay(shown, next, t)
<1>1. next \in Seq(Card) /\ DOMAIN next = DOMAIN shown
    OBVIOUS
<1>2. next[k] = card /\ \A i \in DOMAIN shown : i # k => next[i] = shown[i]
    OBVIOUS
<1>3. \A i \in DOMAIN shown : next[i].id = shown[i].id
    BY <1>2
<1>4. \A t : AtMostOnce(shown, t) => AtMostOnce(next, t)
    BY <1>1, <1>3 DEF AtMostOnce
<1>5. \A t : t # card.id => CardsStay(shown, next, t)
    BY <1>1, <1>2, <1>3, <1>4 DEF CardsStay
<1>6. QED
    BY <1>1, <1>2, <1>4, <1>5

\* A merged card keeps its id and takes the message's column.
LEMMA MergeProperties ==
    ASSUME NEW card \in Card, NEW message \in Card
    PROVE  /\ Merge(card, message) \in Card
           /\ Merge(card, message).id = card.id
           /\ Merge(card, message).status = message.status
           /\ message.boardId # Null => Merge(card, message).boardId = message.boardId
<1> DEFINE b == OrElse(message.boardId, card.boardId)
           s == OrElse(message.status, card.status)
           d == OrElse(message.title, card.title)
<1>1. Merge(card, message) = [card EXCEPT !.boardId = b, !.status = s, !.title = d]
    BY DEF Merge
<1>2. b \in BoardRefs \cup {NoBoard} /\ (message.boardId # Null => b = message.boardId)
    BY DEF Card, OrElse
<1>3. message.status \in TaskStatus /\ message.status # Null
    BY NullAssumption DEF Card
<1>4. s = message.status
    BY <1>3 DEF OrElse
<1>5. d \in Details \cup {Null}
    BY DEF Card, OrElse
<1> HIDE DEF b, s, d
<1>6. QED
    BY <1>1, <1>2, <1>3, <1>4, <1>5 DEF Card

\* The message gives the card its column.
Places(message) == message.status = "backlog" \/ message.boardId \in Boards

\* The cards of the message's task are as it says, in its column, or are none
\* if the column is of another board.
Follow(cards, message) ==
    /\ \A i \in DOMAIN cards : cards[i].id = message.id =>
          OfBoard(message) /\ cards[i].status = message.status
    /\ OfBoard(message) => \E i \in DOMAIN cards : cards[i].id = message.id

(* What updateTask shows of the message's task, once shown or not yet.     *)
LEMMA UpdateTask ==
    ASSUME NEW shown \in Seq(Card), OnlyOfBoard(shown), NEW message \in Card,
           NEW next, next = updateTask(shown, message)
    PROVE  /\ next \in Seq(Card)
           /\ OnlyOfBoard(next)
           /\ \A t : t # message.id => CardsStay(shown, next, t)
           /\ AtMostOnce(shown, message.id) =>
                 /\ AtMostOnce(next, message.id)
                 /\ Places(message) => Follow(next, message)
<1> DEFINE isValidRef == message.boardId \notin {Null, NoBoard} \/ message.status = "backlog"
           idx == SelectInSeq(shown, LAMBDA card : card.id = message.id)
           updated ==
               IF ~isValidRef THEN Without(shown, message.id)
               ELSE IF idx = 0 THEN Append(shown, message)
               ELSE [shown EXCEPT ![idx] = Merge(@, message)]
           keep == {card \in ToSet(updated) : OfBoard(card)}
           \* The only card of the message's task takes its column and board.
           Taken(cards) ==
               /\ \A i \in DOMAIN cards : cards[i].id = message.id =>
                     /\ cards[i].status = message.status
                     /\ OfBoard(cards[i]) <=> OfBoard(message)
               /\ \E i \in DOMAIN cards : cards[i].id = message.id
<1>1. next = Filter(updated, keep)
    BY DEF updateTask, OfBoard
<1>2. Places(message) => isValidRef
    BY BoardAssumption, NullAssumption DEF Places, NoBoard
<1>3. /\ updated \in Seq(Card)
      /\ \A t : t # message.id => CardsStay(shown, updated, t)
      /\ AtMostOnce(shown, message.id) =>
            /\ AtMostOnce(updated, message.id)
            /\ Places(message) => Taken(updated)
    <2>1. CASE ~isValidRef
        <3>1. updated = Without(shown, message.id)
            BY <2>1
        <3> HIDE DEF updated
        <3>2. /\ updated \in Seq(Card)
              /\ None(updated, message.id)
              /\ \A t : t # message.id => CardsStay(shown, updated, t)
            BY <3>1, WithoutProperties
        <3>3. AtMostOnce(updated, message.id)
            BY <3>2 DEF None, AtMostOnce
        <3>4. QED
            BY <1>2, <2>1, <3>2, <3>3
    <2>2. CASE isValidRef /\ None(shown, message.id)
        <3>1. idx = 0
            BY <2>2 DEF SelectInSeq, None
        <3>2. Adds(shown, message, updated)
            BY <2>2, <3>1 DEF Adds
        <3> HIDE DEF updated
        <3>3. /\ updated \in Seq(Card)
              /\ \A i \in DOMAIN updated :
                    updated[i] = message \/ \E j \in DOMAIN shown : shown[j] = updated[i]
              /\ \E i \in DOMAIN updated : updated[i] = message
              /\ AtMostOnce(updated, message.id)
              /\ \A t : t # message.id => CardsStay(shown, updated, t)
            <4>1. None(shown, message.id)
                BY <2>2
            <4> HIDE DEF idx, isValidRef
            <4>2. QED
                BY <3>2, <4>1, AddProperties
        <3>4. \A i \in DOMAIN updated : updated[i].id = message.id => updated[i] = message
            BY <2>2, <3>3 DEF None
        <3>5. Taken(updated)
            BY <3>3, <3>4
        <3>6. QED
            BY <3>3, <3>5
    <2>3. CASE isValidRef /\ ~None(shown, message.id)
        <3> DEFINE same == {i \in 1..Len(shown) : shown[i].id = message.id}
        <3>1. Len(shown) \in Nat /\ DOMAIN shown = 1..Len(shown)
            OBVIOUS
        <3>2. PICK k \in same : \A i \in same : k <= i
            <4>1. same \subseteq Nat /\ same # {}
                BY <2>3, <3>1 DEF None
            <4> HIDE DEF same
            <4>2. QED
                BY <4>1, LeastNatural
        <3>3. Min(same) = k
            BY <3>1, <3>2 DEF Min
        <3>4. idx = k
            BY <3>2, <3>3 DEF SelectInSeq
        <3>5. k \in DOMAIN shown /\ k # 0 /\ shown[k].id = message.id /\ shown[k] \in Card
            BY <3>1, <3>2
        <3> DEFINE card == Merge(shown[k], message)
        <3>6. updated = [shown EXCEPT ![k] = card]
            BY <2>3, <3>4, <3>5
        <3>7. /\ card \in Card
              /\ card.id = message.id
              /\ card.status = message.status
              /\ message.boardId # Null => card.boardId = message.boardId
            BY <3>5, MergeProperties
        <3> HIDE DEF updated, card, same
        <3>8. /\ updated \in Seq(Card) /\ DOMAIN updated = DOMAIN shown
              /\ updated[k] = card
              /\ \A i \in DOMAIN shown : i # k => updated[i] = shown[i]
              /\ \A t : AtMostOnce(shown, t) => AtMostOnce(updated, t)
              /\ \A t : t # message.id => CardsStay(shown, updated, t)
            <4>1. card \in Card /\ card.id = shown[k].id /\ k \in DOMAIN shown
                BY <3>5, <3>7
            <4>2. /\ updated \in Seq(Card) /\ DOMAIN updated = DOMAIN shown
                  /\ updated[k] = card
                  /\ \A i \in DOMAIN shown : i # k => updated[i] = shown[i]
                  /\ \A t : AtMostOnce(shown, t) => AtMostOnce(updated, t)
                  /\ \A t : t # card.id => CardsStay(shown, updated, t)
                BY <4>1, <3>6, ReplaceProperties, Zenon
            <4>3. QED
                BY <4>2, <3>7
        <3>9. ASSUME AtMostOnce(shown, message.id), Places(message)
              PROVE  Taken(updated)
            <4>1. \A i \in DOMAIN updated : updated[i].id = message.id => updated[i] = card
                BY <3>5, <3>8, <3>9 DEF AtMostOnce
            <4>2. OfBoard(card) <=> OfBoard(message)
                <5>1. message.boardId \in Boards => message.boardId # Null
                    BY NullAssumption
                <5>2. QED
                    BY <3>7, <3>9, <5>1 DEF OfBoard, Places
            <4>3. QED
                BY <3>5, <3>7, <3>8, <4>1, <4>2
        <3>10. QED
            BY <3>8, <3>9
    <2>4. QED
        BY <2>1, <2>2, <2>3
<1>4. \A j \in DOMAIN updated : OfBoard(updated[j]) => updated[j] \in keep
    BY DEF ToSet
<1>5. \A card \in keep : OfBoard(card)
    OBVIOUS
<1> HIDE DEF updated, keep, idx, isValidRef
<1>6. /\ next \in Seq(Card)
      /\ \A i \in DOMAIN next : next[i] \in keep /\ \E j \in DOMAIN updated : updated[j] = next[i]
      /\ \A j \in DOMAIN updated : updated[j] \in keep => \E i \in DOMAIN next : next[i] = updated[j]
      /\ \A t : AtMostOnce(updated, t) => AtMostOnce(next, t)
    BY <1>1, <1>3, FilterProperties
<1>7. OnlyOfBoard(next)
    BY <1>5, <1>6 DEF OnlyOfBoard
<1>8. ASSUME NEW t, t # message.id PROVE CardsStay(shown, next, t)
    <2>1. CardsStay(shown, updated, t)
        BY <1>3, <1>8
    <2>2. \A j \in DOMAIN updated : updated[j].id = t => updated[j] \in keep
        BY <1>4, <2>1 DEF CardsStay, OnlyOfBoard
    <2>3. CardsStay(updated, next, t)
        BY <1>1, <1>3, <2>2, FilterKeeps
    <2>4. QED
        BY <2>1, <2>3, StayTransitive
<1>9. ASSUME AtMostOnce(shown, message.id), Places(message)
      PROVE  Follow(next, message)
    <2>1. Taken(updated)
        BY <1>3, <1>9
    <2>2. \A i \in DOMAIN next : next[i].id = message.id =>
             OfBoard(message) /\ next[i].status = message.status
        <3> SUFFICES ASSUME NEW i \in DOMAIN next, next[i].id = message.id
                     PROVE  OfBoard(message) /\ next[i].status = message.status
            OBVIOUS
        <3>1. PICK j \in DOMAIN updated : updated[j] = next[i]
            BY <1>6
        <3>2. OfBoard(updated[j])
            BY <1>7, <3>1 DEF OnlyOfBoard
        <3>3. QED
            BY <2>1, <3>1, <3>2
    <2>3. ASSUME OfBoard(message) PROVE \E i \in DOMAIN next : next[i].id = message.id
        <3>1. PICK j \in DOMAIN updated : updated[j].id = message.id
            BY <2>1
        <3>2. updated[j] \in keep
            BY <1>4, <2>1, <2>3, <3>1
        <3>3. QED
            BY <1>6, <3>1, <3>2
    <2>4. QED
        BY <2>2, <2>3 DEF Follow
<1>10. QED
    BY <1>3, <1>6, <1>7, <1>8, <1>9

-----------------------------------------------------------------------------
(* The messages.                                                           *)

\* A message that changes a column names its task, the column, and a move's board.
LEMMA MessageProperties ==
    ASSUME NEW t \in Tasks, NEW event \in TaskEvent,
           event.type \in {"TaskCreatedEvent", "TaskBacklogEvent"} \cup MoveEvents,
           event.type = "TaskCreatedEvent" => event.taskInfo.status = "backlog"
    PROVE  /\ Message(t, event) \in Card
           /\ Message(t, event).id = t
           /\ event.type \in MoveEvents =>
                 /\ Message(t, event).boardId = event.boardId
                 /\ Message(t, event).status = StatusOf[event.type]
           /\ event.type \notin MoveEvents => Message(t, event).status = "backlog"
<1>1. CASE event.type = "TaskCreatedEvent"
    <2>1. event.taskInfo \in TaskInfo
        BY <1>1 DEF TaskEvent, MoveEvents
    <2>2. Message(t, event)
             = [id |-> t, boardId |-> event.taskInfo.boardId, status |-> "backlog",
                title |-> event.taskInfo.taskDetails]
        <3>1. Message(t, event) = CardOf([id |-> t, task |-> transform(event.taskInfo)])
            BY <1>1 DEF Message, MoveEvents
        <3>2. QED
            BY <1>1, <3>1 DEF CardOf, transform
    <2>3. QED
        <3>1. event.taskInfo.boardId \in BoardRefs /\ event.taskInfo.taskDetails \in Details
            BY <2>1 DEF TaskInfo
        <3>2. QED
            BY <1>1, <2>2, <3>1 DEF Card, TaskStatus, MoveEvents
<1>2. CASE event.type = "TaskBacklogEvent"
    <2>1. Message(t, event)
             = [id |-> t, boardId |-> NoBoard, status |-> "backlog", title |-> Null]
        BY <1>2 DEF Message, MoveEvents
    <2>2. QED
        BY <1>2, <2>1 DEF Card, TaskStatus, MoveEvents
<1>3. CASE event.type \in MoveEvents
    <2>1. event.boardId \in BoardRefs /\ StatusOf[event.type] \in TaskStatus
        BY <1>3 DEF TaskEvent, MoveEvents, StatusOf, TaskStatus
    <2>2. Message(t, event)
             = [id |-> t, boardId |-> event.boardId, status |-> StatusOf[event.type],
                title |-> Null]
        BY <1>3 DEF Message, MoveEvents
    <2>3. QED
        BY <1>3, <2>1, <2>2 DEF Card
<1>4. QED
    BY <1>1, <1>2, <1>3

(* What a message makes of the cards, of its own task and of the others.   *)
LEMMA HandlerProperties ==
    ASSUME NEW shown \in Seq(Card), OnlyOfBoard(shown),
           NEW t \in Tasks, NEW event \in TaskEvent,
           event.type = "TaskCreatedEvent" => event.taskInfo.status = "backlog",
           NEW next, next = taskUpdatedEventHandler(shown, t, event)
    PROVE  /\ next \in Seq(Card)
           /\ OnlyOfBoard(next)
           /\ \A u : u # t => CardsStay(shown, next, u)
           /\ event.type = "TaskDeletedEvent" => None(next, t)
           /\ event.type = "TaskUpdatedEvent" => next = shown
           /\ event.type = "TaskCreatedEvent" /\ None(shown, t) =>
                 /\ AtMostOnce(next, t)
                 /\ \A i \in DOMAIN next : next[i].id = t => next[i].status = "backlog"
                 /\ \E i \in DOMAIN next : next[i].id = t
           /\ event.type \in {"TaskBacklogEvent"} \cup MoveEvents /\ AtMostOnce(shown, t) =>
                 /\ AtMostOnce(next, t)
                 /\ Places(Message(t, event)) => Follow(next, Message(t, event))
<1>1. CASE event.type = "TaskCreatedEvent"
    <2>1. Adds(shown, Message(t, event), next)
        BY <1>1 DEF taskUpdatedEventHandler, Adds
    <2>2. /\ Message(t, event) \in Card
          /\ Message(t, event).id = t /\ Message(t, event).status = "backlog"
        BY <1>1, MessageProperties DEF MoveEvents
    <2>3. /\ next \in Seq(Card)
          /\ \A i \in DOMAIN next :
                next[i] = Message(t, event) \/ \E j \in DOMAIN shown : shown[j] = next[i]
          /\ \E i \in DOMAIN next : next[i] = Message(t, event)
          /\ None(shown, t) => AtMostOnce(next, t)
          /\ \A u : u # t => CardsStay(shown, next, u)
        BY <2>1, <2>2, AddProperties
    <2>4. OnlyOfBoard(next)
        BY <2>2, <2>3 DEF OnlyOfBoard, OfBoard
    <2>5. None(shown, t) => \A i \in DOMAIN next : next[i].id = t => next[i].status = "backlog"
        BY <2>2, <2>3 DEF None
    <2>6. QED
        BY <1>1, <2>2, <2>3, <2>4, <2>5 DEF MoveEvents
<1>2. CASE event.type = "TaskDeletedEvent"
    <2>1. next = Without(shown, t)
        BY <1>2 DEF taskUpdatedEventHandler
    <2>2. /\ next \in Seq(Card)
          /\ None(next, t)
          /\ \A i \in DOMAIN next : \E j \in DOMAIN shown : shown[j] = next[i]
          /\ \A u : u # t => CardsStay(shown, next, u)
        BY <2>1, WithoutProperties
    <2>3. OnlyOfBoard(next)
        BY <2>2 DEF OnlyOfBoard
    <2>4. QED
        BY <1>2, <2>2, <2>3 DEF MoveEvents
<1>3. CASE event.type = "TaskUpdatedEvent"
    <2>1. next = shown
        BY <1>3 DEF taskUpdatedEventHandler
    <2>2. \A u : CardsStay(shown, shown, u)
        BY DEF CardsStay
    <2>3. QED
        BY <1>3, <2>1, <2>2 DEF MoveEvents
<1>4. CASE event.type \in {"TaskBacklogEvent"} \cup MoveEvents
    <2>1. next = updateTask(shown, Message(t, event))
        BY <1>4 DEF taskUpdatedEventHandler, MoveEvents
    <2>2. Message(t, event) \in Card /\ Message(t, event).id = t
        BY <1>4, MessageProperties
    <2>3. /\ next \in Seq(Card)
          /\ OnlyOfBoard(next)
          /\ \A u : u # t => CardsStay(shown, next, u)
          /\ AtMostOnce(shown, t) =>
                /\ AtMostOnce(next, t)
                /\ Places(Message(t, event)) => Follow(next, Message(t, event))
        BY <2>1, <2>2, UpdateTask
    <2>4. QED
        BY <1>4, <2>3 DEF MoveEvents
<1>5. QED
    BY <1>1, <1>2, <1>3, <1>4 DEF TaskEvent

-----------------------------------------------------------------------------
(* The documents a task has in the course of its history.                  *)

\* A version is a whole document, unless the task is deleted or not there yet.
LEMMA DocumentIsTask ==
    ASSUME QueryIInv, NEW t \in Tasks, NEW n \in 0..Len(log[t]),
           NEW doc, doc = DocumentAt(log[t], n)
    PROVE  /\ doc = Null <=> n = 0 \/ DeletedBy(t, n)
           /\ doc # Null => /\ n \in 1..Len(log[t])
                            /\ doc = transform(States(log[t])[n])
                            /\ States(log[t])[n] \in TaskInfo
                            /\ doc \in Task /\ ~doc.deleted
<1>1. Len(log[t]) \in Nat
    BY DEF QueryIInv, TypeOK
<1>2. CASE n = 0 \/ DeletedBy(t, n)
    BY <1>2 DEF DocumentAt, DeletedBy
<1>3. CASE ~(n = 0 \/ DeletedBy(t, n))
    <2> DEFINE version == States(log[t])[n]
    <2>1. doc = transform(version)
        BY <1>3 DEF DocumentAt, DeletedBy
    <2>2. n \in 1..Len(log[t])
        BY <1>1, <1>3
    <2>3. version \in TaskInfo /\ version.status \in TaskStatus /\ ~version.deleted
        BY <1>3, <2>2 DEF QueryIInv, VersionsAreTasks
    <2> HIDE DEF version
    <2>4. doc \in Task /\ ~doc.deleted
        BY <2>1, <2>3 DEF transform, Task, TaskInfo
    <2>5. doc # Null
        BY <2>4, DocumentAssumption
    <2>6. QED
        BY <1>3, <2>1, <2>2, <2>3, <2>4, <2>5 DEF version
<1>4. QED
    BY <1>2, <1>3

(* An event makes the next version of its task.                            *)
LEMMA EventMakesVersion ==
    ASSUME QueryIInv, NEW t \in Tasks, NEW n \in 1..Len(log[t])
    PROVE  /\ n \in Nat /\ n - 1 \in 0..Len(log[t])
           /\ log[t][n] \in TaskEvent
           /\ log[t][n].type = "TaskCreatedEvent" <=> n = 1
           /\ n = 1 => log[t][n].taskInfo.status = "backlog" /\ ~log[t][n].taskInfo.deleted
           /\ log[t][n].type \in MoveEvents => log[t][n].boardId \in MoveBoards
           /\ States(log[t])[n] = apply(States(log[t])[n - 1], log[t][n])
           /\ DeletedBy(t, n) <=> DeletedBy(t, n - 1) \/ log[t][n].type = "TaskDeletedEvent"
<1>1. log[t] \in Seq(TaskEvent) /\ Len(log[t]) \in Nat
    BY DEF QueryIInv, TypeOK
<1>2. n \in Nat /\ n - 1 \in 0..Len(log[t]) /\ log[t][n] \in TaskEvent
    BY <1>1
<1>3. States(log[t])[n] = apply(States(log[t])[n - 1], log[t][n])
    BY <1>1, StatesStep
<1>4. DeletedBy(t, n) <=> DeletedBy(t, n - 1) \/ log[t][n].type = "TaskDeletedEvent"
    <2>1. \A k \in 1..n : k = n \/ k \in 1..(n - 1)
        BY <1>2
    <2>2. n \in 1..n /\ \A k \in 1..(n - 1) : k \in 1..n
        BY <1>2
    <2>3. QED
        BY <2>1, <2>2 DEF DeletedBy
<1>5. QED
    BY <1>2, <1>3, <1>4 DEF QueryIInv, HistoriesAreWritten

(* The workflow makes a task's next document of the one before, or throws  *)
(* where there is to be none.                                              *)
LEMMA HandleMakesDocument ==
    ASSUME QueryIInv, Null \notin MoveBoards, NEW t \in Tasks, NEW n \in 1..Len(log[t]),
           NEW doc, doc = DocumentAt(log[t], n - 1)
    PROVE  DocumentAt(log[t], n)
               = IF CanHandle(doc, log[t][n]) THEN handle(doc, log[t][n]) ELSE Null
<1> DEFINE event == log[t][n]
           before == States(log[t])[n - 1]
           next == DocumentAt(log[t], n)
<1>1. /\ n \in Nat /\ n \in 0..Len(log[t]) /\ n # 0 /\ n - 1 \in 0..Len(log[t])
      /\ event \in TaskEvent
      /\ event.type = "TaskCreatedEvent" <=> n = 1
      /\ n = 1 => event.taskInfo.status = "backlog" /\ ~event.taskInfo.deleted
      /\ event.type \in MoveEvents => event.boardId \in MoveBoards
      /\ States(log[t])[n] = apply(before, event)
      /\ DeletedBy(t, n) <=> DeletedBy(t, n - 1) \/ event.type = "TaskDeletedEvent"
    <2>1. Len(log[t]) \in Nat
        BY DEF QueryIInv, TypeOK
    <2>2. n \in 0..Len(log[t]) /\ n # 0
        BY <2>1
    <2>3. QED
        BY <2>2, EventMakesVersion
<1>2. /\ next = Null <=> n = 0 \/ DeletedBy(t, n)
      /\ next # Null => next \in Task /\ ~next.deleted /\ next = transform(apply(before, event))
    BY <1>1, DocumentIsTask
<1>3. /\ doc = Null <=> n - 1 = 0 \/ DeletedBy(t, n - 1)
      /\ doc # Null => /\ doc \in Task /\ ~doc.deleted
                       /\ doc = transform(before) /\ before \in TaskInfo
    BY <1>1, DocumentIsTask
<1> HIDE DEF event, before, next
<1>4. CASE event.type = "TaskCreatedEvent"
    <2>1. ~DeletedBy(t, 0)
        BY DEF DeletedBy
    <2>2. next # Null
        BY <1>1, <1>2, <1>4, <2>1
    <2>3. handle(doc, event) = transform(apply(before, event))
        BY <1>1, <1>4, CreateDocument
    <2>4. QED
        BY <1>2, <1>4, <2>2, <2>3 DEF CanHandle, event, next
<1>5. CASE event.type # "TaskCreatedEvent" /\ doc = Null
    <2>1. next = Null
        BY <1>1, <1>2, <1>3, <1>5
    <2>2. QED
        BY <1>5, <2>1 DEF CanHandle, event, next
<1>6. CASE event.type = "TaskDeletedEvent" /\ doc # Null
    <2>1. next = Null
        BY <1>1, <1>2, <1>6
    <2>2. QED
        BY <1>6, <2>1 DEF CanHandle, handle, event, next
<1>7. CASE event.type \notin {"TaskCreatedEvent", "TaskDeletedEvent"} /\ doc # Null
    <2>1. next # Null
        BY <1>1, <1>2, <1>3, <1>7
    <2>2. event.type \in MoveEvents => event.boardId # Null
        BY <1>1
    <2>3. /\ handle(doc, event) \in Task
          /\ handle(doc, event).deleted = doc.deleted
          /\ \A field \in Fields :
                handle(doc, event)[field]
                    = IF event.type \in Setters[field]
                      THEN transform(apply(before, event))[field] ELSE doc[field]
        BY <1>1, <1>3, <1>7, <2>2, UpdateDocument
    <2>4. \A field \in Fields : handle(doc, event)[field] = next[field]
        <3> SUFFICES ASSUME NEW field \in Fields
                     PROVE  handle(doc, event)[field] = next[field]
            OBVIOUS
        <3>1. event.type \notin Setters[field] =>
                 transform(apply(before, event))[field] = transform(before)[field]
            BY <1>1, <1>3, <1>7, UnsetFieldStays
        <3>2. QED
            BY <1>2, <1>3, <1>7, <2>1, <2>3, <3>1
    <2>5. next \in Task /\ next.deleted = FALSE /\ handle(doc, event).deleted = FALSE
        BY <1>2, <1>3, <1>7, <2>1, <2>3 DEF Task
    <2> DEFINE handled == handle(doc, event)
    <2> HIDE DEF handled
    <2>6. handled = next
        <3>1. handled \in Task /\ handled.deleted = next.deleted
            BY <2>3, <2>5 DEF handled
        <3>2. \A field \in Fields : handled[field] = next[field]
            BY <2>4 DEF handled
        <3>3. QED
            BY <2>5, <3>1, <3>2 DEF Task, Fields
    <2>7. QED
        BY <1>7, <2>6 DEF CanHandle, event, next, handled
<1>8. QED
    BY <1>4, <1>5, <1>6, <1>7

(* The column an event leaves its task in, if the task is not deleted.     *)
LEMMA ColumnOfDocument ==
    ASSUME QueryIInv, NEW t \in Tasks, NEW n \in 1..Len(log[t]),
           NEW doc, doc = DocumentAt(log[t], n), doc # Null
    PROVE  LET event == log[t][n]
               before == DocumentAt(log[t], n - 1)
           IN  /\ event.type \in {"TaskCreatedEvent", "TaskBacklogEvent"} =>
                     doc.status = "backlog"
               /\ event.type \in MoveEvents =>
                     doc.status = StatusOf[event.type] /\ doc.boardId = event.boardId
               /\ event.type = "TaskUpdatedEvent" =>
                     /\ before # Null
                     /\ doc.status = before.status /\ doc.boardId = before.boardId
<1> DEFINE event == log[t][n]
           old == States(log[t])[n - 1]
           before == DocumentAt(log[t], n - 1)
<1>1. /\ n \in Nat /\ n \in 0..Len(log[t]) /\ n # 0 /\ n - 1 \in 0..Len(log[t])
      /\ event \in TaskEvent
      /\ event.type = "TaskCreatedEvent" <=> n = 1
      /\ States(log[t])[n] = apply(old, event)
      /\ DeletedBy(t, n) <=> DeletedBy(t, n - 1) \/ event.type = "TaskDeletedEvent"
    <2>1. Len(log[t]) \in Nat
        BY DEF QueryIInv, TypeOK
    <2>2. n \in 0..Len(log[t]) /\ n # 0
        BY <2>1
    <2>3. QED
        BY <2>2, EventMakesVersion
<1>2. doc = transform(apply(old, event)) /\ ~DeletedBy(t, n)
    BY <1>1, DocumentIsTask
<1>3. /\ before = Null <=> n - 1 = 0 \/ DeletedBy(t, n - 1)
      /\ before # Null => before = transform(old) /\ old \in TaskInfo
    BY <1>1, DocumentIsTask
<1>4. event.type # "TaskCreatedEvent" => before # Null
    BY <1>1, <1>2, <1>3
<1> HIDE DEF event, old, before
<1>5. CASE event.type = "TaskCreatedEvent"
    <2>1. event.taskInfo \in TaskInfo
        BY <1>1, <1>5 DEF TaskEvent, MoveEvents
    <2>2. apply(old, event) = [event.taskInfo EXCEPT !.status = "backlog"]
        BY <1>5 DEF apply, MoveEvents
    <2>3. doc.status = "backlog"
        BY <1>2, <2>1, <2>2 DEF transform, TaskInfo
    <2>4. QED
        BY <1>5, <2>3 DEF event, MoveEvents
<1>6. CASE event.type = "TaskBacklogEvent"
    <2>1. apply(old, event) = [old EXCEPT !.status = "backlog", !.update = event.update]
        BY <1>6 DEF apply, MoveEvents
    <2>2. doc.status = "backlog"
        BY <1>2, <1>3, <1>4, <1>6, <2>1 DEF transform, TaskInfo
    <2>3. QED
        BY <1>6, <2>2 DEF event, MoveEvents
<1>7. CASE event.type \in MoveEvents
    <2>1. apply(old, event) = [old EXCEPT !.status = StatusOf[event.type],
                                          !.boardId = event.boardId, !.update = event.update]
        BY <1>7 DEF apply, MoveEvents
    <2>2. event.type # "TaskCreatedEvent"
        BY <1>7 DEF MoveEvents
    <2>3. doc.status = StatusOf[event.type] /\ doc.boardId = event.boardId
        BY <1>2, <1>3, <1>4, <2>1, <2>2 DEF transform, TaskInfo
    <2>4. QED
        BY <1>7, <2>3 DEF event, MoveEvents
<1>8. CASE event.type = "TaskUpdatedEvent"
    <2>1. apply(old, event) = [old EXCEPT !.taskDetails = event.taskDetails,
                                          !.update = event.update]
        BY <1>8 DEF apply, MoveEvents
    <2>2. doc.status = before.status /\ doc.boardId = before.boardId
        BY <1>2, <1>3, <1>4, <1>8, <2>1 DEF transform, TaskInfo
    <2>3. QED
        BY <1>4, <1>8, <2>2 DEF event, before, MoveEvents
<1>9. CASE event.type = "TaskDeletedEvent"
    BY <1>1, <1>2, <1>9
<1>10. QED
    BY <1>1, <1>5, <1>6, <1>7, <1>8, <1>9 DEF TaskEvent

(* Any message but a changed title puts the card of its task right; that   *)
(* one leaves a right card right.                                          *)
LEMMA MessageShows ==
    ASSUME QueryIInv, Null \notin MoveBoards, NEW t \in Tasks, NEW n \in 1..Len(log[t]),
           NEW shown \in Seq(Card), OnlyOfBoard(shown), NEW next,
           next = taskUpdatedEventHandler(shown, t, log[t][n]),
           ~TouchedAfterDeletion(t), AtMostOnce(shown, t), n = 1 => None(shown, t)
    PROVE  /\ AtMostOnce(next, t)
           /\ log[t][n].type # "TaskUpdatedEvent"
                 \/ ShowAs(shown, t, DocumentAt(log[t], n - 1))
                 => ShowAs(next, t, DocumentAt(log[t], n))
<1> DEFINE event == log[t][n]
           doc == DocumentAt(log[t], n)
<1>1. /\ n \in Nat /\ n \in 0..Len(log[t]) /\ n # 0
      /\ n \in 1..n /\ n \in DOMAIN log[t]
      /\ \A k \in 1..n : k = n \/ (k < n /\ k \in DOMAIN log[t])
    <2>1. Len(log[t]) \in Nat /\ DOMAIN log[t] = 1..Len(log[t])
        BY DEF QueryIInv, TypeOK
    <2>2. QED
        BY <2>1
<1>2. /\ event \in TaskEvent
      /\ event.type = "TaskCreatedEvent" <=> n = 1
      /\ n = 1 => event.taskInfo.status = "backlog"
      /\ event.type \in MoveEvents => event.boardId \in Boards
    BY EventMakesVersion, QueryAssumption DEF BoardRefs
<1>3. doc = Null <=> event.type = "TaskDeletedEvent"
    <2>1. doc = Null <=> DeletedBy(t, n)
        BY <1>1, DocumentIsTask
    <2>2. DeletedBy(t, n) <=> event.type = "TaskDeletedEvent"
        BY <1>1 DEF DeletedBy, TouchedAfterDeletion
    <2>3. QED
        BY <2>1, <2>2
<1>4. /\ OnlyOfBoard(next)
      /\ event.type = "TaskDeletedEvent" => None(next, t)
      /\ event.type = "TaskUpdatedEvent" => next = shown
      /\ event.type = "TaskCreatedEvent" =>
            /\ AtMostOnce(next, t)
            /\ \A i \in DOMAIN next : next[i].id = t => next[i].status = "backlog"
            /\ \E i \in DOMAIN next : next[i].id = t
      /\ event.type \in {"TaskBacklogEvent"} \cup MoveEvents =>
            /\ AtMostOnce(next, t)
            /\ Places(Message(t, event)) => Follow(next, Message(t, event))
    BY <1>2, HandlerProperties
<1>5. /\ event.type \in {"TaskCreatedEvent", "TaskBacklogEvent"} => doc.status = "backlog"
      /\ event.type \in MoveEvents =>
            doc.status = StatusOf[event.type] /\ doc.boardId = event.boardId
    BY <1>3, ColumnOfDocument DEF MoveEvents
<1>6. event.type = "TaskUpdatedEvent" =>
         LET before == DocumentAt(log[t], n - 1)
         IN  before # Null /\ doc.status = before.status /\ doc.boardId = before.boardId
    BY <1>3, ColumnOfDocument
<1> HIDE DEF event, doc
<1>7. CASE event.type = "TaskCreatedEvent"
    <2>1. Visible(doc, Board)
        BY <1>3, <1>5, <1>7 DEF Visible
    <2>2. ShowAs(next, t, doc)
        BY <1>4, <1>5, <1>7, <2>1 DEF ShowAs
    <2>3. QED
        BY <1>4, <1>7, <2>2 DEF doc
<1>8. CASE event.type = "TaskDeletedEvent"
    <2>1. None(next, t)
        BY <1>4, <1>8
    <2>2. ~Visible(doc, Board)
        BY <1>3, <1>8 DEF Visible
    <2>3. AtMostOnce(next, t) /\ ShowAs(next, t, doc)
        BY <2>1, <2>2 DEF None, AtMostOnce, ShowAs
    <2>4. QED
        BY <2>3 DEF doc
<1>9. CASE event.type = "TaskUpdatedEvent"
    <2>1. Visible(DocumentAt(log[t], n - 1), Board) <=> Visible(doc, Board)
        BY <1>3, <1>6, <1>9 DEF Visible
    <2>2. ShowAs(shown, t, DocumentAt(log[t], n - 1)) => ShowAs(shown, t, doc)
        BY <1>6, <1>9, <2>1 DEF ShowAs
    <2>3. QED
        BY <1>4, <1>9, <2>2 DEF event, doc
<1>10. CASE event.type \in {"TaskBacklogEvent"} \cup MoveEvents
    <2> DEFINE message == Message(t, event)
    <2>1. /\ message.id = t
          /\ event.type \in MoveEvents =>
                message.boardId = event.boardId /\ message.status = StatusOf[event.type]
          /\ event.type \notin MoveEvents => message.status = "backlog"
        BY <1>2, <1>10, MessageProperties
    <2>2. Places(message)
        BY <1>2, <1>10, <2>1 DEF Places
    <2> HIDE DEF message
    <2>3. doc # Null /\ doc.status = message.status
        BY <1>3, <1>5, <1>10, <2>1 DEF MoveEvents
    <2>4. OfBoard(message) <=> Visible(doc, Board)
        <3>1. Board # Null
            BY BoardAssumption, NullAssumption
        <3>2. event.type \in MoveEvents => doc.boardId = message.boardId
            BY <1>5, <2>1
        <3>3. event.type \notin MoveEvents => message.status = "backlog"
            BY <2>1
        <3>4. QED
            BY <2>3, <3>1, <3>2, <3>3 DEF OfBoard, Visible
    <2>5. AtMostOnce(next, t) /\ Follow(next, message)
        BY <1>4, <1>10, <2>2 DEF message
    <2>6. ShowAs(next, t, doc)
        BY <2>1, <2>3, <2>4, <2>5 DEF Follow, ShowAs
    <2>7. QED
        BY <2>5, <2>6 DEF doc
<1>11. QED
    BY <1>2, <1>7, <1>8, <1>9, <1>10 DEF TaskEvent

-----------------------------------------------------------------------------
(* What every step keeps of histories and listings.                        *)

\* Histories grow, and keep the versions they have.
Grows ==
    \A t \in Tasks :
        /\ Len(log[t]) <= Len(log'[t])
        /\ \A i \in 1..Len(log[t]) :
              log'[t][i] = log[t][i] /\ States(log'[t])[i] = States(log[t])[i]

\* A step that writes nothing lets the histories be.
LEMMA SameLogGrows ==
    ASSUME QueryIInv, log' = log
    PROVE  Grows
<1>1. \A t \in Tasks : Len(log[t]) \in Nat
    BY DEF QueryIInv, TypeOK
<1>2. QED
    BY <1>1 DEF Grows

\* An event written goes to the end of its task's history.
LEMMA WriteGrows ==
    ASSUME QueryIInv, NEW t \in Tasks, NEW event \in TaskEvent, Writes(t, event)
    PROVE  Grows /\ OnlyGrows(t)
<1>1. /\ Len(log'[t]) = Len(log[t]) + 1 /\ log'[t] # <<>>
      /\ \A u \in Tasks \ {t} : log'[u] = log[u]
      /\ \A u \in Tasks : \A i \in 1..Len(log[u]) :
            log'[u][i] = log[u][i] /\ States(log'[u])[i] = States(log[u])[i]
    BY WriteKeepsVersions
<1>2. \A u \in Tasks : Len(log[u]) \in Nat
    BY DEF QueryIInv, TypeOK
<1>3. \A u \in Tasks : Len(log[u]) <= Len(log'[u])
    BY <1>1, <1>2
<1>4. QED
    BY <1>1, <1>3 DEF Grows, OnlyGrows

\* Events added to a history change none of its versions.
LEMMA GrowthKeeps ==
    ASSUME QueryIInv, QueryIInv', Grows, NEW t \in Tasks
    PROVE  /\ log[t] # <<>> => log'[t] # <<>>
           /\ \A n \in 0..Len(log[t]) : DocumentAt(log'[t], n) = DocumentAt(log[t], n)
           /\ TouchedAfterDeletion(t) => TouchedAfterDeletion(t)'
<1>1. /\ log[t] \in Seq(TaskEvent) /\ log'[t] \in Seq(TaskEvent)
      /\ Len(log[t]) \in Nat /\ Len(log'[t]) \in Nat
      /\ DOMAIN log[t] = 1..Len(log[t]) /\ DOMAIN log'[t] = 1..Len(log'[t])
    BY DEF QueryIInv, TypeOK
<1>2. /\ Len(log[t]) <= Len(log'[t])
      /\ \A i \in 1..Len(log[t]) :
            log'[t][i] = log[t][i] /\ States(log'[t])[i] = States(log[t])[i]
    BY DEF Grows
<1>3. log[t] # <<>> => log'[t] # <<>>
    BY <1>1, <1>2
<1>4. ASSUME NEW n \in 0..Len(log[t])
      PROVE  DocumentAt(log'[t], n) = DocumentAt(log[t], n)
    <2>1. \A k \in 1..n : k \in 1..Len(log[t])
        BY <1>1
    <2>2. n = 0 \/ n \in 1..Len(log[t])
        BY <1>1
    <2>3. QED
        BY <1>2, <2>1, <2>2 DEF DocumentAt
<1>5. TouchedAfterDeletion(t) => TouchedAfterDeletion(t)'
    <2>1. \A i \in DOMAIN log[t] : i \in DOMAIN log'[t] /\ log'[t][i] = log[t][i]
        BY <1>1, <1>2
    <2>2. QED
        BY <2>1 DEF TouchedAfterDeletion
<1>6. QED
    BY <1>3, <1>4, <1>5

(* A move is stored as an event that names a column.                       *)
LEMMA MoveWrites ==
    ASSUME PageIInv, NEW move \in moves, MoveStored(move)
    PROVE  /\ move.task \in Tasks
           /\ \E event \in TaskEvent :
                 Writes(move.task, event) /\ event.type # "TaskUpdatedEvent"
<1>1. move \in Move /\ log[move.task] # <<>>
    BY DEF PageIInv, PageTypeOK, CardsAreOfTasks
<1>2. PICK r \in Requests : \E c \in UpdateCommands(r, {Board}) :
         /\ c.type = verb[move.status]
         /\ log' = [log EXCEPT ![move.task] = Append(@, AfterApply(process(c)))]
    BY DEF MoveStored
<1>3. PICK c \in UpdateCommands(r, {Board}) :
         /\ c.type = verb[move.status]
         /\ log' = [log EXCEPT ![move.task] = Append(@, AfterApply(process(c)))]
    BY <1>2
<1>4. c \in UpdateCommands(r, MoveBoards) /\ c.type \in {"backlog"} \cup Moves
    <2>1. c \in UpdateCommands(r, MoveBoards)
        BY BoardAssumption DEF UpdateCommands
    <2>2. verb[move.status] \in {"backlog"} \cup Moves
        BY <1>1 DEF Move, TaskStatus, verb, Moves
    <2>3. QED
        BY <1>3, <2>1, <2>2
<1> DEFINE event == AfterApply(process(c))
<1>5. /\ event \in TaskEvent /\ event.type # "TaskCreatedEvent"
      /\ event.type \in MoveEvents => event.boardId \in MoveBoards
    BY <1>4, UpdateEvent
<1>6. event.type # "TaskUpdatedEvent"
    <2>1. c.type # "create" /\ c.type # "update"
        BY <1>4 DEF Moves
    <2>2. process(c).type = EventType[c.type]
        <3>1. CASE c.type \in Moves
            BY <1>4, <3>1 DEF process, UpdateCommands, Moves
        <3>2. CASE c.type = "backlog"
            BY <1>4, <3>2 DEF process, UpdateCommands, Moves
        <3>3. QED
            BY <1>4, <3>1, <3>2
    <2>3. process(c).type \notin {"TaskCreatedEvent", "TaskUpdatedEvent"}
        BY <1>4, <2>2 DEF EventType, Moves
    <2>4. QED
        BY <2>3 DEF AfterApply
<1>7. log' = [log EXCEPT ![move.task] = Append(@, event)]
    BY <1>3
<1> HIDE DEF event
<1>8. Writes(move.task, event)
    BY <1>1, <1>5, <1>7 DEF Writes, MoveEvents
<1>9. QED
    BY <1>1, <1>5, <1>6, <1>8 DEF Move

\* A move of the page is an event like any other to the view.
LEMMA StoredMoveKeeps ==
    ASSUME ListingIInv, PageIInv, NEW move \in moves, MoveStored(move)
    PROVE  ListingIInv' /\ Grows
<1>1. PICK event \in TaskEvent : Writes(move.task, event)
    BY MoveWrites
<1>2. /\ move.task \in Tasks
      /\ UNCHANGED <<delivered, acked, failed, view, restarts>>
      /\ listing' = listing /\ touched' = touched
    BY MoveWrites DEF MoveStored
<1>3. QueryIInv /\ touched \subseteq Tasks
    BY DEF ListingIInv, ListingTypeOK
<1>4. Grows /\ OnlyGrows(move.task) /\ QueryIInv'
    BY <1>1, <1>2, <1>3, WriteGrows, WriteIInv
<1>5. touched \subseteq touched' /\ touched' \subseteq Tasks
    BY <1>2, <1>3
<1>6. \A t \in Tasks \ touched' : view'[t] = view[t]
    BY <1>2
<1>7. ListingIInv'
    BY <1>2, <1>4, <1>5, <1>6, ListingGoesOn
<1>8. QED
    BY <1>4, <1>7

(* The listing behind the page is kept, and histories only grow.           *)
LEMMA PageStepKeeps ==
    ASSUME ListingIInv, PageIInv, [PageNext]_allVars
    PROVE  ListingIInv' /\ Grows
<1>1. QueryIInv /\ touched \subseteq Tasks /\ Board \in BoardRefs
    BY BoardAssumption DEF ListingIInv, ListingTypeOK, BoardRefs
<1>2. ASSUME UNCHANGED listingVars PROVE ListingIInv' /\ Grows
    <2>1. UNCHANGED vars /\ listing' = listing /\ touched' = touched /\ view' = view /\ log' = log
        BY <1>2 DEF listingVars, vars
    <2>2. QueryIInv' /\ \A u : OnlyGrows(u)
        BY <1>1, <2>1, SameVars
    <2>3. touched \subseteq touched' /\ touched' \subseteq Tasks
        BY <1>1, <2>1
    <2>4. ListingIInv'
        BY <2>1, <2>2, <2>3, ListingGoesOn
    <2>5. QED
        BY <1>1, <2>1, <2>4, SameLogGrows
<1>3. ASSUME UNCHANGED vars, listing' = NoListing, touched' = {} PROVE ListingIInv' /\ Grows
    <2>1. QueryIInv' /\ (\A u : OnlyGrows(u)) /\ log' = log
        BY <1>1, <1>3, SameVars DEF vars
    <2>2. ListingIInv'
        BY <1>3, <2>1, ListingEnds
    <2>3. QED
        BY <1>1, <2>1, <2>2, SameLogGrows
<1>4. CASE TasksChange
    <2>1. PICK t \in Tasks : Publish(t) \/ Handle(t) \/ HandleFails(t)
        BY <1>4 DEF TasksChange
    <2>2. ListingIInv'
        BY <1>4, <2>1, ViewChangesListing DEF TasksChange
    <2>3. CASE Publish(t)
        BY <1>1, <2>2, <2>3, PublishWrites, WriteGrows
    <2>4. CASE Handle(t) \/ HandleFails(t)
        BY <1>1, <2>2, <2>4, SameLogGrows DEF Handle, HandleFails
    <2>5. QED
        BY <2>1, <2>3, <2>4
<1>5. CASE LoadTasks
    <2>1. FindByStatusBacklog(Board)
        BY <1>5 DEF LoadTasks
    <2>2. log' = log
        BY <2>1 DEF FindByStatusBacklog, vars
    <2>3. QED
        BY <1>1, <2>1, <2>2, FirstQuery, SameLogGrows
<1>6. CASE LoadTasksContinues
    <2>1. FindByBoardIdAndStatusNot
        BY <1>6 DEF LoadTasksContinues
    <2>2. log' = log
        BY <2>1 DEF FindByBoardIdAndStatusNot, vars
    <2>3. QED
        BY <1>1, <2>1, <2>2, SecondQuery, SameLogGrows
<1>7. CASE TasksLoaded \/ LoadTasksFails \/ LoadTasksRefused
    BY <1>3, <1>7 DEF TasksLoaded, LoadTasksFails, LoadTasksRefused
<1>8. CASE Connect \/ Disconnect \/ UNCHANGED allVars
    BY <1>2, <1>8 DEF Connect, Disconnect, allVars
<1>9. ASSUME NEW t \in Tasks, Receive(t) \/ Miss(t) PROVE ListingIInv' /\ Grows
    BY <1>2, <1>9 DEF Receive, Miss
<1>10. ASSUME NEW i \in DOMAIN tasks, NEW status \in TaskStatus, MoveTask(i, status)
       PROVE  ListingIInv' /\ Grows
    BY <1>2, <1>10 DEF MoveTask
<1>11. ASSUME NEW move \in moves, MoveStored(move) PROVE ListingIInv' /\ Grows
    BY <1>11, StoredMoveKeeps
<1>12. ASSUME NEW move \in moves, MoveFails(move) PROVE ListingIInv' /\ Grows
    BY <1>2, <1>12 DEF MoveFails
<1>13. QED
    BY <1>4, <1>5, <1>6, <1>7, <1>8, <1>9, <1>10, <1>11, <1>12 DEF PageNext

-----------------------------------------------------------------------------
(* The view and the answer.                                                *)

\* How much of a history was sent, asked and delivered, as numbers.
LEMMA CountsAreNumbers ==
    ASSUME PageIInv, NEW t \in Tasks
    PROVE  /\ log[t] \in Seq(TaskEvent) /\ Len(log[t]) \in Nat
           /\ sent[t] \in 0..Len(log[t])
           /\ asked[t] \in 0..Len(log[t])
           /\ delivered[t] \in Nat
<1>1. /\ log \in [Tasks -> Seq(TaskEvent)] /\ delivered \in [Tasks -> Nat]
      /\ sent \in [Tasks -> Nat] /\ asked \in [Tasks -> Nat]
    BY DEF PageIInv, PageTypeOK, ListingTypeOK, TypeOK
<1>2. /\ log[t] \in Seq(TaskEvent) /\ Len(log[t]) \in Nat
      /\ delivered[t] \in Nat /\ sent[t] \in Nat /\ asked[t] \in Nat
    BY <1>1
<1>3. sent[t] <= Len(log[t]) /\ asked[t] <= Len(log[t])
    BY DEF PageIInv, CountsAreInHistories
<1>4. QED
    BY <1>2, <1>3

\* A card on the page is a Card.
LEMMA CardsAreCards ==
    ASSUME PageIInv, NEW i \in DOMAIN tasks
    PROVE  tasks[i] \in Card /\ tasks[i].id \in Tasks
<1>1. tasks \in Seq(Card)
    BY DEF PageIInv, PageTypeOK
<1>2. tasks[i] \in Card
    BY <1>1
<1>3. QED
    BY <1>2 DEF Card

\* The view stays what it is a version of while histories grow.
LEMMA ViewGoesOn ==
    ASSUME QueryIInv, QueryIInv', Grows, ViewIsVersion, view' = view, delivered' = delivered
    PROVE  ViewIsVersion'
<1>1. \A t \in Tasks : delivered[t] \in 0..Len(log[t])
    BY DEF QueryIInv, TypeOK, DeliveryInOrder
<1>2. \A t \in Tasks : DocumentAt(log'[t], delivered[t]) = DocumentAt(log[t], delivered[t])
    BY <1>1, GrowthKeeps
<1>3. QED
    BY <1>2 DEF ViewIsVersion

(* The workflow leaves every document as its task was after the event.     *)
LEMMA HandleView ==
    ASSUME QueryIInv, Null \notin MoveBoards, ViewIsVersion, NEW t \in Tasks,
           Handle(t) \/ HandleFails(t)
    PROVE  ViewIsVersion'
<1> DEFINE n == delivered[t] + 1
           next == DocumentAt(log[t], n)
<1>1. n \in 1..Len(log[t]) /\ n - 1 = delivered[t]
    BY DEF Handle, HandleFails, QueryIInv, TypeOK
<1>2. view[t] = DocumentAt(log[t], n - 1)
    BY <1>1 DEF ViewIsVersion
<1>3. next = IF CanHandle(view[t], log[t][n]) THEN handle(view[t], log[t][n]) ELSE Null
    BY <1>1, <1>2, HandleMakesDocument
<1>4. /\ delivered' = [delivered EXCEPT ![t] = n] /\ log' = log
      /\ delivered \in [Tasks -> Nat] /\ view \in [Tasks -> Task \cup {Null}]
    BY DEF Handle, HandleFails, QueryIInv, TypeOK
<1>5. view'[t] = next /\ \A u \in Tasks \ {t} : view'[u] = view[u]
    <2>1. CASE Handle(t)
        <3>1. view' = [view EXCEPT ![t] = handle(view[t], log[t][n])] /\ CanHandle(view[t], log[t][n])
            BY <2>1 DEF Handle, Upcoming
        <3> HIDE DEF next, n
        <3>2. QED
            BY <1>3, <1>4, <3>1
    <2>2. CASE HandleFails(t)
        <3>1. view' = view /\ ~CanHandle(view[t], log[t][n])
            BY <2>2 DEF HandleFails, Upcoming
        <3>2. view[t] = Null
            BY <3>1 DEF CanHandle
        <3> HIDE DEF next, n
        <3>3. QED
            BY <1>3, <3>1, <3>2
    <2>3. QED
        BY <2>1, <2>2
<1> HIDE DEF n
<1>6. delivered'[t] = n /\ \A u \in Tasks \ {t} : delivered'[u] = delivered[u]
    BY <1>4
<1>7. QED
    BY <1>4, <1>5, <1>6 DEF ViewIsVersion

\* So does the answer to the load.
LEMMA AnswerGoesOn ==
    ASSUME PageIInv, QueryIInv, QueryIInv', Grows, AnswerIsVersionAsked,
           loading' = loading, asked' = asked, listing' = listing, touched \subseteq touched',
           listing.step = "half" => \A t \in Tasks \ touched' : view'[t] = view[t]
    PROVE  AnswerIsVersionAsked'
<1>1. \A t \in Tasks : DocumentAt(log'[t], asked[t]) = DocumentAt(log[t], asked[t])
    BY CountsAreNumbers, GrowthKeeps
<1>2. QED
    BY <1>1 DEF AnswerIsVersionAsked

-----------------------------------------------------------------------------
(* Steps that leave the cards alone.                                       *)

(* A message that names a column is to come.                               *)
Awaits(t) == \E k \in (sent[t] + 1)..Len(log'[t]) : log'[t][k].type # "TaskUpdatedEvent"

\* So does a task's card that the step leaves alone.
LEMMA CardsGoOn ==
    ASSUME PageIInv, QueryIInv, QueryIInv', Grows, NEW t \in Tasks, Follows(t),
           sent'[t] = sent[t], CardsStay(tasks, tasks', t),
           \A move \in moves : move.task = t =>
               Awaits(t) \/ \E other \in moves' : other.task = t
    PROVE  Follows(t)'
<1>1. DocumentAt(log'[t], sent[t]) = DocumentAt(log[t], sent[t])
    BY CountsAreNumbers, GrowthKeeps
<1>2. AtMostOnce(tasks, t)' /\ (sent[t]' = 0 => \A i \in DOMAIN tasks' : tasks'[i].id # t)
    BY DEF Follows, CardsStay
<1>3. ASSUME ShowAs(tasks, t, DocumentAt(log[t], sent[t]))
      PROVE  ShowAs(tasks', t, DocumentAt(log'[t], sent'[t]))
    BY <1>1, <1>3 DEF ShowAs, CardsStay
<1>4. ASSUME Correctable(t) PROVE Correctable(t)'
    <2>1. CASE \E k \in (sent[t] + 1)..Len(log[t]) : log[t][k].type # "TaskUpdatedEvent"
        <3>1. PICK k \in (sent[t] + 1)..Len(log[t]) : log[t][k].type # "TaskUpdatedEvent"
            BY <2>1
        <3>2. Len(log[t]) \in Nat /\ sent[t] \in Nat /\ Len(log'[t]) \in Nat
            BY CountsAreNumbers DEF QueryIInv, TypeOK
        <3>3. k \in (sent[t] + 1)..Len(log'[t]) /\ log'[t][k] = log[t][k]
            BY <3>2 DEF Grows
        <3>4. QED
            BY <3>1, <3>3 DEF Correctable
    <2>2. CASE \E move \in moves : move.task = t
        BY <2>2 DEF Correctable, Awaits
    <2>3. QED
        BY <1>4, <2>1, <2>2 DEF Correctable
<1>5. QED
    BY <1>2, <1>3, <1>4 DEF Follows

\* Together: what every step keeps that leaves cards and answer alone.
LEMMA PageGoesOn ==
    ASSUME ListingIInv, PageIInv, ListingIInv', Grows,
           UNCHANGED <<tasks, loading, sent, asked, raced, listing>>,
           connection' \in {"connecting", "open", "closed"},
           moves' \subseteq moves, missed \subseteq missed', missed' \subseteq Tasks,
           touched \subseteq touched',
           listing.step = "half" => \A t \in Tasks \ touched' : view'[t] = view[t],
           Null \notin MoveBoards => ViewIsVersion',
           \A move \in moves : move \in moves' \/ move.task \in missed' \/ Awaits(move.task)
    PROVE  PageIInv'
<1>1. QueryIInv /\ QueryIInv'
    BY DEF ListingIInv
<1>2. /\ tasks' = tasks /\ loading' = loading /\ sent' = sent /\ asked' = asked
      /\ raced' = raced /\ listing' = listing
    OBVIOUS
<1>3. PageTypeOK'
    <2>1. ListingTypeOK'
        BY DEF ListingIInv
    <2>2. moves' \in SUBSET Move
        BY DEF PageIInv, PageTypeOK
    <2>3. QED
        BY <1>2, <2>1, <2>2 DEF PageIInv, PageTypeOK
<1>4. ShowsOnlyItsBoard' /\ AnswerIsOwn'
    BY <1>2 DEF PageIInv, ShowsOnlyItsBoard, AnswerIsOwn
<1>5. CardsAreOfTasks'
    <2>1. \A t \in Tasks : log[t] # <<>> => log'[t] # <<>>
        BY <1>1, GrowthKeeps
    <2>2. \A i \in DOMAIN tasks : tasks[i].id \in Tasks
        BY CardsAreCards
    <2>3. \A move \in moves : move.task \in Tasks
        BY DEF PageIInv, PageTypeOK, Move
    <2>4. QED
        BY <1>2, <2>1, <2>2, <2>3 DEF PageIInv, CardsAreOfTasks
<1>6. CountsAreInHistories'
    <2>1. \A t \in Tasks : /\ Len(log[t]) \in Nat /\ Len(log'[t]) \in Nat
                           /\ Len(log[t]) <= Len(log'[t])
                           /\ sent[t] \in Nat /\ asked[t] \in Nat
        BY <1>1, CountsAreNumbers DEF QueryIInv, TypeOK, Grows
    <2>2. QED
        BY <1>2, <2>1 DEF PageIInv, CountsAreInHistories
<1>7. ASSUME Null \notin MoveBoards
      PROVE  ViewIsVersion' /\ AnswerIsVersionAsked' /\ PageFollows'
    <2>1. AnswerIsVersionAsked'
        BY <1>1, <1>2, <1>7, AnswerGoesOn DEF PageIInv
    <2>2. ASSUME loading = "loaded", NEW t \in Tasks, t \notin missed' \cup raced,
                 ~TouchedAfterDeletion(t)'
          PROVE  Follows(t)'
        <3>1. ~TouchedAfterDeletion(t)
            BY <1>1, <2>2, GrowthKeeps
        <3>2. Follows(t)
            BY <1>7, <2>2, <3>1 DEF PageIInv, PageFollows
        <3>3. CardsStay(tasks, tasks', t)
            BY <1>2 DEF CardsStay
        <3>4. \A move \in moves : move.task = t =>
                 Awaits(t) \/ \E other \in moves' : other.task = t
            BY <2>2
        <3>5. sent'[t] = sent[t]
            BY <1>2
        <3>6. QED
            BY <1>1, <3>2, <3>3, <3>4, <3>5, CardsGoOn
    <2>3. PageFollows'
        BY <1>2, <2>2 DEF PageFollows
    <2>4. QED
        BY <1>7, <2>1, <2>3
<1>8. QED
    BY <1>3, <1>4, <1>5, <1>6, <1>7 DEF PageIInv

\* Other users' events, and the workflow.
LEMMA TasksChangePage ==
    ASSUME ListingIInv, PageIInv, ListingIInv', Grows, TasksChange
    PROVE  PageIInv'
<1>1. PICK t \in Tasks : Publish(t) \/ Handle(t) \/ HandleFails(t)
    BY DEF TasksChange
<1>2. /\ UNCHANGED <<tasks, loading, sent, asked, raced, listing>>
      /\ connection' = connection /\ moves' = moves /\ missed' = missed
      /\ touched' = IF listing.step = "half"
                    THEN touched \cup {u \in Tasks : view'[u] # view[u]} ELSE touched
    BY DEF TasksChange, Touch, pageVars
<1>3. /\ connection' \in {"connecting", "open", "closed"}
      /\ missed' \subseteq Tasks
      /\ touched \subseteq touched'
      /\ listing.step = "half" => \A u \in Tasks \ touched' : view'[u] = view[u]
    BY <1>2 DEF PageIInv, PageTypeOK
<1>4. ASSUME Null \notin MoveBoards PROVE ViewIsVersion'
    <2>1. QueryIInv /\ QueryIInv' /\ ViewIsVersion
        BY <1>4 DEF ListingIInv, PageIInv
    <2>2. CASE Publish(t)
        BY <2>1, <2>2, ViewGoesOn DEF Publish
    <2>3. CASE Handle(t) \/ HandleFails(t)
        BY <1>4, <2>1, <2>3, HandleView
    <2>4. QED
        BY <1>1, <2>2, <2>3
<1>5. QED
    BY <1>2, <1>3, <1>4, PageGoesOn

\* A move of this page is stored: its message is to come.
LEMMA MoveStoredPage ==
    ASSUME ListingIInv, PageIInv, ListingIInv', Grows, NEW move \in moves, MoveStored(move)
    PROVE  PageIInv'
<1>1. PICK event \in TaskEvent : Writes(move.task, event) /\ event.type # "TaskUpdatedEvent"
    BY MoveWrites
<1>2. /\ UNCHANGED <<tasks, loading, sent, asked, raced, listing>>
      /\ connection' = connection /\ moves' = moves \ {move} /\ missed' = missed
      /\ touched' = touched /\ view' = view /\ delivered' = delivered
    BY DEF MoveStored
<1>3. /\ connection' \in {"connecting", "open", "closed"}
      /\ missed' \subseteq Tasks
    BY <1>2 DEF PageIInv, PageTypeOK
<1>4. QueryIInv /\ QueryIInv' /\ move.task \in Tasks
    BY MoveWrites DEF ListingIInv
<1>5. ASSUME Null \notin MoveBoards PROVE ViewIsVersion'
    BY <1>2, <1>4, <1>5, ViewGoesOn DEF PageIInv
<1>6. Awaits(move.task)
    <2> DEFINE t == move.task
               n == Len(log[t])
    <2>1. Len(log'[t]) = n + 1 /\ log'[t][n + 1] = event
        BY <1>1, <1>4, WriteKeepsVersions
    <2>2. n \in Nat /\ sent[t] \in 0..n
        BY <1>4, CountsAreNumbers
    <2> HIDE DEF t, n
    <2>3. n + 1 \in (sent[t] + 1)..Len(log'[t])
        BY <2>1, <2>2
    <2>4. QED
        BY <1>1, <2>1, <2>3 DEF Awaits, t
<1>7. \A other \in moves : other \in moves' \/ Awaits(other.task)
    BY <1>2, <1>6
<1>8. moves' \subseteq moves /\ missed \subseteq missed' /\ touched \subseteq touched'
    BY <1>2
<1>9. \A u \in Tasks \ touched' : view'[u] = view[u]
    BY <1>2
<1>10. QED
    BY <1>2, <1>3, <1>5, <1>7, <1>8, <1>9, PageGoesOn

\* Steps that change neither tasks nor cards: Connect, Disconnect, MoveFails.
LEMMA QuietPage ==
    ASSUME ListingIInv, PageIInv, ListingIInv', Grows, UNCHANGED listingVars,
           UNCHANGED <<tasks, loading, sent, asked, raced>>,
           connection' \in {"connecting", "open", "closed"},
           moves' \subseteq moves, missed \subseteq missed', missed' \subseteq Tasks,
           \A move \in moves : move \in moves' \/ move.task \in missed'
    PROVE  PageIInv'
<1>1. listing' = listing /\ touched' = touched /\ view' = view /\ delivered' = delivered
    BY DEF listingVars
<1>2. ASSUME Null \notin MoveBoards PROVE ViewIsVersion'
    BY <1>1, <1>2, ViewGoesOn DEF PageIInv, ListingIInv
<1>3. touched \subseteq touched' /\ \A u \in Tasks \ touched' : view'[u] = view[u]
    BY <1>1
<1>4. QED
    BY <1>1, <1>2, <1>3, PageGoesOn

-----------------------------------------------------------------------------
(* Messages and drags.                                                     *)

(* What of PageIInv is about the listing, while the page goes its way.     *)
LEMMA ListingPart ==
    ASSUME ListingIInv, PageIInv, ListingIInv', Grows, UNCHANGED listingVars,
           UNCHANGED <<loading, asked>>
    PROVE  /\ AnswerIsOwn'
           /\ Null \notin MoveBoards => ViewIsVersion' /\ AnswerIsVersionAsked'
<1>1. /\ listing' = listing /\ touched' = touched /\ view' = view /\ delivered' = delivered
      /\ loading' = loading /\ asked' = asked
    BY DEF listingVars
<1>2. AnswerIsOwn'
    BY <1>1 DEF PageIInv, AnswerIsOwn
<1>3. ASSUME Null \notin MoveBoards PROVE ViewIsVersion' /\ AnswerIsVersionAsked'
    <2>1. QueryIInv /\ QueryIInv' /\ ViewIsVersion /\ AnswerIsVersionAsked
        BY <1>3 DEF PageIInv, ListingIInv
    <2>2. ViewIsVersion'
        BY <1>1, <2>1, ViewGoesOn
    <2>3. touched \subseteq touched' /\ \A u \in Tasks \ touched' : view'[u] = view[u]
        BY <1>1
    <2>4. AnswerIsVersionAsked'
        BY <1>1, <2>1, <2>3, AnswerGoesOn
    <2>5. QED
        BY <2>2, <2>4
<1>4. QED
    BY <1>2, <1>3

\* A message is missed, and its task with it.
LEMMA MissPage ==
    ASSUME ListingIInv, PageIInv, ListingIInv', Grows, NEW t \in Tasks, Miss(t)
    PROVE  PageIInv'
<1>1. /\ UNCHANGED listingVars /\ UNCHANGED <<loading, asked>>
      /\ tasks' = tasks /\ loading' = loading /\ connection' = connection
      /\ moves' = moves /\ asked' = asked /\ raced' = raced
      /\ log' = log /\ sent[t] < Len(log[t])
      /\ sent' = [sent EXCEPT ![t] = @ + 1] /\ missed' = missed \cup {t}
    BY DEF Miss, listingVars
<1>2. sent \in [Tasks -> Nat] /\ missed \subseteq Tasks
    BY DEF PageIInv, PageTypeOK
<1>3. PageTypeOK'
    <2>1. ListingTypeOK'
        BY DEF ListingIInv
    <2>2. sent' \in [Tasks -> Nat] /\ missed' \in SUBSET Tasks
        BY <1>1, <1>2
    <2>3. QED
        BY <1>1, <2>1, <2>2 DEF PageIInv, PageTypeOK
<1>4. ShowsOnlyItsBoard' /\ CardsAreOfTasks'
    BY <1>1 DEF PageIInv, ShowsOnlyItsBoard, CardsAreOfTasks
<1>5. sent'[t] = sent[t] + 1 /\ \A u \in Tasks \ {t} : sent'[u] = sent[u]
    BY <1>1, <1>2
<1>6. CountsAreInHistories'
    <2>1. Len(log[t]) \in Nat /\ sent[t] \in Nat
        BY CountsAreNumbers
    <2>2. sent'[t] <= Len(log[t])
        BY <1>1, <1>5, <2>1
    <2>3. QED
        BY <1>1, <1>5, <2>2 DEF PageIInv, CountsAreInHistories
<1>7. ASSUME Null \notin MoveBoards PROVE PageFollows'
    <2> SUFFICES ASSUME loading = "loaded", NEW u \in Tasks, u \notin missed' \cup raced,
                        ~TouchedAfterDeletion(u)'
                 PROVE  Follows(u)'
        BY <1>1 DEF PageFollows
    <2>1. u # t /\ u \notin missed /\ ~TouchedAfterDeletion(u)
        BY <1>1 DEF TouchedAfterDeletion
    <2>2. Follows(u)
        BY <1>7, <2>1 DEF PageIInv, PageFollows
    <2>3. CardsStay(tasks, tasks', u)
        BY <1>1 DEF CardsStay
    <2>4. QED
        BY <1>1, <1>5, <2>1, <2>2, <2>3, CardsGoOn DEF ListingIInv
<1>8. QED
    BY <1>1, <1>3, <1>4, <1>6, <1>7, ListingPart DEF PageIInv

\* A drop: until its PUT is answered, the move decides anew.
LEMMA MoveTaskPage ==
    ASSUME ListingIInv, PageIInv, ListingIInv', Grows,
           NEW i \in DOMAIN tasks, NEW status \in TaskStatus, MoveTask(i, status)
    PROVE  PageIInv'
<1> DEFINE card == [tasks[i] EXCEPT !.status = status, !.boardId = Board]
           t == tasks[i].id
           move == [task |-> t, status |-> status]
<1>1. tasks \in Seq(Card) /\ tasks[i] \in Card /\ t \in Tasks
    BY CardsAreCards DEF PageIInv, PageTypeOK
<1>2. card \in Card /\ card.id = t /\ card.status = status /\ card.boardId = Board
    BY <1>1, BoardAssumption DEF Card, BoardRefs
<1>3. /\ UNCHANGED listingVars /\ UNCHANGED <<loading, asked>>
      /\ loading' = loading /\ connection' = connection /\ sent' = sent
      /\ asked' = asked /\ raced' = raced /\ missed' = missed /\ log' = log
      /\ tasks' = [tasks EXCEPT ![i] = card]
      /\ moves' = moves \cup {move}
    BY <1>1 DEF MoveTask, listingVars
<1>4. move \in Move /\ move.task = t
    BY <1>1 DEF Move
<1> HIDE DEF card, t, move
<1>5. /\ tasks' \in Seq(Card) /\ DOMAIN tasks' = DOMAIN tasks
      /\ tasks'[i] = card
      /\ \A j \in DOMAIN tasks : j # i => tasks'[j] = tasks[j]
      /\ \A u : AtMostOnce(tasks, u) => AtMostOnce(tasks', u)
      /\ \A u : u # t => CardsStay(tasks, tasks', u)
    <2>1. card.id = tasks[i].id
        BY <1>2 DEF t
    <2>2. QED
        BY <1>1, <1>2, <1>3, <2>1, ReplaceProperties
<1>6. \A j \in DOMAIN tasks : tasks'[j].id = tasks[j].id
    BY <1>2, <1>5 DEF t
<1>7. PageTypeOK'
    <2>1. ListingTypeOK'
        BY DEF ListingIInv
    <2>2. moves' \in SUBSET Move
        BY <1>3, <1>4 DEF PageIInv, PageTypeOK
    <2>3. QED
        BY <1>3, <1>5, <2>1, <2>2 DEF PageIInv, PageTypeOK
<1>8. ShowsOnlyItsBoard'
    BY <1>2, <1>5 DEF PageIInv, ShowsOnlyItsBoard
<1>9. CardsAreOfTasks'
    <2>1. log[t] # <<>>
        BY DEF PageIInv, CardsAreOfTasks, t
    <2>2. QED
        BY <1>3, <1>4, <1>5, <1>6, <2>1 DEF PageIInv, CardsAreOfTasks
<1>10. CountsAreInHistories'
    BY <1>3 DEF PageIInv, CountsAreInHistories
<1>11. ASSUME Null \notin MoveBoards PROVE PageFollows'
    <2> SUFFICES ASSUME loading = "loaded", NEW u \in Tasks, u \notin missed \cup raced,
                        ~TouchedAfterDeletion(u)'
                 PROVE  Follows(u)'
        BY <1>3 DEF PageFollows
    <2>1. ~TouchedAfterDeletion(u)
        BY <1>3 DEF TouchedAfterDeletion
    <2>2. Follows(u)
        BY <1>11, <2>1 DEF PageIInv, PageFollows
    <2>3. CASE u = t
        <3>1. AtMostOnce(tasks, u)'
            BY <1>5, <2>2 DEF Follows
        <3>2. sent[u]' = 0 => \A j \in DOMAIN tasks' : tasks'[j].id # u
            BY <1>3, <1>5, <1>6, <2>2 DEF Follows
        <3>3. Correctable(u)'
            BY <1>3, <1>4, <2>3 DEF Correctable
        <3>4. QED
            BY <3>1, <3>2, <3>3 DEF Follows
    <2>4. CASE u # t
        BY <1>3, <1>5, <2>2, <2>4, CardsGoOn DEF ListingIInv
    <2>5. QED
        BY <2>3, <2>4
<1>12. QED
    BY <1>3, <1>7, <1>8, <1>9, <1>10, <1>11, ListingPart DEF PageIInv

\* A message with a column puts the card right; others leave it in its column.
LEMMA ReceivePage ==
    ASSUME ListingIInv, PageIInv, ListingIInv', Grows, NEW t \in Tasks, Receive(t)
    PROVE  PageIInv'
<1> DEFINE n == sent[t] + 1
           event == log[t][n]
<1>1. /\ UNCHANGED listingVars /\ UNCHANGED <<loading, asked>>
      /\ loading' = loading /\ connection' = connection /\ moves' = moves
      /\ asked' = asked /\ log' = log
      /\ tasks' = taskUpdatedEventHandler(tasks, t, event)
      /\ sent' = [sent EXCEPT ![t] = n]
      /\ raced' \subseteq raced /\ missed' \subseteq missed
      /\ \A u \in Tasks \ {t} :
            (u \in raced => u \in raced') /\ (u \in missed => u \in missed')
      /\ event.type # "TaskDeletedEvent" => raced' = raced /\ missed' = missed
      /\ sent[t] < Len(log[t])
    BY DEF Receive, NextSent, listingVars
<1>2. /\ tasks \in Seq(Card) /\ sent \in [Tasks -> Nat]
      /\ raced \subseteq Tasks /\ missed \subseteq Tasks
    BY DEF PageIInv, PageTypeOK
<1>3. QueryIInv /\ QueryIInv'
    BY DEF ListingIInv
<1>4. n \in 1..Len(log[t]) /\ n # 0 /\ n - 1 = sent[t] /\ sent[t] \in Nat /\ Len(log[t]) \in Nat
    BY <1>1, CountsAreNumbers
<1>5. /\ event \in TaskEvent
      /\ event.type = "TaskCreatedEvent" => n = 1 /\ event.taskInfo.status = "backlog"
      /\ DeletedBy(t, n) <=> DeletedBy(t, n - 1) \/ event.type = "TaskDeletedEvent"
    BY <1>3, <1>4, EventMakesVersion
<1>6. OnlyOfBoard(tasks)
    BY DEF PageIInv, ShowsOnlyItsBoard, OnlyOfBoard, OfBoard
<1>7. /\ tasks' \in Seq(Card)
      /\ OnlyOfBoard(tasks')
      /\ \A u : u # t => CardsStay(tasks, tasks', u)
      /\ event.type = "TaskDeletedEvent" => None(tasks', t)
    BY <1>1, <1>2, <1>5, <1>6, HandlerProperties
<1>8. sent'[t] = n /\ \A u \in Tasks \ {t} : sent'[u] = sent[u]
    BY <1>1, <1>2
<1>9. PageTypeOK'
    <2>1. ListingTypeOK'
        BY DEF ListingIInv
    <2>2. sent' \in [Tasks -> Nat]
        BY <1>1, <1>2, <1>4
    <2>3. QED
        BY <1>1, <1>2, <1>7, <2>1, <2>2 DEF PageIInv, PageTypeOK
<1>10. ShowsOnlyItsBoard'
    BY <1>7 DEF ShowsOnlyItsBoard, OnlyOfBoard, OfBoard
<1>11. CardsAreOfTasks'
    <2>1. log[t] # <<>>
        BY <1>4
    <2>2. \A i \in DOMAIN tasks' : log[tasks'[i].id] # <<>>
        <3> SUFFICES ASSUME NEW i \in DOMAIN tasks', tasks'[i].id # t
                     PROVE  log[tasks'[i].id] # <<>>
            BY <2>1
        <3>1. PICK j \in DOMAIN tasks : tasks[j] = tasks'[i]
            BY <1>7 DEF CardsStay
        <3>2. log[tasks[j].id] # <<>>
            BY DEF PageIInv, CardsAreOfTasks
        <3>3. QED
            BY <3>1, <3>2
    <2>3. QED
        BY <1>1, <2>2 DEF PageIInv, CardsAreOfTasks
<1>12. CountsAreInHistories'
    BY <1>1, <1>4, <1>8 DEF PageIInv, CountsAreInHistories
<1>13. ASSUME Null \notin MoveBoards PROVE PageFollows'
    <2> SUFFICES ASSUME loading = "loaded", NEW u \in Tasks, u \notin missed' \cup raced',
                        ~TouchedAfterDeletion(u)'
                 PROVE  Follows(u)'
        BY <1>1 DEF PageFollows
    <2> HIDE DEF n, event
    <2>1. ~TouchedAfterDeletion(u)
        BY <1>1 DEF TouchedAfterDeletion
    <2>2. CASE u # t
        <3>1. u \notin missed \cup raced
            BY <1>1, <2>2
        <3>2. Follows(u)
            BY <1>13, <2>1, <3>1 DEF PageIInv, PageFollows
        <3>3. QED
            BY <1>1, <1>3, <1>7, <1>8, <2>2, <3>2, CardsGoOn
    <2>3. CASE u = t /\ event.type = "TaskDeletedEvent"
        <3>1. None(tasks', t)
            BY <1>7, <2>3
        <3>2. DocumentAt(log[t], n) = Null
            <4>1. n \in 0..Len(log[t])
                BY <1>4
            <4>2. QED
                BY <1>3, <1>5, <2>3, <4>1, DocumentIsTask
        <3>3. AtMostOnce(tasks', t) /\ ShowAs(tasks', t, DocumentAt(log[t], n))
            BY <3>1, <3>2 DEF None, AtMostOnce, ShowAs, Visible
        <3>4. QED
            BY <1>1, <1>4, <1>8, <2>3, <3>3 DEF Follows
    <2>4. CASE u = t /\ event.type # "TaskDeletedEvent"
        <3>1. Follows(t)
            BY <1>1, <1>13, <2>1, <2>4 DEF PageIInv, PageFollows
        <3>2. AtMostOnce(tasks, t) /\ (n = 1 => None(tasks, t))
            BY <1>4, <3>1 DEF Follows, None
        <3>3. /\ AtMostOnce(tasks', t)
              /\ event.type # "TaskUpdatedEvent" \/ ShowAs(tasks, t, DocumentAt(log[t], n - 1))
                    => ShowAs(tasks', t, DocumentAt(log[t], n))
            BY <1>1, <1>2, <1>3, <1>4, <1>6, <1>13, <2>1, <2>4, <3>2, MessageShows DEF event
        <3>4. ASSUME event.type = "TaskUpdatedEvent", Correctable(t)
              PROVE  Correctable(t)'
            <4>1. CASE \E k \in (sent[t] + 1)..Len(log[t]) : log[t][k].type # "TaskUpdatedEvent"
                <5>1. PICK k \in (sent[t] + 1)..Len(log[t]) : log[t][k].type # "TaskUpdatedEvent"
                    BY <4>1
                <5>2. k # n
                    BY <3>4, <5>1 DEF event
                <5>3. k \in (n + 1)..Len(log[t])
                    BY <1>4, <5>2
                <5>4. QED
                    BY <1>1, <1>8, <5>1, <5>3 DEF Correctable
            <4>2. CASE \E move \in moves : move.task = t
                BY <1>1, <4>2 DEF Correctable
            <4>3. QED
                BY <3>4, <4>1, <4>2 DEF Correctable
        <3>5. ShowAs(tasks', t, DocumentAt(log'[t], sent'[t])) \/ Correctable(t)'
            BY <1>1, <1>4, <1>8, <3>1, <3>3, <3>4 DEF Follows
        <3>6. QED
            BY <1>4, <1>8, <2>4, <3>3, <3>5 DEF Follows
    <2>5. QED
        BY <2>2, <2>3, <2>4
<1>14. QED
    BY <1>1, <1>9, <1>10, <1>11, <1>12, <1>13, ListingPart DEF PageIInv

-----------------------------------------------------------------------------
(* Loading.                                                                *)

\* The load asks: what its first query finds is the view's version.
LEMMA LoadTasksPage ==
    ASSUME ListingIInv, PageIInv, ListingIInv', Grows, LoadTasks
    PROVE  PageIInv'
<1>1. /\ tasks' = tasks /\ loading' = "asked" /\ connection' = connection /\ sent' = sent
      /\ moves' = moves /\ raced' = raced /\ missed' = missed /\ asked' = delivered
      /\ log' = log /\ view' = view /\ delivered' = delivered
      /\ listing'.step = "half" /\ listing'.boardId = Board
    BY DEF LoadTasks, FindByStatusBacklog, vars
<1>2. PageTypeOK'
    <2>1. ListingTypeOK'
        BY DEF ListingIInv
    <2>2. delivered \in [Tasks -> Nat]
        BY DEF ListingIInv, QueryIInv, TypeOK
    <2>3. QED
        BY <1>1, <2>1, <2>2 DEF PageIInv, PageTypeOK
<1>3. ShowsOnlyItsBoard' /\ CardsAreOfTasks'
    BY <1>1 DEF PageIInv, ShowsOnlyItsBoard, CardsAreOfTasks
<1>4. CountsAreInHistories'
    BY <1>1 DEF PageIInv, CountsAreInHistories, ListingIInv, QueryIInv, DeliveryInOrder
<1>5. AnswerIsOwn' /\ PageFollows'
    BY <1>1 DEF AnswerIsOwn, PageFollows
<1>6. ASSUME Null \notin MoveBoards PROVE ViewIsVersion' /\ AnswerIsVersionAsked'
    BY <1>1, <1>6 DEF PageIInv, ViewIsVersion, AnswerIsVersionAsked
<1>7. QED
    BY <1>2, <1>3, <1>4, <1>5, <1>6 DEF PageIInv

\* Its second query finds what is left of that version.
LEMMA LoadTasksContinuesPage ==
    ASSUME ListingIInv, PageIInv, ListingIInv', Grows, LoadTasksContinues
    PROVE  PageIInv'
<1>1. /\ tasks' = tasks /\ loading' = loading /\ connection' = connection /\ sent' = sent
      /\ moves' = moves /\ raced' = raced /\ missed' = missed /\ asked' = asked
      /\ log' = log /\ view' = view /\ delivered' = delivered /\ touched' = touched
      /\ listing.step = "half"
      /\ listing' = [listing EXCEPT !.step = "done", !.tasks = Found(OnBoard)]
    BY SecondQueryFinds DEF LoadTasksContinues, pageVars, vars
<1>2. listing \in Listing
    BY DEF ListingIInv, ListingTypeOK
<1>3. /\ listing'.step = "done" /\ listing'.boardId = listing.boardId
      /\ listing'.backlog = listing.backlog /\ listing'.tasks = Found(OnBoard)
    BY <1>1, <1>2 DEF Listing
<1>4. PageTypeOK'
    <2>1. ListingTypeOK'
        BY DEF ListingIInv
    <2>2. QED
        BY <1>1, <2>1 DEF PageIInv, PageTypeOK
<1>5. ShowsOnlyItsBoard' /\ CardsAreOfTasks' /\ CountsAreInHistories' /\ AnswerIsOwn'
    BY <1>1, <1>3
    DEF PageIInv, ShowsOnlyItsBoard, CardsAreOfTasks, CountsAreInHistories, AnswerIsOwn
<1>6. ASSUME Null \notin MoveBoards PROVE ViewIsVersion' /\ AnswerIsVersionAsked' /\ PageFollows'
    <2>1. ViewIsVersion'
        BY <1>1, <1>6 DEF PageIInv, ViewIsVersion
    <2>2. PageFollows'
        <3>1. \A t : Follows(t)' <=> Follows(t)
            BY <1>1 DEF Follows, Correctable
        <3>2. \A t : TouchedAfterDeletion(t)' <=> TouchedAfterDeletion(t)
            BY <1>1 DEF TouchedAfterDeletion
        <3>3. QED
            BY <1>1, <1>6, <3>1, <3>2 DEF PageIInv, PageFollows
    <2>3. ASSUME loading = "asked", NEW t \in Tasks, t \notin touched,
                 NEW doc, doc = DocumentAt(log[t], asked[t])
          PROVE  /\ \A e \in listing.backlog \cup Found(OnBoard) : e.id = t => e.task = doc
                 /\ Visible(doc, Board) =>
                       [id |-> t, task |-> doc] \in listing.backlog \cup Found(OnBoard)
        <3>1. view[t] = doc /\ listing.boardId = Board
            BY <1>1, <1>6, <2>3 DEF PageIInv, AnswerIsVersionAsked, AnswerIsOwn
        <3>2. /\ \A e \in listing.backlog : e.id \notin touched => view[e.id] = e.task
              /\ \A u \in Stored \ touched :
                    view[u].status = "backlog" => [id |-> u, task |-> view[u]] \in listing.backlog
            BY <1>1 DEF ListingIInv, BacklogFollows
        <3>3. \A e \in Found(OnBoard) : e.task = view[e.id]
            BY DEF Found
        <3>4. ASSUME Visible(doc, Board), doc.status # "backlog"
              PROVE  [id |-> t, task |-> view[t]] \in Found(OnBoard)
            <4>1. t \in OnBoard
                BY <3>1, <3>4 DEF OnBoard, Stored, Visible
            <4>2. QED
                BY <4>1 DEF Found
        <3>5. ASSUME Visible(doc, Board), doc.status = "backlog"
              PROVE  [id |-> t, task |-> view[t]] \in listing.backlog
            BY <2>3, <3>1, <3>2, <3>5 DEF Stored, Visible
        <3>6. \A e \in listing.backlog \cup Found(OnBoard) : e.id = t => e.task = doc
            BY <2>3, <3>1, <3>2, <3>3
        <3>7. QED
            BY <3>1, <3>4, <3>5, <3>6
    <2>4. AnswerIsVersionAsked'
        BY <1>1, <1>3, <2>3 DEF AnswerIsVersionAsked
    <2>5. QED
        BY <2>1, <2>2, <2>4
<1>7. QED
    BY <1>4, <1>5, <1>6 DEF PageIInv

(* The cards of an answer.                                                 *)
LEMMA CardsProperties ==
    ASSUME NEW entries \in SUBSET Entry, IsFiniteSet(entries),
           NEW cards, cards = Cards(entries)
    PROVE  /\ cards \in Seq(Card)
           /\ \A i \in DOMAIN cards : \E e \in entries : cards[i] = CardOf(e)
           /\ \A e \in entries : \E i \in DOMAIN cards : cards[i] = CardOf(e)
           /\ \A i, j \in DOMAIN cards : cards[i] = cards[j] => i = j
<1> DEFINE all == {CardOf(e) : e \in entries}
           card == [e \in entries |-> CardOf(e)]
<1>1. card \in Surjection(entries, all)
    BY DEF Surjection
<1>2. \A e \in entries : CardOf(e) \in Card
    BY DEF CardOf, Entry, Task, Card
<1>3. cards = SetToSeq(all) /\ \A c \in all : c \in Card
    BY <1>2 DEF Cards
<1>4. /\ \A c \in all : \E e \in entries : c = CardOf(e)
      /\ \A e \in entries : CardOf(e) \in all
    OBVIOUS
<1> HIDE DEF all, card
<1>5. IsFiniteSet(all)
    BY <1>1, FS_Surjection
<1>6. cards \in Seq(all) /\ Once(cards) /\ Elements(cards) = all
    BY <1>3, <1>5, SetToSeqProperties
<1>7. cards \in Seq(Card)
    BY <1>3, <1>6
<1>8. QED
    BY <1>4, <1>6, <1>7 DEF Once, Elements

\* The two parts of an answer, one after the other.
LEMMA ConcatCards ==
    ASSUME NEW front \in Seq(Card), NEW back \in Seq(Card),
           NEW cards, cards = front \o back
    PROVE  /\ cards \in Seq(Card)
           /\ \A i \in DOMAIN cards : \/ \E j \in DOMAIN front : cards[i] = front[j]
                                      \/ \E j \in DOMAIN back : cards[i] = back[j]
           /\ \A j \in DOMAIN front : \E i \in DOMAIN cards : cards[i] = front[j]
           /\ \A j \in DOMAIN back : \E i \in DOMAIN cards : cards[i] = back[j]
           /\ \A t : /\ AtMostOnce(front, t) /\ AtMostOnce(back, t)
                     /\ None(front, t) \/ None(back, t)
                     => AtMostOnce(cards, t)
<1> DEFINE m == Len(front)
           n == Len(back)
<1>1. /\ m \in Nat /\ n \in Nat /\ DOMAIN front = 1..m /\ DOMAIN back = 1..n
      /\ cards \in Seq(Card) /\ Len(cards) = m + n
    BY ConcatProperties
<1>2. DOMAIN cards = 1..(m + n)
    BY <1>1, LenProperties
<1>3. /\ \A i \in 1..m : cards[i] = front[i]
      /\ \A j \in 1..n : cards[m + j] = back[j]
    OBVIOUS
<1> HIDE DEF m, n
<1>4. \A i \in DOMAIN cards : i \in 1..m \/ (i - m \in 1..n /\ i = m + (i - m))
    BY <1>1, <1>2
<1>5. /\ \A i \in 1..m : i \in DOMAIN cards
      /\ \A j \in 1..n : m + j \in DOMAIN cards
    BY <1>1, <1>2
<1>6. \A i \in DOMAIN cards : \/ i \in DOMAIN front /\ cards[i] = front[i]
                              \/ /\ i - m \in DOMAIN back /\ i = m + (i - m)
                                 /\ cards[i] = back[i - m]
    BY <1>1, <1>3, <1>4
<1>7. ASSUME NEW t, AtMostOnce(front, t), AtMostOnce(back, t),
             None(front, t) \/ None(back, t)
      PROVE  AtMostOnce(cards, t)
    <2> SUFFICES ASSUME NEW i \in DOMAIN cards, NEW j \in DOMAIN cards,
                        cards[i].id = t, cards[j].id = t
                 PROVE  i = j
        BY DEF AtMostOnce
    <2>1. CASE None(back, t)
        <3>1. /\ i \in DOMAIN front /\ front[i].id = t
              /\ j \in DOMAIN front /\ front[j].id = t
            BY <1>6, <2>1 DEF None
        <3>2. QED
            BY <1>7, <3>1 DEF AtMostOnce
    <2>2. CASE None(front, t)
        <3>1. /\ i - m \in DOMAIN back /\ back[i - m].id = t /\ i = m + (i - m)
              /\ j - m \in DOMAIN back /\ back[j - m].id = t /\ j = m + (j - m)
            BY <1>6, <2>2 DEF None
        <3>2. i - m = j - m
            BY <1>7, <3>1 DEF AtMostOnce
        <3>3. QED
            BY <3>1, <3>2
    <2>3. QED
        BY <1>7, <2>1, <2>2
<1>8. QED
    BY <1>1, <1>3, <1>5, <1>6, <1>7

(* Changes of the title leave a task where it is.                          *)
LEMMA UpdatesKeepColumn ==
    ASSUME QueryIInv, NEW t \in Tasks, NEW m \in 0..Len(log[t]), NEW n \in m..Len(log[t]),
           m = 0 => n = 0,
           \A k \in (m + 1)..n : log[t][k].type = "TaskUpdatedEvent",
           NEW old, old = DocumentAt(log[t], m), NEW doc, doc = DocumentAt(log[t], n)
    PROVE  /\ old = Null <=> doc = Null
           /\ doc # Null => doc.status = old.status /\ doc.boardId = old.boardId
<1>1. Len(log[t]) \in Nat /\ m \in Nat /\ n \in Nat /\ m <= n /\ n \in 0..Len(log[t])
    BY DEF QueryIInv, TypeOK
<1>2. CASE m = 0
    BY <1>2, <1>1
<1>3. CASE m # 0
    <2>1. /\ old = Null <=> DeletedBy(t, m)
          /\ doc = Null <=> DeletedBy(t, n)
          /\ old # Null => old = transform(States(log[t])[m])
          /\ doc # Null => doc = transform(States(log[t])[n])
        <3>1. n # 0
            BY <1>1, <1>3
        <3>2. QED
            BY <1>1, <1>3, <3>1, DocumentIsTask
    <2>2. DeletedBy(t, m) <=> DeletedBy(t, n)
        <3>1. \A k \in 1..n : k \in 1..m \/ k \in (m + 1)..n
            BY <1>1
        <3>2. \A k \in 1..m : k \in 1..n
            BY <1>1
        <3>3. QED
            BY <3>1, <3>2 DEF DeletedBy
    <2>3. ASSUME NEW field \in {"status", "boardId"}
          PROVE  transform(States(log[t])[m])[field] = transform(States(log[t])[n])[field]
        <3>1. "TaskUpdatedEvent" \notin Setters[field] /\ field \in Fields
            BY DEF Setters, Fields, MoveEvents
        <3>2. ~SetAfter(t, m, n, field)
            BY <3>1 DEF SetAfter
        <3>3. n \in 1..Len(log[t]) /\ m \in 1..n
            BY <1>1, <1>3
        <3>4. QED
            BY <3>1, <3>2, <3>3 DEF QueryIInv, FieldsAreSet
    <2>4. QED
        BY <2>1, <2>2, <2>3
<1>4. QED
    BY <1>2, <1>3

\* An answer shows what it has of t.
Answers(t, doc) ==
    /\ \A e \in listing.backlog \cup listing.tasks : e.id = t => e.task = doc
    /\ Visible(doc, Board) => [id |-> t, task |-> doc] \in listing.backlog \cup listing.tasks

(* The cards made of an answer: of the backlog and the page's board, and   *)
(* of a task that the answer has as one document, one card of it or none.  *)
LEMMA AnswerCards ==
    ASSUME ListingIInv, listing.boardId = Board, NEW cards,
           cards = Cards(listing.backlog) \o Cards(listing.tasks)
    PROVE  /\ cards \in Seq(Card)
           /\ OnlyOfBoard(cards)
           /\ \A i \in DOMAIN cards : log[cards[i].id] # <<>>
           /\ \A t \in Tasks : \A doc : Answers(t, doc) =>
                 AtMostOnce(cards, t) /\ ShowAs(cards, t, doc) /\ (doc = Null => None(cards, t))
<1> DEFINE front == Cards(listing.backlog)
           back == Cards(listing.tasks)
<1>1. /\ listing.backlog \in SUBSET Entry /\ IsFiniteSet(listing.backlog)
      /\ listing.tasks \in SUBSET Entry /\ IsFiniteSet(listing.tasks)
    BY DEF ListingIInv, ListingTypeOK, Listing, AnswersAreFinite
<1>2. /\ front \in Seq(Card)
      /\ \A i \in DOMAIN front : \E e \in listing.backlog : front[i] = CardOf(e)
      /\ \A e \in listing.backlog : \E i \in DOMAIN front : front[i] = CardOf(e)
      /\ \A i, j \in DOMAIN front : front[i] = front[j] => i = j
    BY <1>1, CardsProperties
<1>3. /\ back \in Seq(Card)
      /\ \A i \in DOMAIN back : \E e \in listing.tasks : back[i] = CardOf(e)
      /\ \A e \in listing.tasks : \E i \in DOMAIN back : back[i] = CardOf(e)
      /\ \A i, j \in DOMAIN back : back[i] = back[j] => i = j
    BY <1>1, CardsProperties
<1>4. cards = front \o back
    OBVIOUS
<1> HIDE DEF front, back
<1>5. /\ cards \in Seq(Card)
      /\ \A i \in DOMAIN cards : \/ \E j \in DOMAIN front : cards[i] = front[j]
                                 \/ \E j \in DOMAIN back : cards[i] = back[j]
      /\ \A j \in DOMAIN front : \E i \in DOMAIN cards : cards[i] = front[j]
      /\ \A j \in DOMAIN back : \E i \in DOMAIN cards : cards[i] = back[j]
      /\ \A t : /\ AtMostOnce(front, t) /\ AtMostOnce(back, t)
                /\ None(front, t) \/ None(back, t)
                => AtMostOnce(cards, t)
    BY <1>2, <1>3, <1>4, ConcatCards
<1>6. ASSUME NEW i \in DOMAIN cards
      PROVE  \E e \in listing.backlog \cup listing.tasks : cards[i] = CardOf(e)
    <2>1. CASE \E j \in DOMAIN front : cards[i] = front[j]
        <3>1. PICK j \in DOMAIN front : cards[i] = front[j]
            BY <2>1
        <3>2. PICK e \in listing.backlog : front[j] = CardOf(e)
            BY <1>2
        <3>3. QED
            BY <3>1, <3>2
    <2>2. CASE \E j \in DOMAIN back : cards[i] = back[j]
        <3>1. PICK j \in DOMAIN back : cards[i] = back[j]
            BY <2>2
        <3>2. PICK e \in listing.tasks : back[j] = CardOf(e)
            BY <1>3
        <3>3. QED
            BY <3>1, <3>2
    <2>3. QED
        BY <1>5, <2>1, <2>2
<1>7. ASSUME NEW e \in listing.backlog \cup listing.tasks
      PROVE  \E i \in DOMAIN cards : cards[i] = CardOf(e)
    <2>1. CASE e \in listing.backlog
        <3>1. PICK j \in DOMAIN front : front[j] = CardOf(e)
            BY <1>2, <2>1
        <3>2. PICK i \in DOMAIN cards : cards[i] = front[j]
            BY <1>5
        <3>3. QED
            BY <3>1, <3>2
    <2>2. CASE e \in listing.tasks
        <3>1. PICK j \in DOMAIN back : back[j] = CardOf(e)
            BY <1>3, <2>2
        <3>2. PICK i \in DOMAIN cards : cards[i] = back[j]
            BY <1>5
        <3>3. QED
            BY <3>1, <3>2
    <2>3. QED
        BY <2>1, <2>2
<1>8. /\ \A e \in listing.backlog : e.task.status = "backlog"
      /\ \A e \in listing.tasks : e.task.status # "backlog" /\ e.task.boardId = Board
      /\ \A e \in listing.backlog \cup listing.tasks :
            e \in Entry /\ e.task \in Task /\ log[e.id] # <<>>
    BY <1>1 DEF ListingIInv, ListedAsAsked, ListedTasksExist, Entry
<1>9. \A e : /\ CardOf(e).id = e.id /\ CardOf(e).status = e.task.status
             /\ CardOf(e).boardId = e.task.boardId
    BY DEF CardOf
<1>10. OnlyOfBoard(cards)
    <2> SUFFICES ASSUME NEW i \in DOMAIN cards PROVE OfBoard(cards[i])
        BY DEF OnlyOfBoard
    <2>1. PICK e \in listing.backlog \cup listing.tasks : cards[i] = CardOf(e)
        BY <1>6
    <2>2. cards[i].status = e.task.status /\ cards[i].boardId = e.task.boardId
        BY <1>9, <2>1
    <2>3. e.task.status = "backlog" \/ e.task.boardId = Board
        BY <1>8
    <2>4. QED
        BY <2>2, <2>3 DEF OfBoard
<1>11. ASSUME NEW i \in DOMAIN cards PROVE log[cards[i].id] # <<>>
    <2>1. PICK e \in listing.backlog \cup listing.tasks : cards[i] = CardOf(e)
        BY <1>6
    <2>2. cards[i].id = e.id /\ log[e.id] # <<>>
        BY <1>8, <1>9, <2>1
    <2>3. QED
        BY <2>2
<1>12. ASSUME NEW t \in Tasks, NEW doc, Answers(t, doc)
       PROVE  AtMostOnce(cards, t) /\ ShowAs(cards, t, doc) /\ (doc = Null => None(cards, t))
    <2> DEFINE entry == [id |-> t, task |-> doc]
    <2>1. \A e \in listing.backlog \cup listing.tasks : e.id = t => e = entry
        BY <1>8, <1>12 DEF Answers, Entry
    <2>2. entry.id = t /\ entry.task = doc
        OBVIOUS
    <2>3. Visible(doc, Board) => entry \in listing.backlog \cup listing.tasks
        BY <1>12 DEF Answers
    <2> HIDE DEF entry
    <2>4. \A i \in DOMAIN front : front[i].id = t =>
             front[i] = CardOf(entry) /\ doc.status = "backlog"
        BY <1>2, <1>8, <1>9, <2>1, <2>2
    <2>5. \A i \in DOMAIN back : back[i].id = t =>
             back[i] = CardOf(entry) /\ doc.status # "backlog"
        BY <1>3, <1>8, <1>9, <2>1, <2>2
    <2>6. AtMostOnce(front, t) /\ AtMostOnce(back, t)
        BY <1>2, <1>3, <2>4, <2>5 DEF AtMostOnce
    <2>7. None(front, t) \/ None(back, t)
        BY <2>4, <2>5 DEF None
    <2>8. \A i \in DOMAIN cards : cards[i].id = t =>
             cards[i].status = doc.status /\ doc \in Task /\ Visible(doc, Board)
        <3> SUFFICES ASSUME NEW i \in DOMAIN cards, cards[i].id = t
                     PROVE  cards[i].status = doc.status /\ doc \in Task /\ Visible(doc, Board)
            OBVIOUS
        <3>1. PICK e \in listing.backlog \cup listing.tasks : cards[i] = CardOf(e)
            BY <1>6
        <3>2. e.id = t /\ cards[i].status = e.task.status
            BY <1>9, <3>1
        <3>3. e = entry
            BY <2>1, <3>2
        <3>4. Board # Null
            BY BoardAssumption, NullAssumption
        <3>5. e.task = doc /\ e.task \in Task
            BY <1>8, <2>2, <3>3
        <3>6. doc.status = "backlog" \/ doc.boardId = Board
            BY <1>8, <3>5
        <3>7. QED
            BY <3>2, <3>4, <3>5, <3>6, DocumentAssumption DEF Visible
    <2>9. Visible(doc, Board) => \E i \in DOMAIN cards : cards[i].id = t
        BY <1>7, <1>9, <2>2, <2>3
    <2>10. QED
        BY <1>5, <2>6, <2>7, <2>8, <2>9, DocumentAssumption DEF ShowAs, None
<1>13. QED
    BY <1>5, <1>10, <1>11, <1>12

\* The answer replaces the cards: right for all tasks it did not race with.
LEMMA TasksLoadedPage ==
    ASSUME ListingIInv, PageIInv, ListingIInv', Grows, TasksLoaded
    PROVE  PageIInv'
<1>1. /\ loading = "asked" /\ listing.step = "done"
      /\ tasks' = Cards(listing.backlog) \o Cards(listing.tasks)
      /\ loading' = "loaded" /\ connection' = connection /\ sent' = sent
      /\ moves' = moves /\ missed' = {} /\ asked' = [t \in Tasks |-> 0]
      /\ raced' = touched
            \cup {t \in Tasks : asked[t] < sent[t] \/ (sent[t] = 0 /\ asked[t] > 0)}
      /\ log' = log /\ view' = view /\ delivered' = delivered
    BY DEF TasksLoaded, vars
<1>2. QueryIInv /\ touched \subseteq Tasks /\ listing.boardId = Board
    BY <1>1 DEF ListingIInv, ListingTypeOK, PageIInv, AnswerIsOwn
<1>3. /\ tasks' \in Seq(Card)
      /\ OnlyOfBoard(tasks')
      /\ \A i \in DOMAIN tasks' : log[tasks'[i].id] # <<>>
      /\ \A t \in Tasks : \A doc : Answers(t, doc) =>
            AtMostOnce(tasks', t) /\ ShowAs(tasks', t, doc) /\ (doc = Null => None(tasks', t))
    BY <1>1, <1>2, AnswerCards
<1>4. PageTypeOK'
    <2>1. ListingTypeOK'
        BY DEF ListingIInv
    <2>2. asked' \in [Tasks -> Nat]
        BY <1>1
    <2>3. raced' \in SUBSET Tasks
        BY <1>1, <1>2
    <2>4. QED
        BY <1>1, <1>3, <2>1, <2>2, <2>3 DEF PageIInv, PageTypeOK
<1>5. ShowsOnlyItsBoard'
    BY <1>3 DEF ShowsOnlyItsBoard, OnlyOfBoard, OfBoard
<1>6. CardsAreOfTasks'
    BY <1>1, <1>3 DEF PageIInv, CardsAreOfTasks
<1>7. CountsAreInHistories'
    <2>1. \A t \in Tasks : Len(log[t]) \in Nat
        BY CountsAreNumbers
    <2>2. QED
        BY <1>1, <2>1 DEF PageIInv, CountsAreInHistories
<1>8. AnswerIsOwn' /\ AnswerIsVersionAsked'
    BY <1>1 DEF AnswerIsOwn, AnswerIsVersionAsked
<1>9. ASSUME Null \notin MoveBoards PROVE ViewIsVersion' /\ PageFollows'
    <2>1. ViewIsVersion'
        BY <1>1, <1>9 DEF PageIInv, ViewIsVersion
    <2>2. ASSUME NEW t \in Tasks, t \notin raced' PROVE Follows(t)'
        <3> DEFINE doc == DocumentAt(log[t], asked[t])
                   old == DocumentAt(log[t], sent[t])
        <3>1. /\ asked[t] \in 0..Len(log[t]) /\ sent[t] \in 0..Len(log[t])
              /\ Len(log[t]) \in Nat
            BY CountsAreNumbers
        <3>2. t \notin touched /\ sent[t] <= asked[t] /\ (sent[t] = 0 => asked[t] = 0)
            BY <1>1, <2>2, <3>1
        <3>3. Answers(t, doc)
            BY <1>1, <1>9, <3>2 DEF PageIInv, AnswerIsVersionAsked, Answers
        <3>4. /\ AtMostOnce(tasks', t) /\ ShowAs(tasks', t, doc)
              /\ doc = Null => None(tasks', t)
            BY <1>3, <3>3
        <3>5. sent[t] = 0 => doc = Null
            BY <3>2 DEF DocumentAt
        <3>6. ASSUME ~Correctable(t)' PROVE ShowAs(tasks', t, old)
            <4>1. \A k \in (sent[t] + 1)..asked[t] : log[t][k].type = "TaskUpdatedEvent"
                <5>1. \A k \in (sent[t] + 1)..asked[t] : k \in (sent[t] + 1)..Len(log[t])
                    BY <3>1
                <5>2. \A k \in (sent[t] + 1)..Len(log[t]) : log[t][k].type = "TaskUpdatedEvent"
                    BY <1>1, <3>6 DEF Correctable
                <5>3. QED
                    BY <5>1, <5>2
            <4>2. asked[t] \in sent[t]..Len(log[t])
                BY <3>1, <3>2
            <4>3. /\ old = Null <=> doc = Null
                  /\ doc # Null => doc.status = old.status /\ doc.boardId = old.boardId
                BY <1>2, <3>1, <3>2, <4>1, <4>2, UpdatesKeepColumn
            <4> HIDE DEF doc, old
            <4>4. QED
                BY <3>4, <4>3 DEF ShowAs, Visible
        <3>7. sent'[t] = 0 => \A i \in DOMAIN tasks' : tasks'[i].id # t
            BY <1>1, <3>4, <3>5 DEF None
        <3>8. QED
            BY <1>1, <3>4, <3>6, <3>7 DEF Follows
    <2>3. PageFollows'
        BY <2>2 DEF PageFollows
    <2>4. QED
        BY <2>1, <2>3
<1>10. QED
    BY <1>4, <1>5, <1>6, <1>7, <1>8, <1>9 DEF PageIInv

\* A load that fails, or is answered with nothing.
LEMMA LoadEndsPage ==
    ASSUME ListingIInv, PageIInv, ListingIInv', Grows, LoadTasksFails \/ LoadTasksRefused
    PROVE  PageIInv'
<1>1. /\ tasks' \in {tasks, <<>>} /\ loading' \in {"failed", "loaded"}
      /\ connection' = connection /\ sent' = sent /\ moves' = moves /\ raced' = raced
      /\ missed' \in {missed, Tasks} /\ asked' = [t \in Tasks |-> 0]
      /\ loading' = "loaded" => missed' = Tasks
      /\ log' = log /\ view' = view /\ delivered' = delivered
    BY DEF LoadTasksFails, LoadTasksRefused, vars
<1>2. PageTypeOK'
    <2>1. ListingTypeOK'
        BY DEF ListingIInv
    <2>2. asked' \in [Tasks -> Nat]
        BY <1>1
    <2>3. missed' \in SUBSET Tasks
        BY <1>1 DEF PageIInv, PageTypeOK
    <2>4. tasks' \in Seq(Card)
        <3>1. <<>> \in Seq(Card)
            OBVIOUS
        <3>2. tasks \in Seq(Card)
            BY DEF PageIInv, PageTypeOK
        <3>3. QED
            BY <1>1, <3>1, <3>2
    <2>5. QED
        BY <1>1, <2>1, <2>2, <2>3, <2>4 DEF PageIInv, PageTypeOK
<1>3. DOMAIN <<>> = {}
    OBVIOUS
<1>4. ShowsOnlyItsBoard' /\ CardsAreOfTasks'
    BY <1>1, <1>3 DEF PageIInv, ShowsOnlyItsBoard, CardsAreOfTasks
<1>5. CountsAreInHistories'
    <2>1. \A t \in Tasks : Len(log[t]) \in Nat
        BY CountsAreNumbers
    <2>2. QED
        BY <1>1, <2>1 DEF PageIInv, CountsAreInHistories
<1>6. AnswerIsOwn' /\ AnswerIsVersionAsked' /\ PageFollows'
    BY <1>1 DEF AnswerIsOwn, AnswerIsVersionAsked, PageFollows
<1>7. ASSUME Null \notin MoveBoards PROVE ViewIsVersion'
    BY <1>1, <1>7 DEF PageIInv, ViewIsVersion
<1>8. QED
    BY <1>2, <1>4, <1>5, <1>6, <1>7 DEF PageIInv

\* An empty page that has asked for nothing.
LEMMA InitPage == PageInit => PageIInv
<1> SUFFICES ASSUME PageInit PROVE PageIInv
    OBVIOUS
<1>1. ListingIInv
    BY InitListing DEF PageInit
<1>2. /\ tasks = <<>> /\ loading = "not asked" /\ connection = "connecting"
      /\ sent = [t \in Tasks |-> 0] /\ moves = {} /\ asked = [t \in Tasks |-> 0]
      /\ raced = {} /\ missed = {}
      /\ delivered = [t \in Tasks |-> 0] /\ view = [t \in Tasks |-> Null]
    BY DEF PageInit, ListingInit, Init
<1>3. PageTypeOK
    <2>1. <<>> \in Seq(Card)
        OBVIOUS
    <2>2. sent \in [Tasks -> Nat] /\ asked \in [Tasks -> Nat]
        BY <1>2
    <2>3. /\ loading \in {"not asked", "asked", "loaded", "failed"}
          /\ connection \in {"connecting", "open", "closed"}
        BY <1>2
    <2>4. QED
        BY <1>1, <1>2, <2>1, <2>2, <2>3 DEF ListingIInv, PageTypeOK
<1>4. ShowsOnlyItsBoard /\ CardsAreOfTasks
    <2>1. DOMAIN tasks = {}
        <3>1. tasks = <<>>
            BY <1>2
        <3>2. DOMAIN <<>> = {}
            OBVIOUS
        <3>3. QED
            BY <3>1, <3>2
    <2>2. moves = {}
        BY <1>2
    <2>3. QED
        BY <2>1, <2>2 DEF ShowsOnlyItsBoard, CardsAreOfTasks
<1>5. CountsAreInHistories
    <2>1. \A t \in Tasks : Len(log[t]) \in Nat
        BY <1>1 DEF ListingIInv, QueryIInv, TypeOK
    <2>2. \A t \in Tasks : sent[t] = 0 /\ asked[t] = 0
        BY <1>2
    <2>3. QED
        BY <2>1, <2>2 DEF CountsAreInHistories
<1>6. AnswerIsOwn /\ AnswerIsVersionAsked /\ PageFollows
    BY <1>2 DEF AnswerIsOwn, AnswerIsVersionAsked, PageFollows
<1>7. ViewIsVersion
    BY <1>2 DEF ViewIsVersion, DocumentAt
<1>8. QED
    BY <1>3, <1>4, <1>5, <1>6, <1>7 DEF PageIInv

-----------------------------------------------------------------------------
(* The theorems.                                                           *)

(* ListingIInv and PageIInv hold of a page, of the view and of the answer  *)
(* to its load at any time.                                                *)
THEOREM PageInvariance == PageSpec => [](ListingIInv /\ PageIInv)
<1>1. PageInit => ListingIInv /\ PageIInv
    BY InitListing, InitPage DEF PageInit
<1>2. ListingIInv /\ PageIInv /\ [PageNext]_allVars => ListingIInv' /\ PageIInv'
    <2> SUFFICES ASSUME ListingIInv, PageIInv, [PageNext]_allVars
                 PROVE  ListingIInv' /\ PageIInv'
        OBVIOUS
    <2>1. ListingIInv' /\ Grows
        BY PageStepKeeps
    <2>2. /\ connection \in {"connecting", "open", "closed"}
          /\ missed \subseteq Tasks /\ \A move \in moves : move.task \in Tasks
        BY DEF PageIInv, PageTypeOK, Move
    <2>3. CASE TasksChange
        BY <2>1, <2>3, TasksChangePage
    <2>4. CASE LoadTasks
        BY <2>1, <2>4, LoadTasksPage
    <2>5. CASE LoadTasksContinues
        BY <2>1, <2>5, LoadTasksContinuesPage
    <2>6. CASE TasksLoaded
        BY <2>1, <2>6, TasksLoadedPage
    <2>7. CASE LoadTasksFails \/ LoadTasksRefused
        BY <2>1, <2>7, LoadEndsPage
    <2>8. CASE \E t \in Tasks : Receive(t) \/ Miss(t)
        BY <2>1, <2>8, ReceivePage, MissPage
    <2>9. CASE Connect \/ Disconnect
        <3>1. /\ UNCHANGED listingVars /\ UNCHANGED <<tasks, loading, sent, asked, raced>>
              /\ connection' \in {"open", "closed"} /\ moves' = moves /\ missed' = missed
            BY <2>9 DEF Connect, Disconnect
        <3>2. connection' \in {"connecting", "open", "closed"}
            BY <3>1
        <3>3. QED
            BY <2>1, <2>2, <3>1, <3>2, QuietPage
    <2>10. ASSUME NEW i \in DOMAIN tasks, NEW status \in TaskStatus, MoveTask(i, status)
           PROVE  PageIInv'
        BY <2>1, <2>10, MoveTaskPage
    <2>11. ASSUME NEW move \in moves, MoveStored(move)
           PROVE  PageIInv'
        BY <2>1, <2>11, MoveStoredPage
    <2>12. ASSUME NEW move \in moves, MoveFails(move)
           PROVE  PageIInv'
        <3>1. /\ UNCHANGED listingVars /\ UNCHANGED <<tasks, loading, sent, asked, raced>>
              /\ connection' = connection
              /\ moves' = moves \ {move} /\ missed' = missed \cup {move.task}
            BY <2>12 DEF MoveFails
        <3>2. /\ connection' \in {"connecting", "open", "closed"}
              /\ moves' \subseteq moves /\ missed \subseteq missed' /\ missed' \subseteq Tasks
              /\ \A m \in moves : m \in moves' \/ m.task \in missed'
            BY <2>2, <3>1
        <3>3. QED
            BY <2>1, <3>1, <3>2, QuietPage
    <2>13. CASE UNCHANGED allVars
        <3>1. /\ UNCHANGED listingVars /\ UNCHANGED <<tasks, loading, sent, asked, raced>>
              /\ connection' = connection /\ moves' = moves /\ missed' = missed
            BY <2>13 DEF allVars, pageVars
        <3>2. QED
            BY <2>1, <2>2, <3>1, QuietPage
    <2>14. QED
        BY <2>1, <2>3, <2>4, <2>5, <2>6, <2>7, <2>8, <2>9, <2>10, <2>11, <2>12, <2>13
        DEF PageNext
<1>3. QED
    BY <1>1, <1>2, PTL DEF PageSpec

(* The variables keep the types of PageTypeOK: every card names a task, a  *)
(* column and a board or none.                                             *)
THEOREM PageTypeCorrectness == PageSpec => []PageTypeOK
<1>1. PageIInv => PageTypeOK
    BY DEF PageIInv
<1>2. QED
    BY <1>1, PageInvariance, PTL

(* A page shows only the backlog and its board's tasks, however drags,     *)
(* messages and the answer to its load interleave.                         *)
THEOREM OnlyItsBoard == PageSpec => []ShowsOnlyItsBoard
<1>1. PageIInv => ShowsOnlyItsBoard
    BY DEF PageIInv
<1>2. QED
    BY <1>1, PageInvariance, PTL

\* The cards of one task, at most one, as the page shows them.
LEMMA OnlyCard ==
    ASSUME NEW shown \in Seq(Card), NEW t, AtMostOnce(shown, t),
           NEW keep, \A j \in DOMAIN shown : shown[j] \in keep <=> shown[j].id = t,
           NEW kept, kept = Filter(shown, keep)
    PROVE  /\ Len(kept) \in {0, 1}
           /\ Len(kept) = 1 => \E j \in DOMAIN shown : shown[j].id = t /\ kept = <<shown[j]>>
           /\ Len(kept) = 0 => kept = <<>> /\ \A j \in DOMAIN shown : shown[j].id # t
<1>1. /\ kept \in Seq(Card)
      /\ \A i \in DOMAIN kept : kept[i] \in keep /\ \E j \in DOMAIN shown : shown[j] = kept[i]
      /\ \A j \in DOMAIN shown : shown[j] \in keep => \E i \in DOMAIN kept : kept[i] = shown[j]
      /\ AtMostOnce(kept, t)
    BY FilterProperties
<1>2. Len(kept) \in Nat /\ DOMAIN kept = 1..Len(kept)
    BY <1>1
<1>3. \A i \in DOMAIN kept : kept[i].id = t
    BY <1>1
<1>4. ASSUME Len(kept) > 1 PROVE FALSE
    <2>1. 1 \in DOMAIN kept /\ 2 \in DOMAIN kept
        BY <1>2, <1>4
    <2>2. QED
        BY <1>1, <1>3, <2>1 DEF AtMostOnce
<1>5. Len(kept) \in {0, 1}
    BY <1>2, <1>4
<1>6. ASSUME Len(kept) = 1
      PROVE  \E j \in DOMAIN shown : shown[j].id = t /\ kept = <<shown[j]>>
    <2>1. 1 \in DOMAIN kept
        BY <1>2, <1>6
    <2>2. PICK j \in DOMAIN shown : shown[j] = kept[1]
        BY <1>1, <2>1
    <2>3. shown[j].id = t
        BY <1>1, <2>1, <2>2
    <2>4. kept = <<kept[1]>>
        BY <1>1, <1>6
    <2>5. QED
        BY <2>2, <2>3, <2>4
<1>7. ASSUME Len(kept) = 0
      PROVE  kept = <<>> /\ \A j \in DOMAIN shown : shown[j].id # t
    <2>1. kept = <<>>
        BY <1>1, <1>7
    <2>2. \A i \in DOMAIN kept : FALSE
        BY <1>2, <1>7
    <2>3. QED
        BY <1>1, <2>1, <2>2
<1>8. QED
    BY <1>5, <1>6, <1>7

\* The document made of the whole history is the aggregate's state.
LEMMA LastDocument ==
    ASSUME QueryIInv, NEW t \in Tasks, NEW doc, doc = DocumentAt(log[t], Len(log[t]))
    PROVE  /\ doc # Null <=> Exists(t)
           /\ Exists(t) => doc = transform(Replay(log[t])) /\ doc \in Task
<1> DEFINE n == Len(log[t])
<1>1. log[t] \in Seq(TaskEvent) /\ n \in Nat
    BY DEF QueryIInv, TypeOK
<1>2. n = 0 <=> log[t] = <<>>
    BY <1>1
<1>3. n \in 0..Len(log[t])
    BY <1>1
<1> HIDE DEF n
<1>4. /\ doc = Null <=> n = 0 \/ DeletedBy(t, n)
      /\ doc # Null => n \in 1..Len(log[t]) /\ doc = transform(States(log[t])[n]) /\ doc \in Task
    BY <1>3, DocumentIsTask DEF n
<1>5. States(log[t])[n] = Replay(log[t])
    BY DEF Replay, n
<1>6. n # 0 => (Replay(log[t]).deleted <=> DeletedBy(t, n))
    <2>1. n # 0 => n \in 1..Len(log[t])
        BY <1>1 DEF n
    <2>2. QED
        BY <1>5, <2>1 DEF QueryIInv, VersionsAreTasks
<1>7. QED
    BY <1>2, <1>4, <1>5, <1>6 DEF Exists

(* If moves name boards, a settled page shows a task in the column the     *)
(* command side has it in, once, and no task that is deleted or elsewhere, *)
(* but for those the load raced with, that were missed or touched after    *)
(* their deletion.                                                         *)
THEOREM SettledPages ==
    ASSUME Null \notin MoveBoards
    PROVE  PageSpec => []SettledPageShowsColumns
<1>1. ListingIInv /\ PageIInv => SettledPageShowsColumns
    <2> SUFFICES ASSUME ListingIInv, PageIInv, NEW t \in Tasks, Settled(t),
                        t \notin missed \cup raced, ~TouchedAfterDeletion(t)
                 PROVE  Columns(CardsOf(t)) = Shown(t)
        BY DEF SettledPageShowsColumns
    <2> DEFINE doc == DocumentAt(log[t], Len(log[t]))
               cards == CardsOf(t)
    <2>1. Follows(t)
        BY DEF PageIInv, PageFollows, Settled
    <2>2. Len(log[t]) \in Nat /\ sent[t] = Len(log[t])
        BY CountsAreNumbers DEF Settled
    <2>3. ~Correctable(t)
        BY <2>2 DEF Correctable, Settled
    <2>4. AtMostOnce(tasks, t) /\ ShowAs(tasks, t, doc)
        BY <2>1, <2>2, <2>3 DEF Follows
    <2>5. /\ doc # Null <=> Exists(t)
          /\ Exists(t) => doc = transform(Replay(log[t])) /\ doc \in Task
        BY LastDocument DEF ListingIInv
    <2>6. tasks \in Seq(Card) /\ cards = Filter(tasks, {card \in ToSet(tasks) : card.id = t})
        BY DEF PageIInv, PageTypeOK, CardsOf
    <2> HIDE DEF doc, cards
    <2>7. /\ Len(cards) \in {0, 1}
          /\ Len(cards) = 1 => \E j \in DOMAIN tasks : tasks[j].id = t /\ cards = <<tasks[j]>>
          /\ Len(cards) = 0 => cards = <<>> /\ \A j \in DOMAIN tasks : tasks[j].id # t
        <3> DEFINE keep == {card \in ToSet(tasks) : card.id = t}
        <3>1. \A j \in DOMAIN tasks : tasks[j] \in keep <=> tasks[j].id = t
            BY DEF ToSet
        <3>2. cards = Filter(tasks, keep)
            BY <2>6
        <3>3. tasks \in Seq(Card) /\ AtMostOnce(tasks, t)
            BY <2>4, <2>6
        <3> HIDE DEF keep
        <3>4. QED
            BY <3>1, <3>2, <3>3, OnlyCard
    <2>8. Shown(t) = IF Visible(doc, Board) THEN <<doc.status>> ELSE <<>>
        <3>1. Exists(t) => doc.status = Replay(log[t]).status
            BY <2>5 DEF transform
        <3>2. CASE Exists(t)
            BY <2>5, <3>1, <3>2 DEF Shown
        <3>3. CASE ~Exists(t)
            BY <2>5, <3>3 DEF Shown, Visible
        <3>4. QED
            BY <3>2, <3>3
    <2>9. CASE Len(cards) = 1
        <3>1. PICK j \in DOMAIN tasks : tasks[j].id = t /\ cards = <<tasks[j]>>
            BY <2>7, <2>9
        <3>2. Visible(doc, Board) /\ tasks[j].status = doc.status
            BY <2>4, <3>1 DEF ShowAs
        <3>3. Columns(cards) = <<tasks[j].status>>
            BY <3>1 DEF Columns
        <3>4. QED
            BY <2>8, <3>2, <3>3 DEF cards
    <2>10. CASE Len(cards) = 0
        <3>1. cards = <<>> /\ ~Visible(doc, Board)
            BY <2>4, <2>7, <2>10 DEF ShowAs
        <3>2. Columns(<<>>) = <<>>
            BY DEF Columns
        <3>3. QED
            BY <2>8, <3>1, <3>2 DEF cards
    <2>11. QED
        BY <2>7, <2>9, <2>10
<1>2. QED
    BY <1>1, PageInvariance, PTL
=============================================================================
