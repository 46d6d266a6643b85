-------------------------- MODULE BoardList_proofs --------------------------
(***************************************************************************)
(* What BoardList's runs check of a small instance, for every set of       *)
(* boards, titles, users and times.                                        *)
(***************************************************************************)
EXTENDS BoardList, SequenceLemmas

Entries == Board \cup {addBoardBoard, EmptyAnswer}

\* An entry with an id is a board; only an empty answer has none.
LEMMA EntryIsBoard ==
    ASSUME NEW e \in Entries, e.id \in Boards
    PROVE  e \in Board
BY ListAssumption DEF Entries, addBoardBoard, EmptyAnswer

\* A creation makes a board's document.
LEMMA DocumentIsBoard ==
    ASSUME NEW b \in Boards, NEW info \in BoardInfo
    PROVE  Document(b, info) \in Board /\ Document(b, info).id = b
BY DEF Document, Board, BoardInfo, AuditEntry

(* The three pieces of code that make a board of an event agree.           *)
LEMMA BoardsAgree ==
    ASSUME NEW b, NEW info
    PROVE  /\ Message(b, info) = Document(b, info)
           /\ Response(b, info) = Document(b, info)
BY DEF Message, Response, Document

\* A board that exists was created with an info.
LEMMA ExistingInfo ==
    ASSUME ListTypeOK, NEW b \in Existing
    PROVE  b \in Boards /\ created[b] \in BoardInfo
BY DEF ListTypeOK, Existing

\* What a board is listed with.
AsCreated(board) == board.id \in Existing /\ board = Document(board.id, created[board.id])

\* A listed board is its document if it agrees in the fields a page shows.
LEMMA DocumentFields ==
    ASSUME NEW board \in Entries, board.id \in Boards, NEW info
    PROVE  board = Document(board.id, info)
              <=> /\ board.title = info.title
                  /\ board.createdBy = info.creation.who
                  /\ board.createdDate = info.creation.when
                  /\ board.updatedBy = info.update.who
                  /\ board.updatedDate = info.update.when
<1>1. board \in Board
    BY EntryIsBoard
<1>2. QED
    BY <1>1 DEF Document, Board

(* The list's property, now and after a step, in terms of documents.       *)
OnceAsCreated ==
    \A i \in Listed : /\ AsCreated(boards[i])
                      /\ \A j \in Listed : boards[j].id = boards[i].id => j = i

\* ListedOnceAsCreated, in terms of documents.
LEMMA ListedIsDocument ==
    ASSUME boards \in Seq(Entries)
    PROVE  ListedOnceAsCreated <=> OnceAsCreated
<1>1. \A i \in Listed : boards[i] \in Entries /\ boards[i].id \in Boards
    BY DEF Listed
<1>2. QED
    BY <1>1, DocumentFields DEF ListedOnceAsCreated, OnceAsCreated, AsCreated

\* The same after a step.
LEMMA ListedIsDocumentNext ==
    ASSUME boards' \in Seq(Entries)
    PROVE  ListedOnceAsCreated' <=> OnceAsCreated'
<1>1. \A i \in Listed' : boards'[i] \in Entries /\ boards'[i].id \in Boards
    BY DEF Listed
<1>2. QED
    BY <1>1, DocumentFields DEF ListedOnceAsCreated, OnceAsCreated, AsCreated

-----------------------------------------------------------------------------
(* What an event takes away: nothing.                                      *)

Growth ==
    /\ created' \in [Boards -> BoardInfo \cup {Null}]
    /\ \A b \in Existing : b \in Existing' /\ created'[b] = created[b]

\* A creation adds a board and changes no other.
LEMMA SaveGrows ==
    ASSUME ListTypeOK, NEW b \in Boards, save(b)
    PROVE  Growth /\ b \in Existing'
<1>1. PICK info \in Infos : created' = [created EXCEPT ![b] = info]
    BY DEF save
<1>2. info \in BoardInfo /\ info # Null
    BY EventAssumption DEF Infos
<1>3. created \in [Boards -> BoardInfo \cup {Null}]
    BY DEF ListTypeOK
<1>4. b \notin Existing
    BY DEF save
<1>5. QED
    BY <1>1, <1>2, <1>3, <1>4 DEF Growth, Existing

\* Without one, no board changes.
LEMMA SameGrows ==
    ASSUME ListTypeOK, created' = created
    PROVE  Growth /\ Existing' = Existing
BY DEF Growth, ListTypeOK, Existing

\* Documents are as created whatever is created besides.
LEMMA DocumentsStay ==
    ASSUME Growth, DocumentsAsCreated, view' = view
    PROVE  DocumentsAsCreated'
<1>1. Indexed' = Indexed
    BY DEF Indexed
<1>2. QED
    BY <1>1 DEF DocumentsAsCreated, Growth, Document

\* So is the answer to a load.
LEMMA AnswerStays ==
    ASSUME Growth, AnswerAsCreated, answer' = answer
    PROVE  AnswerAsCreated'
BY DEF AnswerAsCreated, Growth, Document

\* An empty answer is.
LEMMA NoAnswer ==
    ASSUME answer' = {}
    PROVE  AnswerAsCreated'
BY FS_EmptySet DEF AnswerAsCreated

\* So is the list.
LEMMA ListStays ==
    ASSUME Growth, ListTypeOK, ListedOnceAsCreated, boards' = boards
    PROVE  /\ ListedOnceAsCreated'
           /\ ListedIds' = ListedIds
<1>1. boards \in Seq(Entries) /\ boards' \in Seq(Entries)
    BY DEF ListTypeOK, Entries
<1>2. Listed' = Listed
    BY DEF Listed
<1>3. OnceAsCreated
    BY <1>1, ListedIsDocument
<1>4. \A i \in Listed : AsCreated(boards[i])'
    BY <1>3 DEF OnceAsCreated, Growth, AsCreated, Document
<1>5. OnceAsCreated'
    BY <1>2, <1>3, <1>4 DEF OnceAsCreated
<1>6. ListedIds' = ListedIds
    BY <1>2 DEF ListedIds
<1>7. QED
    BY <1>1, <1>5, <1>6, ListedIsDocumentNext

-----------------------------------------------------------------------------
(* What is shown.                                                          *)

\* The k-th entry has taken the data, the others stay.
Takes(shown, data, next, k) ==
    /\ next[k] = data
    /\ k \in DOMAIN shown => shown[k].id = data.id
    /\ k \notin DOMAIN shown => \A i \in DOMAIN shown : shown[i].id # data.id
    /\ \A i \in DOMAIN next \ {k} : i \in DOMAIN shown /\ next[i] = shown[i]

(* A board takes the place of the first entry with its id, or one at the   *)
(* end of a list that has none.                                            *)
LEMMA ProcessBoardCreation ==
    ASSUME NEW shown \in Seq(Entries), NEW data \in Entries,
           NEW next, next = processBoardCreation(shown, data)
    PROVE  /\ next \in Seq(Entries)
           /\ DOMAIN shown \subseteq DOMAIN next
           /\ \E k \in DOMAIN next : Takes(shown, data, next, k)
<1> DEFINE same == {i \in 1..Len(shown) : shown[i].id = data.id}
<1>1. Len(shown) \in Nat /\ DOMAIN shown = 1..Len(shown)
    OBVIOUS
<1>2. CASE same = {}
    <2>1. SelectInSeq(shown, LAMBDA b : b.id = data.id) = 0
        BY <1>2 DEF SelectInSeq
    <2>2. next = Append(shown, data)
        BY <2>1 DEF processBoardCreation
    <2>3. \A i \in DOMAIN shown : shown[i].id # data.id
        BY <1>1, <1>2
    <2> HIDE DEF same
    <2>4. /\ next \in Seq(Entries) /\ Len(next) = Len(shown) + 1
          /\ \A i \in 1..Len(shown) : next[i] = shown[i]
          /\ next[Len(shown) + 1] = data
        BY <1>1, <2>2
    <2>5. DOMAIN next = 1..(Len(shown) + 1)
        BY <2>4
    <2>6. QED
        BY <1>1, <2>3, <2>4, <2>5 DEF Takes
<1>3. CASE same # {}
    <2>1. PICK k \in same : \A i \in same : k <= i
        <3>1. same \subseteq Nat
            BY <1>1
        <3> HIDE DEF same
        <3>2. QED
            BY <1>3, <3>1, LeastNatural
    <2>2. Min(same) = k
        BY <1>1, <2>1 DEF Min
    <2>3. SelectInSeq(shown, LAMBDA b : b.id = data.id) = k
        BY <1>3, <2>2 DEF SelectInSeq
    <2>4. k \in 1..Len(shown) /\ k # 0 /\ shown[k].id = data.id
        BY <1>1, <2>1
    <2>5. next = [shown EXCEPT ![k] = data]
        BY <2>3, <2>4 DEF processBoardCreation
    <2> HIDE DEF same
    <2>6. next \in Seq(Entries) /\ DOMAIN next = DOMAIN shown
        BY <1>1, <2>4, <2>5
    <2>7. next[k] = data /\ \A i \in DOMAIN shown \ {k} : next[i] = shown[i]
        BY <1>1, <2>4, <2>5
    <2>8. QED
        BY <1>1, <2>4, <2>6, <2>7 DEF Takes
<1>4. QED
    BY <1>2, <1>3

(* A board as it was created, or an empty answer, leaves a list of such    *)
(* boards, each once, which has all that it had and the new one.           *)
LEMMA ShowsBoard ==
    ASSUME ListTypeOK, ListedOnceAsCreated, created' = created,
           NEW data \in Entries, data.id \in Boards => AsCreated(data),
           boards' = processBoardCreation(boards, data)
    PROVE  /\ boards' \in Seq(Entries)
           /\ ListedOnceAsCreated'
           /\ ListedIds' = ListedIds \cup ({data.id} \cap Boards)
<1>1. boards \in Seq(Entries)
    BY DEF ListTypeOK, Entries
<1>2. OnceAsCreated
    BY <1>1, ListedIsDocument
<1>3. boards' \in Seq(Entries) /\ DOMAIN boards \subseteq DOMAIN boards'
    BY <1>1, ProcessBoardCreation
<1>4. PICK k \in DOMAIN boards' :
         /\ boards'[k] = data
         /\ k \in DOMAIN boards => boards[k].id = data.id
         /\ k \notin DOMAIN boards => \A i \in DOMAIN boards : boards[i].id # data.id
         /\ \A i \in DOMAIN boards' \ {k} : i \in DOMAIN boards /\ boards'[i] = boards[i]
    <2>1. \E k \in DOMAIN boards' : Takes(boards, data, boards', k)
        BY <1>1, ProcessBoardCreation
    <2>2. QED
        BY <2>1 DEF Takes
<1>5. ASSUME NEW i \in Listed'
      PROVE  /\ AsCreated(boards[i])'
             /\ \A j \in Listed' : boards'[j].id = boards'[i].id => j = i
    <2>1. \A board : AsCreated(board)' <=> AsCreated(board)
        BY DEF AsCreated, Existing
    <2>2. ASSUME NEW j \in Listed', j # k
          PROVE  /\ j \in Listed /\ boards'[j] = boards[j]
                 /\ boards[j].id # data.id
        <3>1. j \in Listed /\ boards'[j] = boards[j]
            BY <1>4, <2>2 DEF Listed
        <3>2. CASE k \in DOMAIN boards
            BY <1>2, <1>4, <2>2, <3>1, <3>2 DEF OnceAsCreated, Listed
        <3>3. CASE k \notin DOMAIN boards
            BY <1>4, <3>1, <3>3 DEF Listed
        <3>4. QED
            BY <3>1, <3>2, <3>3
    <2>3. CASE i = k
        <3>1. data.id \in Boards
            BY <1>4, <1>5, <2>3 DEF Listed
        <3>2. QED
            BY <1>4, <2>1, <2>2, <2>3, <3>1
    <2>4. CASE i # k
        <3>1. AsCreated(boards'[i]) /\ i \in Listed
            BY <1>2, <1>5, <2>2, <2>4 DEF OnceAsCreated
        <3>2. \A j \in Listed' : boards'[j].id = boards'[i].id => j = i
            BY <1>2, <1>4, <1>5, <2>2, <2>4 DEF OnceAsCreated
        <3>3. QED
            BY <2>1, <3>1, <3>2
    <2>5. QED
        BY <2>3, <2>4
<1>6. ListedOnceAsCreated'
    <2>1. OnceAsCreated'
        BY <1>5 DEF OnceAsCreated
    <2>2. QED
        BY <1>3, <2>1, ListedIsDocumentNext
<1>7. ListedIds' \subseteq ListedIds \cup ({data.id} \cap Boards)
    <2>1. ASSUME NEW i \in Listed'
          PROVE  boards'[i].id \in ListedIds \cup ({data.id} \cap Boards)
        BY <1>4, <2>1 DEF Listed, ListedIds
    <2>2. QED
        BY <2>1 DEF ListedIds
<1>8. ListedIds \subseteq ListedIds'
    <2>1. ASSUME NEW i \in Listed
          PROVE  i \in Listed' /\ boards'[i].id = boards[i].id
        BY <1>3, <1>4, <2>1 DEF Listed
    <2>2. QED
        BY <2>1 DEF ListedIds
<1>9. {data.id} \cap Boards \subseteq ListedIds'
    BY <1>4 DEF ListedIds, Listed
<1>10. QED
    BY <1>3, <1>6, <1>7, <1>8, <1>9

\* An empty list is.
LEMMA ShowsNothing ==
    ASSUME boards' = <<>>
    PROVE  ListedOnceAsCreated'
<1>1. Listed' = {}
    BY DEF Listed
<1>2. QED
    BY <1>1 DEF ListedOnceAsCreated

(* The boards of an answer, in any order, after the button that adds one.  *)
LEMMA ShowsAnswer ==
    ASSUME ListTypeOK, created' = created, NEW data \in SUBSET Board, IsFiniteSet(data),
           \A board \in data : AsCreated(board),
           NEW found \in SetToSeqs(data), boards' = <<addBoardBoard>> \o found
    PROVE  /\ boards' \in Seq(Entries)
           /\ ListedOnceAsCreated'
           /\ {board.id : board \in data} \subseteq ListedIds'
<1>1. found \in Seq(data) /\ Once(found) /\ Elements(found) = data
    BY SetToSeqsProperties
<1>2. found \in Seq(Board) /\ Len(found) \in Nat /\ DOMAIN found = 1..Len(found)
    BY <1>1
<1>3. found \in Seq(Entries) /\ <<addBoardBoard>> \in Seq(Entries)
    BY <1>2 DEF Entries
<1>4. /\ boards' \in Seq(Entries) /\ Len(boards') = 1 + Len(found)
      /\ boards'[1] = addBoardBoard
      /\ \A i \in 1..Len(found) : boards'[i + 1] = found[i]
    <2>1. Len(<<addBoardBoard>>) = 1 /\ <<addBoardBoard>>[1] = addBoardBoard
        OBVIOUS
    <2>2. /\ boards' \in Seq(Entries) /\ Len(boards') = 1 + Len(found)
          /\ boards'[1] = addBoardBoard
        BY <1>2, <1>3, <2>1, ConcatProperties
    <2>3. ASSUME NEW i \in 1..Len(found) PROVE boards'[i + 1] = found[i]
        <3>1. i + 1 \in 1..(Len(<<addBoardBoard>>) + Len(found)) /\ i + 1 > 1 /\ (i + 1) - 1 = i
            BY <1>2, <2>1
        <3>2. QED
            BY <1>3, <2>1, <3>1, ConcatProperties
    <2>4. QED
        BY <2>2, <2>3
<1>5. DOMAIN boards' = 1..(1 + Len(found))
    BY <1>2, <1>4, LenProperties
<1>6. ASSUME NEW i \in Listed'
      PROVE  i - 1 \in DOMAIN found /\ boards'[i] = found[i - 1]
    <2>1. boards'[i].id \in Boards /\ i \in 1..(1 + Len(found))
        BY <1>5 DEF Listed
    <2>2. i # 1
        BY <1>4, <2>1, ListAssumption DEF addBoardBoard
    <2>3. i - 1 \in 1..Len(found) /\ (i - 1) + 1 = i
        BY <1>2, <2>1, <2>2
    <2>4. QED
        BY <1>2, <1>4, <2>3
<1>7. ASSUME NEW k \in DOMAIN found
      PROVE  AsCreated(found[k])'
    <2>1. found[k] \in data
        BY <1>1
    <2>2. QED
        BY <2>1 DEF AsCreated, Existing
<1>8. ASSUME NEW k \in DOMAIN found, NEW m \in DOMAIN found, found[k].id = found[m].id
      PROVE  k = m
    <2>1. found[k] \in data /\ found[m] \in data
        BY <1>1
    <2>2. found[k] = found[m]
        BY <1>8, <2>1 DEF AsCreated
    <2>3. QED
        BY <1>1, <2>2 DEF Once
<1>9. ListedOnceAsCreated'
    <2>1. ASSUME NEW i \in Listed'
          PROVE  /\ AsCreated(boards[i])'
                 /\ \A j \in Listed' : boards'[j].id = boards'[i].id => j = i
        <3>1. AsCreated(boards[i])'
            BY <1>6, <1>7, <2>1
        <3>2. ASSUME NEW j \in Listed', boards'[j].id = boards'[i].id
              PROVE  j = i
            <4>1. i \in 1..(1 + Len(found)) /\ j \in 1..(1 + Len(found))
                BY <1>5 DEF Listed
            <4>2. j - 1 = i - 1
                <5>1. i - 1 \in DOMAIN found /\ boards'[i] = found[i - 1]
                    BY <1>6
                <5>2. j - 1 \in DOMAIN found /\ boards'[j] = found[j - 1]
                    BY <1>6
                <5>3. found[j - 1].id = found[i - 1].id
                    BY <3>2, <5>1, <5>2
                <5>4. QED
                    BY <1>8, <5>1, <5>2, <5>3
            <4>3. QED
                BY <1>2, <4>1, <4>2
        <3>3. QED
            BY <3>1, <3>2
    <2>2. OnceAsCreated'
        BY <2>1 DEF OnceAsCreated
    <2>3. QED
        BY <1>4, <2>2, ListedIsDocumentNext
<1>10. ASSUME NEW board \in data PROVE board.id \in ListedIds'
    <2>1. PICK k \in 1..Len(found) : found[k] = board
        BY <1>1, <1>2 DEF Elements
    <2>2. k + 1 \in DOMAIN boards' /\ boards'[k + 1] = board
        BY <1>2, <1>4, <1>5, <2>1
    <2>3. board.id \in Boards
        BY DEF Board
    <2>4. QED
        BY <2>2, <2>3 DEF ListedIds, Listed
<1>11. QED
    BY <1>4, <1>9, <1>10

-----------------------------------------------------------------------------
(* The invariant.                                                          *)

\* Nothing is created, told or listed yet.
LEMMA InitList == Init => ListIInv
<1> SUFFICES ASSUME Init PROVE ListIInv
    OBVIOUS
<1>1. ListTypeOK
    BY DEF Init, ListTypeOK, NoPost
<1>2. DocumentsAsCreated
    <2>1. Indexed = {}
        BY DEF Init, Indexed
    <2>2. QED
        BY <2>1, FS_EmptySet DEF DocumentsAsCreated
<1>3. AnswerAsCreated /\ SavedExists
    BY FS_EmptySet DEF Init, AnswerAsCreated, SavedExists, NoPost
<1>4. ListedOnceAsCreated /\ LoadedListIsComplete /\ AnswerIsComplete
    BY DEF Init, ListedOnceAsCreated, LoadedListIsComplete, AnswerIsComplete, Listed
<1>5. QED
    BY <1>1, <1>2, <1>3, <1>4 DEF ListIInv

(* A step that leaves documents, answer and list alone.                    *)
LEMMA ListKept ==
    ASSUME ListIInv, Growth, view' = view, answer' = answer, boards' = boards
    PROVE  /\ DocumentsAsCreated' /\ AnswerAsCreated' /\ ListedOnceAsCreated'
           /\ ListedIds' = ListedIds
BY DocumentsStay, AnswerStays, ListStays DEF ListIInv

\* The invariant is kept by a creation of others,
LEMMA OthersSaveKeeps ==
    ASSUME ListIInv, NEW b \in Boards, OthersSave(b)
    PROVE  ListIInv'
<1>1. ListTypeOK /\ Growth
    BY SaveGrows DEF ListIInv, OthersSave
<1>2. /\ DocumentsAsCreated' /\ AnswerAsCreated' /\ ListedOnceAsCreated'
      /\ ListedIds' = ListedIds
    BY <1>1, ListKept DEF OthersSave
<1>3. ListTypeOK'
    BY <1>1 DEF ListTypeOK, Growth, OthersSave, historyVars
<1>4. SavedExists'
    BY <1>1 DEF ListIInv, SavedExists, Growth, OthersSave
<1>5. LoadedListIsComplete' /\ AnswerIsComplete'
    BY <1>2 DEF ListIInv, LoadedListIsComplete, AnswerIsComplete, OthersSave, historyVars
<1>6. QED
    BY <1>2, <1>3, <1>4, <1>5 DEF ListIInv

\* by the page's own,
LEMMA saveBoardKeeps ==
    ASSUME ListIInv, NEW b \in Boards, saveBoard(b)
    PROVE  ListIInv'
<1>1. ListTypeOK /\ Growth /\ b \in Existing'
    BY SaveGrows DEF ListIInv, saveBoard
<1>2. /\ DocumentsAsCreated' /\ AnswerAsCreated' /\ ListedOnceAsCreated'
      /\ ListedIds' = ListedIds
    BY <1>1, ListKept DEF saveBoard
<1>3. ListTypeOK'
    BY <1>1 DEF ListTypeOK, Growth, saveBoard, historyVars
<1>4. SavedExists'
    BY <1>1 DEF SavedExists, saveBoard
<1>5. LoadedListIsComplete' /\ AnswerIsComplete'
    BY <1>2 DEF ListIInv, LoadedListIsComplete, AnswerIsComplete, saveBoard, historyVars
<1>6. QED
    BY <1>2, <1>3, <1>4, <1>5 DEF ListIInv

\* by the handling of a creation,
LEMMA HandleKeeps ==
    ASSUME ListIInv, NEW b \in Boards, Handle(b)
    PROVE  ListIInv'
<1>1. /\ ListTypeOK /\ b \in Existing
      /\ view' = [view EXCEPT ![b] = Document(b, created[b])]
      /\ created' = created /\ boards' = boards /\ answer' = answer
      /\ creating' = creating /\ loading' = loading
      /\ told' = told /\ indexed' = indexed /\ overtaken' = overtaken
      /\ connection' = connection
    BY DEF ListIInv, Handle, pageVars, historyVars
<1>2. Growth /\ Existing' = Existing
    BY <1>1, SameGrows
<1>3. created[b] \in BoardInfo
    BY <1>1, ExistingInfo
<1>4. view \in [Boards -> Board \cup {Null}]
    BY <1>1 DEF ListTypeOK
<1>5. view' \in [Boards -> Board \cup {Null}]
    BY <1>1, <1>3, <1>4, DocumentIsBoard
<1>6. ListTypeOK'
    BY <1>1, <1>5 DEF ListTypeOK
<1>7. DocumentsAsCreated'
    <2>1. IsFiniteSet(Indexed \cup {b})
        BY FS_AddElement DEF ListIInv, DocumentsAsCreated
    <2>2. Indexed' \subseteq Indexed \cup {b}
        BY <1>1, <1>4 DEF Indexed
    <2>3. IsFiniteSet(Indexed')
        BY <2>1, <2>2, FS_Subset
    <2>4. ASSUME NEW c \in Indexed'
          PROVE  c \in Existing' /\ view'[c] = Document(c, created[c])'
        <3>1. c \in Indexed \/ c = b
            BY <2>2
        <3>2. CASE c = b
            BY <1>1, <1>2, <1>4, <3>2 DEF Document
        <3>3. CASE c # b /\ c \in Indexed
            <4>1. c \in Existing /\ view[c] = Document(c, created[c])
                BY <3>3 DEF ListIInv, DocumentsAsCreated
            <4>2. view'[c] = view[c]
                BY <1>1, <1>4, <3>3 DEF Indexed
            <4>3. QED
                BY <1>1, <1>2, <4>1, <4>2 DEF Document
        <3>4. QED
            BY <3>1, <3>2, <3>3
    <2>5. QED
        BY <2>3, <2>4 DEF DocumentsAsCreated
<1>8. AnswerAsCreated' /\ ListedOnceAsCreated' /\ ListedIds' = ListedIds
    BY <1>1, <1>2, AnswerStays, ListStays DEF ListIInv
<1>9. SavedExists' /\ LoadedListIsComplete' /\ AnswerIsComplete'
    BY <1>1, <1>2, <1>8
    DEF ListIInv, SavedExists, LoadedListIsComplete, AnswerIsComplete
<1>10. QED
    BY <1>6, <1>7, <1>8, <1>9 DEF ListIInv

\* by the query of the documents,
LEMMA listAllBoardsKeeps ==
    ASSUME ListIInv, listAllBoards
    PROVE  ListIInv'
<1>1. /\ ListTypeOK /\ DocumentsAsCreated
      /\ created' = created /\ view' = view /\ boards' = boards
      /\ creating' = creating /\ connection' = connection
      /\ told' = told /\ overtaken' = overtaken
      /\ loading' = "answered"
      /\ answer' = {view[b] : b \in Indexed} /\ indexed' = Indexed
    BY DEF ListIInv, listAllBoards
<1>2. Growth /\ Existing' = Existing
    BY <1>1, SameGrows
<1>3. answer' \in SUBSET Board
    BY <1>1 DEF ListTypeOK, Indexed
<1>4. ListTypeOK'
    BY <1>1, <1>3 DEF ListTypeOK, Indexed
<1>5. AnswerAsCreated'
    <2> DEFINE documents == [b \in Indexed |-> view[b]]
    <2>1. documents \in Surjection(Indexed, answer')
        BY <1>1 DEF Surjection
    <2>2. IsFiniteSet(Indexed)
        BY <1>1 DEF DocumentsAsCreated
    <2> HIDE DEF documents
    <2>3. IsFiniteSet(answer')
        BY <2>1, <2>2, FS_Surjection
    <2>4. ASSUME NEW board \in answer'
          PROVE  board.id \in Existing' /\ board = Document(board.id, created[board.id])'
        <3>1. PICK b \in Indexed : board = view[b]
            BY <1>1
        <3>2. b \in Existing /\ board = Document(b, created[b])
            BY <1>1, <3>1 DEF DocumentsAsCreated
        <3>3. board.id = b
            BY <3>2 DEF Document
        <3>4. QED
            BY <1>1, <1>2, <3>2, <3>3 DEF Document
    <2>5. QED
        BY <2>3, <2>4 DEF AnswerAsCreated
<1>6. DocumentsAsCreated' /\ ListedOnceAsCreated' /\ ListedIds' = ListedIds
    BY <1>1, <1>2, DocumentsStay, ListStays DEF ListIInv
<1>7. SavedExists' /\ LoadedListIsComplete'
    BY <1>1, <1>2, <1>6 DEF ListIInv, SavedExists, LoadedListIsComplete
<1>8. AnswerIsComplete'
    <2> SUFFICES ASSUME NEW b \in Indexed PROVE \E board \in answer' : board.id = b
        BY <1>1 DEF AnswerIsComplete
    <2>1. view[b] \in answer' /\ view[b] = Document(b, created[b])
        BY <1>1 DEF DocumentsAsCreated
    <2>2. QED
        BY <2>1 DEF Document
<1>9. QED
    BY <1>4, <1>5, <1>6, <1>7, <1>8 DEF ListIInv

\* by boards that replace the list, with all that had a document when they were
\* found,
LEMMA BoardsLoadedKeeps ==
    ASSUME ListIInv, NEW data \in SUBSET Board, IsFiniteSet(data),
           \A board \in data : AsCreated(board),
           indexed \subseteq {board.id : board \in data},
           BoardsLoaded(data), loading' \in {"loaded", "refused"}
    PROVE  ListIInv'
<1>1. /\ ListTypeOK
      /\ created' = created /\ view' = view /\ answer' = {}
      /\ creating' = creating /\ connection' = connection
      /\ told' = told /\ indexed' = indexed /\ overtaken' = told \ indexed
      /\ loading' \in {"loaded", "refused"}
    BY DEF ListIInv, BoardsLoaded
<1>2. PICK found \in SetToSeqs(data) : boards' = <<addBoardBoard>> \o found
    BY DEF BoardsLoaded
<1>3. Growth /\ Existing' = Existing
    BY <1>1, SameGrows
<1>4. /\ boards' \in Seq(Entries) /\ ListedOnceAsCreated'
      /\ {board.id : board \in data} \subseteq ListedIds'
    BY <1>1, <1>2, ShowsAnswer
<1>5. ListTypeOK'
    BY <1>1, <1>4 DEF ListTypeOK, Entries
<1>6. DocumentsAsCreated' /\ AnswerAsCreated'
    BY <1>1, <1>3, DocumentsStay, NoAnswer DEF ListIInv
<1>7. SavedExists'
    BY <1>1, <1>3 DEF ListIInv, SavedExists
<1>8. LoadedListIsComplete' /\ AnswerIsComplete'
    <2>1. indexed \subseteq ListedIds'
        BY <1>4
    <2>2. QED
        BY <1>1, <2>1 DEF LoadedListIsComplete, AnswerIsComplete
<1>9. QED
    BY <1>4, <1>5, <1>6, <1>7, <1>8 DEF ListIInv

\* by the answer to a load, an empty one included,
LEMMA loadBoardsKeeps ==
    ASSUME ListIInv, loadBoards
    PROVE  ListIInv'
<1>1. CASE loading = "answered" /\ BoardsLoaded(answer) /\ loading' = "loaded"
    <2>1. answer \in SUBSET Board /\ IsFiniteSet(answer)
        BY DEF ListIInv, ListTypeOK, AnswerAsCreated
    <2>2. \A board \in answer : AsCreated(board)
        BY DEF ListIInv, AnswerAsCreated, AsCreated
    <2>3. indexed \subseteq {board.id : board \in answer}
        BY <1>1 DEF ListIInv, AnswerIsComplete
    <2>4. QED
        BY <1>1, <2>1, <2>2, <2>3, BoardsLoadedKeeps
<1>2. CASE loading = "asked" /\ BoardsLoaded({}) /\ loading' = "refused"
    <2>1. {} \in SUBSET Board /\ IsFiniteSet({}) /\ \A board \in {} : AsCreated(board)
        BY FS_EmptySet
    <2>2. indexed = {}
        BY <1>2 DEF ListIInv, AnswerIsComplete
    <2>3. indexed \subseteq {board.id : board \in {}}
        BY <2>2
    <2>4. QED
        BY <1>2, <2>1, <2>3, BoardsLoadedKeeps
<1>3. QED
    BY <1>1, <1>2 DEF loadBoards

(* A page that opens, or is left, shows nothing.                           *)
LEMMA EmptyListKeeps ==
    ASSUME ListIInv, OpenList \/ LeaveList
    PROVE  ListIInv'
<1>1. /\ ListTypeOK /\ created' = created /\ view' = view /\ boards' = <<>>
      /\ loading' \in {"asked", "closed"}
      /\ \/ /\ loading = "closed" /\ answer' = answer /\ creating' = creating
            /\ told' = told /\ indexed' = indexed /\ overtaken' = overtaken
         \/ /\ answer' = {} /\ creating' = NoPost
            /\ told' = {} /\ indexed' = {} /\ overtaken' = {}
      /\ connection' \in {"connecting", connection}
    BY DEF ListIInv, OpenList, LeaveList, historyVars
<1>2. Growth /\ Existing' = Existing
    BY <1>1, SameGrows
<1>3. ListTypeOK'
    BY <1>1 DEF ListTypeOK, NoPost
<1>4. DocumentsAsCreated' /\ AnswerAsCreated' /\ ListedOnceAsCreated'
    BY <1>1, <1>2, DocumentsStay, AnswerStays, NoAnswer, ShowsNothing DEF ListIInv
<1>5. SavedExists' /\ LoadedListIsComplete' /\ AnswerIsComplete'
    BY <1>1, <1>2
    DEF ListIInv, SavedExists, LoadedListIsComplete, AnswerIsComplete, NoPost
<1>6. QED
    BY <1>3, <1>4, <1>5 DEF ListIInv

(* Steps of the connection and the lock, and a load that fails.            *)
LEMMA QuietStepKeeps ==
    ASSUME ListIInv, created' = created, view' = view, boards' = boards,
           \/ answer' = answer /\ loading' = loading
           \/ answer' = {} /\ loading' = "failed",
           creating' = creating \/ creating' \in {NoPost, [step |-> "sent", id |-> Null]},
           connection' \in {connection, "open", "broken"},
           told' = told, indexed' = indexed, overtaken' = overtaken
    PROVE  ListIInv'
<1>1. ListTypeOK
    BY DEF ListIInv
<1>2. Growth /\ Existing' = Existing
    BY <1>1, SameGrows
<1>3. ListTypeOK'
    BY <1>1 DEF ListTypeOK, NoPost
<1>4. /\ DocumentsAsCreated' /\ AnswerAsCreated' /\ ListedOnceAsCreated'
      /\ ListedIds' = ListedIds
    BY <1>1, <1>2, DocumentsStay, AnswerStays, NoAnswer, ListStays DEF ListIInv
<1>5. SavedExists'
    BY <1>2 DEF ListIInv, SavedExists, NoPost
<1>6. LoadedListIsComplete' /\ AnswerIsComplete'
    BY <1>4 DEF ListIInv, LoadedListIsComplete, AnswerIsComplete
<1>7. QED
    BY <1>3, <1>4, <1>5, <1>6 DEF ListIInv

(* A message or an answer with a board, or an answer without one.          *)
LEMMA ShowsBoardKeeps ==
    ASSUME ListIInv, created' = created, view' = view, answer' = answer,
           creating' \in {creating, NoPost}, loading' = loading, connection' = connection,
           NEW data \in Entries, data.id \in Boards => AsCreated(data),
           boards' = processBoardCreation(boards, data),
           told' = told \cup ({data.id} \cap Boards), indexed' = indexed,
           overtaken' = overtaken \ {data.id}
    PROVE  ListIInv'
<1>1. ListTypeOK /\ ListedOnceAsCreated /\ LoadedListIsComplete
    BY DEF ListIInv
<1>2. Growth /\ Existing' = Existing
    BY <1>1, SameGrows
<1>3. /\ boards' \in Seq(Entries) /\ ListedOnceAsCreated'
      /\ ListedIds' = ListedIds \cup ({data.id} \cap Boards)
    BY <1>1, ShowsBoard
<1>4. ListTypeOK'
    BY <1>1, <1>3 DEF ListTypeOK, Entries, NoPost
<1>5. DocumentsAsCreated' /\ AnswerAsCreated'
    BY <1>2, DocumentsStay, AnswerStays DEF ListIInv
<1>6. SavedExists'
    BY <1>2 DEF ListIInv, SavedExists, NoPost
<1>7. LoadedListIsComplete' /\ AnswerIsComplete'
    <2>1. told \in SUBSET Boards
        BY <1>1 DEF ListTypeOK
    <2>2. LoadedListIsComplete'
        BY <1>1, <1>3, <2>1 DEF LoadedListIsComplete
    <2>3. AnswerIsComplete'
        BY DEF ListIInv, AnswerIsComplete
    <2>4. QED
        BY <2>2, <2>3
<1>8. QED
    BY <1>3, <1>4, <1>5, <1>6, <1>7 DEF ListIInv

\* What is told of a board is its document.
LEMMA CreatedBoard ==
    ASSUME ListTypeOK, NEW b \in Existing
    PROVE  LET board == Document(b, created[b])
           IN  board \in Entries /\ board.id = b /\ b \in Boards /\ AsCreated(board)
<1>1. b \in Boards /\ created[b] \in BoardInfo
    BY ExistingInfo
<1>2. QED
    BY <1>1, DocumentIsBoard DEF Entries, AsCreated

\* by a message that comes, once or again,
LEMMA ReceiveKeeps ==
    ASSUME ListIInv, NEW b \in Boards, Receive(b)
    PROVE  ListIInv'
<1> DEFINE board == Document(b, created[b])
<1>1. /\ board \in Entries /\ board.id = b /\ b \in Boards /\ AsCreated(board)
    BY CreatedBoard DEF ListIInv, Receive
<1>2. boards' = processBoardCreation(boards, board)
    BY BoardsAgree DEF Receive
<1>3. /\ created' = created /\ view' = view /\ answer' = answer
      /\ creating' = creating /\ loading' = loading /\ connection' = connection
      /\ told' = told \cup {b} /\ indexed' = indexed /\ overtaken' = overtaken \ {b}
    BY DEF Receive
<1> HIDE DEF board
<1>4. QED
    BY <1>1, <1>2, <1>3, ShowsBoardKeeps

\* and by the answer to a creation.
LEMMA BoardCreatedKeeps ==
    ASSUME ListIInv, BoardCreated
    PROVE  ListIInv'
<1>1. /\ created' = created /\ view' = view /\ answer' = answer
      /\ creating' = NoPost /\ loading' = loading /\ connection' = connection
      /\ indexed' = indexed
    BY DEF BoardCreated
<1>2. CASE /\ creating.step = "saved"
           /\ boards' = processBoardCreation(boards, Response(creating.id, created[creating.id]))
           /\ told' = told \cup {creating.id}
           /\ overtaken' = overtaken \ {creating.id}
    <2> DEFINE board == Document(creating.id, created[creating.id])
    <2>1. /\ board \in Entries /\ board.id = creating.id /\ creating.id \in Boards
          /\ AsCreated(board)
        BY <1>2, CreatedBoard DEF ListIInv, SavedExists
    <2>2. boards' = processBoardCreation(boards, board)
        BY <1>2, BoardsAgree
    <2> HIDE DEF board
    <2>3. QED
        BY <1>1, <1>2, <2>1, <2>2, ShowsBoardKeeps
<1>3. CASE boards' = processBoardCreation(boards, EmptyAnswer) /\ UNCHANGED <<told, overtaken>>
    <2>1. EmptyAnswer \in Entries /\ EmptyAnswer.id \notin Boards
        BY ListAssumption DEF Entries, EmptyAnswer
    <2>2. told \in SUBSET Boards /\ overtaken \in SUBSET Boards
        BY DEF ListIInv, ListTypeOK
    <2>3. told' = told \cup ({EmptyAnswer.id} \cap Boards) /\ overtaken' = overtaken \ {EmptyAnswer.id}
        BY <1>3, <2>1, <2>2
    <2>4. QED
        BY <1>1, <1>3, <2>1, <2>3, ShowsBoardKeeps
<1>4. QED
    BY <1>2, <1>3 DEF BoardCreated

(* ListIInv holds throughout: whatever the server and the page do, in any  *)
(* order, the list can only take up boards as they were created.           *)
THEOREM ListInvariance == Spec => []ListIInv
<1>1. Init => ListIInv
    BY InitList
<1>2. ListIInv /\ [Next]_vars => ListIInv'
    <2> SUFFICES ASSUME ListIInv, [Next]_vars PROVE ListIInv'
        OBVIOUS
    <2>1. ASSUME NEW b \in Boards, OthersSave(b) \/ Handle(b) PROVE ListIInv'
        BY <2>1, OthersSaveKeeps, HandleKeeps
    <2>2. CASE OpenList \/ LeaveList
        BY <2>2, EmptyListKeeps
    <2>3. CASE listAllBoards \/ loadBoards
        BY <2>3, listAllBoardsKeeps, loadBoardsKeeps
    <2>4. CASE LoadFails
        BY <2>4, QuietStepKeeps DEF LoadFails, historyVars
    <2>5. CASE createBoard
        BY <2>5, QuietStepKeeps DEF createBoard, historyVars
    <2>6. CASE createBoardUnlock
        BY <2>6, QuietStepKeeps DEF createBoardUnlock, historyVars
    <2>7. CASE BoardCreated
        BY <2>7, BoardCreatedKeeps
    <2>8. ASSUME NEW b \in Boards, saveBoard(b) \/ Receive(b) PROVE ListIInv'
        BY <2>8, saveBoardKeeps, ReceiveKeeps
    <2>9. CASE Connect
        BY <2>9, QuietStepKeeps DEF Connect, pageVars, historyVars
    <2>10. CASE Disconnect
        BY <2>10, QuietStepKeeps DEF Disconnect, pageVars, historyVars
    <2>11. CASE UNCHANGED vars
        BY <2>11, QuietStepKeeps DEF vars, pageVars, historyVars
    <2>12. QED
        BY <2>1, <2>2, <2>3, <2>4, <2>5, <2>6, <2>7, <2>8, <2>9, <2>10, <2>11 DEF Next
<1>3. QED
    BY <1>1, <1>2, PTL DEF Spec

(* The variables of server and page keep their types: a list never has     *)
(* anything but the button, boards and empty answers.                      *)
THEOREM ListTypeCorrectness == Spec => []ListTypeOK
<1>1. ListIInv => ListTypeOK
    BY DEF ListIInv
<1>2. QED
    BY <1>1, ListInvariance, PTL

(* The list shows a board at most once and as it was created, whichever of *)
(* load, message and answer it learns of it from, and in whatever order.   *)
THEOREM BoardsListedOnce == Spec => []ListedOnceAsCreated
<1>1. ListIInv => ListedOnceAsCreated
    BY DEF ListIInv
<1>2. QED
    BY <1>1, ListInvariance, PTL

(* A loaded list has every board that had a document when its load found   *)
(* what to answer, and keeps every one that its page is told of, but for   *)
(* those without a document that it was told of before the answer came.    *)
THEOREM NothingToldIsLost == Spec => []LoadedListIsComplete
<1>1. ListIInv => LoadedListIsComplete
    BY DEF ListIInv
<1>2. QED
    BY <1>1, ListInvariance, PTL
=============================================================================
