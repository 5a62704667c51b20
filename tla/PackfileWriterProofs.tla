------------------------- MODULE PackfileWriterProofs -------------------------
(***************************************************************************)
(* What TLAPS proves of PackfileWriter, for all objects, sizes, thresholds *)
(* and storage modes.                                                      *)
(***************************************************************************)
EXTENDS PackfileWriter, FiniteSetTheorems, SequenceTheorems, WellFoundedInduction, TLAPS

(***************************************************************************)
(* Streams of cells.                                                       *)
(***************************************************************************)
\* The stream of n objects has 2 n cells.
LEMMA CellsType ==
    ASSUME NEW s \in Seq(AllObjects)
    PROVE  /\ Cells(s) \in Seq(CellSet)
           /\ Len(Cells(s)) = 2 * Len(s)
<1>1. Len(s) \in Nat
  OBVIOUS
<1>2. ASSUME NEW i \in 1 .. 2 * Len(s)
      PROVE  <<s[(i + 1) \div 2], i % 2>> \in CellSet
  <2>1. (i + 1) \div 2 \in 1 .. Len(s) /\ i % 2 \in {0, 1}
    BY <1>1
  <2>2. s[(i + 1) \div 2] \in AllObjects
    BY <2>1
  <2> QED
    BY <2>1, <2>2 DEF CellSet
<1> QED
  BY <1>1, <1>2 DEF Cells

\* Writing the cells of one object at the end of a file that holds a stream
\* gives the stream with that object.
LEMMA WrittenAtEnd ==
    ASSUME NEW s \in Seq(AllObjects), NEW o \in AllObjects,
           content = Cells(s), offset = Len(content)
    PROVE  Written(Cells(Append(<<>>, o))) = Cells(Append(s, o))
<1> DEFINE one == Append(<<>>, o)
           both == Append(s, o)
           end == offset + Len(Cells(one))
<1>1. /\ one \in Seq(AllObjects) /\ Len(one) = 1 /\ one[1] = o
      /\ both \in Seq(AllObjects) /\ Len(both) = Len(s) + 1
      /\ Len(s) \in Nat
  OBVIOUS
<1>2. /\ Len(content) = 2 * Len(s) /\ offset = 2 * Len(s)
      /\ Len(Cells(one)) = 2 /\ end = 2 * Len(s) + 2
  <2>1. Len(Cells(s)) = 2 * Len(s)
    BY CellsType
  <2>2. Len(Cells(one)) = 2 * Len(one)
    BY <1>1, CellsType
  <2>3. Len(content) = 2 * Len(s) /\ offset = 2 * Len(s)
    BY <2>1
  <2> HIDE DEF one
  <2> QED
    BY <1>1, <2>2, <2>3
<1>3. Written(Cells(one)) =
        [i \in 1 .. end |-> IF i \in offset + 1 .. end
                            THEN Cells(one)[i - offset] ELSE content[i]]
  BY <1>1, <1>2 DEF Written
<1>4. Cells(both) = [i \in 1 .. end |-> <<both[(i + 1) \div 2], i % 2>>]
  BY <1>1, <1>2 DEF Cells
<1>5. ASSUME NEW i \in 1 .. end
      PROVE  (IF i \in offset + 1 .. end THEN Cells(one)[i - offset] ELSE content[i])
                 = <<both[(i + 1) \div 2], i % 2>>
  <2>1. CASE i \in offset + 1 .. end
    <3>1. /\ (i + 1) \div 2 = Len(s) + 1
          /\ i - offset \in 1 .. 2 /\ (i - offset) % 2 = i % 2
          /\ (i - offset + 1) \div 2 = 1
      BY <2>1, <1>1, <1>2
    <3>2. Cells(one)[i - offset] = <<one[1], i % 2>>
      BY <3>1, <1>1 DEF Cells
    <3>3. both[(i + 1) \div 2] = o
      BY <3>1, <1>1
    <3> QED
      BY <2>1, <3>2, <3>3, <1>1
  <2>2. CASE i \notin offset + 1 .. end
    <3>1. i \in 1 .. 2 * Len(s) /\ (i + 1) \div 2 \in 1 .. Len(s)
      BY <2>2, <1>1, <1>2
    <3>2. content[i] = <<s[(i + 1) \div 2], i % 2>>
      BY <3>1 DEF Cells
    <3>3. both[(i + 1) \div 2] = s[(i + 1) \div 2]
      BY <3>1, <1>1
    <3> QED
      BY <2>2, <3>2, <3>3
  <2> QED
    BY <2>1, <2>2
<1> QED
  BY <1>3, <1>4, <1>5

\* A new file holds what is written to it.
LEMMA WrittenFirst ==
    ASSUME NEW s \in Seq(AllObjects), content = <<>>, offset = 0
    PROVE  Written(Cells(s)) = Cells(s)
<1>1. Cells(s) \in Seq(CellSet) /\ Len(Cells(s)) = 2 * Len(s) /\ Len(s) \in Nat
  BY CellsType
<1>2. Written(Cells(s)) = [i \in 1 .. Len(Cells(s)) |-> Cells(s)[i]]
  BY <1>1 DEF Written
<1> QED
  BY <1>1, <1>2

\* The file stays a sequence of cells whatever is written, wherever.
LEMMA WrittenType ==
    ASSUME NEW cells \in Seq(CellSet), content \in Seq(CellSet),
           offset \in 0 .. Len(content)
    PROVE  /\ Written(cells) \in Seq(CellSet)
           /\ offset + Len(cells) \in 0 .. Len(Written(cells))
<1> DEFINE end == offset + Len(cells)
           len == IF end > Len(content) THEN end ELSE Len(content)
<1>1. Len(cells) \in Nat /\ Len(content) \in Nat /\ end \in Nat /\ len \in Nat
  OBVIOUS
<1>2. ASSUME NEW i \in 1 .. len
      PROVE  (IF i \in offset + 1 .. end THEN cells[i - offset] ELSE content[i])
                 \in CellSet
  <2>1. CASE i \in offset + 1 .. end
    <3>1. i - offset \in 1 .. Len(cells)
      BY <2>1, <1>1
    <3> QED
      BY <2>1, <3>1
  <2>2. CASE i \notin offset + 1 .. end
    <3>1. i \in 1 .. Len(content)
      BY <2>2, <1>1
    <3> QED
      BY <2>2, <3>1
  <2> QED
    BY <2>1, <2>2
<1>3. Written(cells) = [i \in 1 .. len |-> IF i \in offset + 1 .. end
                            THEN cells[i - offset] ELSE content[i]]
  BY DEF Written
<1>4. Written(cells) \in Seq(CellSet) /\ Len(Written(cells)) = len
  BY <1>1, <1>2, <1>3
<1> QED
  BY <1>1, <1>4

-----------------------------------------------------------------------------
(***************************************************************************)
(* Type correctness, under every fault.                                    *)
(***************************************************************************)
\* Adding an object that is not there keeps staged and objectHashes in step.
LEMMA StagedGrows ==
    ASSUME TypeOK, NEW o \in AllObjects, o \notin objectHashes,
           objectHashes' = objectHashes \cup {o}, staged' = Append(staged, o)
    PROVE  EachOnce'
<1>1. /\ staged \in Seq(AllObjects) /\ staged' \in Seq(AllObjects)
      /\ Len(staged) \in Nat /\ Len(staged') = Len(staged) + 1
      /\ staged'[Len(staged) + 1] = o
      /\ \A i \in 1 .. Len(staged) : staged'[i] = staged[i]
  BY DEF TypeOK, EachOnce
<1>2. objectHashes = {staged[i] : i \in 1 .. Len(staged)}
  BY DEF TypeOK, EachOnce
<1>3. 1 .. Len(staged') = 1 .. Len(staged) \cup {Len(staged) + 1}
  BY <1>1
<1>4. objectHashes' = {staged'[i] : i \in 1 .. Len(staged')}
  BY <1>1, <1>2, <1>3
<1>5. \A i, j \in 1 .. Len(staged') : staged'[i] = staged'[j] => i = j
  BY <1>1, <1>2, <1>3 DEF TypeOK, EachOnce
<1> QED
  BY <1>1, <1>4, <1>5 DEF EachOnce

\* The cells of what a write to the file brings there.
LEMMA MigratedType ==
    ASSUME TypeOK, NEW o \in AllObjects
    PROVE  /\ Append(Migrated, o) \in Seq(AllObjects)
           /\ Cells(Append(Migrated, o)) \in Seq(CellSet)
<1>1. Migrated \in Seq(AllObjects)
  BY DEF Migrated, TypeOK
<1>2. Append(Migrated, o) \in Seq(AllObjects)
  BY <1>1
<1> QED
  BY <1>2, CellsType

\* Storing an object keeps the types of what holds it.
LEMMA StoreType ==
    ASSUME TypeOK, NEW o \in AllObjects, KeepInMemory(o) \/ WriteToFile(o)
    PROVE  /\ memoryObjects' \in Seq(AllObjects)
           /\ tempFile' \in BOOLEAN
           /\ content' \in Seq(CellSet)
           /\ offset' \in 0 .. Len(content')
           /\ totalBytes' \in Nat
<1>1. Size[o] \in Nat
  BY SizeAssumption
<1>2. CASE KeepInMemory(o)
  BY <1>1, <1>2 DEF KeepInMemory, TypeOK, file
<1>3. CASE WriteToFile(o)
  <2>1. Cells(Append(Migrated, o)) \in Seq(CellSet)
    BY MigratedType
  <2>2. content \in Seq(CellSet) /\ offset \in 0 .. Len(content)
    BY DEF TypeOK
  <2> QED
    BY <1>1, <1>3, <2>1, <2>2, WrittenType DEF WriteToFile, TypeOK
<1> QED
  BY <1>2, <1>3

\* A failed write keeps them too.
LEMMA DiskFailsType ==
    ASSUME TypeOK, NEW o \in AllObjects, DiskFails(o)
    PROVE  /\ memoryObjects' \in Seq(AllObjects)
           /\ tempFile' \in BOOLEAN
           /\ content' \in Seq(CellSet)
           /\ offset' \in 0 .. Len(content')
           /\ totalBytes' \in Nat
<1> DEFINE cells == Cells(Append(Migrated, o))
<1>1. Size[o] \in Nat /\ totalBytes \in Nat
  BY SizeAssumption DEF TypeOK
<1>2. content \in Seq(CellSet) /\ offset \in 0 .. Len(content)
  BY DEF TypeOK
<1>3. CASE UNCHANGED storage
  BY <1>1, <1>2, <1>3 DEF TypeOK, storage, file
<1>4. ASSUME NEW k \in 0 .. Len(cells) - 1,
             tempFile' = TRUE,
             content' = Written(SubSeq(cells, 1, k)),
             offset' = offset + k,
             memoryObjects' = IF tempFile \/ k < 2 * Len(Migrated)
                              THEN memoryObjects ELSE <<>>,
             totalBytes' = totalBytes + IF k < 2 * Len(Migrated) THEN 0 ELSE Size[o]
      PROVE  /\ memoryObjects' \in Seq(AllObjects)
             /\ tempFile' \in BOOLEAN
             /\ content' \in Seq(CellSet)
             /\ offset' \in 0 .. Len(content')
             /\ totalBytes' \in Nat
  <2>1. cells \in Seq(CellSet)
    BY MigratedType
  <2>2. SubSeq(cells, 1, k) \in Seq(CellSet) /\ Len(SubSeq(cells, 1, k)) = k
    BY <2>1
  <2>3. content' \in Seq(CellSet) /\ offset' \in 0 .. Len(content')
    BY <1>2, <1>4, <2>2, WrittenType
  <2>4. memoryObjects' \in Seq(AllObjects)
    BY <1>4 DEF TypeOK
  <2> QED
    BY <1>1, <1>4, <2>3, <2>4
<1> QED
  BY <1>3, <1>4 DEF DiskFails

LEMMA TypeInit == Init => TypeOK
<1> SUFFICES ASSUME Init PROVE TypeOK
  OBVIOUS
<1>1. staged = <<>> /\ Len(staged) = 0 /\ 1 .. Len(staged) = {}
  BY DEF Init
<1>2. EachOnce
  BY <1>1 DEF Init, EachOnce
<1>3. content = <<>> /\ content \in Seq(CellSet) /\ offset \in 0 .. Len(content)
  BY DEF Init
<1>4. memoryObjects = <<>> /\ memoryObjects \in Seq(AllObjects)
  BY DEF Init
<1>5. /\ tempFile \in BOOLEAN /\ isCleanedUp \in BOOLEAN
      /\ interrupted \in BOOLEAN /\ damaged \in BOOLEAN
  BY DEF Init
<1>6. storageMode \in Modes /\ lastCommitHash = NoCommit /\ totalBytes \in Nat
  BY DEF Init
<1> QED
  BY <1>2, <1>3, <1>4, <1>5, <1>6 DEF TypeOK

LEMMA TypeStep == TypeOK /\ [Next]_vars => TypeOK'
<1> SUFFICES ASSUME TypeOK, [Next]_vars
             PROVE  TypeOK'
  OBVIOUS
<1>1. ASSUME NEW o \in Objects, Add(o)
      PROVE  TypeOK'
  <2>1. o \in AllObjects
    BY DEF AllObjects
  <2>2. /\ o \notin objectHashes
        /\ objectHashes' = objectHashes \cup {o} /\ staged' = Append(staged, o)
        /\ KeepInMemory(o) \/ WriteToFile(o)
        /\ UNCHANGED <<storageMode, isCleanedUp, interrupted, lastCommitHash>>
        /\ damaged' = (damaged \/ (interrupted /\ tempFile'))
    BY <1>1 DEF Add, Adding, Store
  <2>3. /\ memoryObjects' \in Seq(AllObjects) /\ tempFile' \in BOOLEAN
        /\ content' \in Seq(CellSet) /\ offset' \in 0 .. Len(content')
        /\ totalBytes' \in Nat
    BY <2>1, <2>2, StoreType
  <2>4. EachOnce'
    BY <2>1, <2>2, StagedGrows
  <2>5. lastCommitHash' \in objectHashes' \cup {NoCommit}
    BY <2>2 DEF TypeOK
  <2> QED
    BY <2>2, <2>3, <2>4, <2>5 DEF TypeOK
<1>2. ASSUME NEW c \in Commits, AddCommit(c)
      PROVE  TypeOK'
  <2>1. c \in AllObjects
    BY DEF AllObjects
  <2>2. /\ c \notin objectHashes
        /\ objectHashes' = objectHashes \cup {c} /\ staged' = Append(staged, c)
        /\ KeepInMemory(c) \/ WriteToFile(c)
        /\ lastCommitHash' = c
        /\ UNCHANGED <<storageMode, isCleanedUp, interrupted>>
        /\ damaged' = (damaged \/ (interrupted /\ tempFile'))
    BY <1>2 DEF AddCommit, Adding, Store
  <2>3. /\ memoryObjects' \in Seq(AllObjects) /\ tempFile' \in BOOLEAN
        /\ content' \in Seq(CellSet) /\ offset' \in 0 .. Len(content')
        /\ totalBytes' \in Nat
    BY <2>1, <2>2, StoreType
  <2>4. EachOnce'
    BY <2>1, <2>2, StagedGrows
  <2> QED
    BY <2>2, <2>3, <2>4 DEF TypeOK
<1>3. ASSUME NEW o \in AllObjects, AddFails(o)
      PROVE  TypeOK'
  <2>1. DiskFails(o)
    BY <1>3 DEF AddFails
  <2>2. /\ memoryObjects' \in Seq(AllObjects) /\ tempFile' \in BOOLEAN
        /\ content' \in Seq(CellSet) /\ offset' \in 0 .. Len(content')
        /\ totalBytes' \in Nat
    BY <2>1, DiskFailsType
  <2>3. UNCHANGED <<storageMode, isCleanedUp, interrupted, objectHashes, staged,
                    lastCommitHash>> /\ damaged' = TRUE
    BY <1>3 DEF AddFails, Adding
  <2> QED
    BY <2>2, <2>3 DEF TypeOK, EachOnce
<1>4. CASE WritePackfile
  <2>1. interrupted' \in BOOLEAN
    BY <1>4 DEF WritePackfile
  <2>2. offset' \in 0 .. Len(content)
    BY <1>4 DEF WritePackfile, TypeOK
  <2>3. UNCHANGED <<storageMode, objectHashes, memoryObjects, tempFile, content,
                    totalBytes, lastCommitHash, isCleanedUp, staged, damaged>>
    BY <1>4 DEF WritePackfile
  <2> QED
    BY <2>1, <2>2, <2>3 DEF TypeOK, EachOnce
<1>5. CASE WriteInterrupted
  <2>1. offset' \in 0 .. Len(content)
    BY <1>5 DEF WriteInterrupted, StopsAt, TypeOK
  <2> QED
    BY <1>5, <2>1 DEF WriteInterrupted, TypeOK, EachOnce
<1>6. CASE Cleanup
  <2>1. staged' = <<>> /\ objectHashes' = {} /\ 1 .. Len(staged') = {}
    BY <1>6 DEF Cleanup
  <2>2. EachOnce'
    BY <2>1 DEF EachOnce
  <2>3. content' \in Seq(CellSet) /\ offset' \in 0 .. Len(content')
    BY <1>6 DEF Cleanup
  <2>4. memoryObjects' = <<>> /\ memoryObjects' \in Seq(AllObjects)
    BY <1>6 DEF Cleanup
  <2>5. /\ tempFile' \in BOOLEAN /\ isCleanedUp' \in BOOLEAN
        /\ interrupted' \in BOOLEAN /\ damaged' \in BOOLEAN
    BY <1>6 DEF Cleanup, TypeOK
  <2>6. /\ storageMode' \in Modes /\ lastCommitHash' \in objectHashes' \cup {NoCommit}
        /\ totalBytes' \in Nat
    BY <1>6 DEF Cleanup, TypeOK
  <2> QED
    BY <2>2, <2>3, <2>4, <2>5, <2>6 DEF TypeOK
<1>7. CASE UNCHANGED vars
  BY <1>7 DEF vars, storage, file, TypeOK, EachOnce
<1> QED
  BY <1>1, <1>2, <1>3, <1>4, <1>5, <1>6, <1>7 DEF Next

\* The writer keeps the shape of its data, and acknowledges every object once,
\* through every failure of the disk and of the connection.
THEOREM TypeCorrect == Spec => []TypeOK
BY TypeInit, TypeStep, PTL DEF Spec

-----------------------------------------------------------------------------
(***************************************************************************)
(* The stream.  Unless the disk failed or something was put on it after an *)
(* interrupted push, the objects are all in memory or all in the file, and *)
(* the file is written at its end.                                         *)
(***************************************************************************)
Stored ==
    /\ tempFile => storageMode # "memory"
    /\ IF tempFile THEN content = Cells(staged) /\ memoryObjects = <<>>
       ELSE memoryObjects = staged /\ content = <<>>

AtEnd == ~interrupted => offset = Len(content)

StreamInv == TypeOK /\ (~damaged => Stored /\ AtEnd /\ SentIsWhole)

LEMMA StoredIsStream == ASSUME Stored PROVE StreamIsStaged
BY DEF Stored, StreamIsStaged, Image

\* The header counts the objects that follow it.
LEMMA CountIsLength ==
    ASSUME TypeOK
    PROVE  Cardinality(objectHashes) = Len(staged)
<1>1. /\ staged \in [1 .. Len(staged) -> AllObjects] /\ Len(staged) \in Nat
      /\ objectHashes = {staged[i] : i \in 1 .. Len(staged)}
      /\ \A i, j \in 1 .. Len(staged) : staged[i] = staged[j] => i = j
  BY DEF TypeOK, EachOnce
<1>2. staged \in Bijection(1 .. Len(staged), objectHashes)
  BY <1>1 DEF Bijection, Injection, Surjection, IsInjective
<1>3. ExistsBijection(1 .. Len(staged), objectHashes)
  BY <1>2 DEF ExistsBijection
<1> QED
  BY <1>1, <1>3, FS_CountingElements

LEMMA StreamLengths ==
    ASSUME NEW s \in Seq(AllObjects), NEW o \in AllObjects
    PROVE  /\ Len(Cells(s)) = 2 * Len(s)
           /\ Len(Cells(Append(<<>>, o))) = 2
           /\ Len(Cells(Append(s, o))) = 2 * Len(s) + 2
<1>1. Append(<<>>, o) \in Seq(AllObjects) /\ Append(s, o) \in Seq(AllObjects)
  OBVIOUS
<1>2. Len(Append(<<>>, o)) = 1 /\ Len(Append(s, o)) = Len(s) + 1 /\ Len(s) \in Nat
  OBVIOUS
<1>3. /\ Len(Cells(s)) = 2 * Len(s)
      /\ Len(Cells(Append(<<>>, o))) = 2 * Len(Append(<<>>, o))
      /\ Len(Cells(Append(s, o))) = 2 * Len(Append(s, o))
  BY <1>1, CellsType
<1> QED
  BY <1>2, <1>3

\* The memory mode has no file.
LEMMA StoreMode ==
    ASSUME NEW o, Adding(o), WriteToFile(o)
    PROVE  storageMode' # "memory"
BY DEF Adding, WriteToFile, FitsInMemory

\* Storing an object adds it to the stream.
LEMMA StoreKeepsStream ==
    ASSUME TypeOK, Stored, offset = Len(content), NEW o \in AllObjects,
           Adding(o), Store(o)
    PROVE  Stored' /\ offset' = Len(content')
<1>1. staged \in Seq(AllObjects) /\ staged' = Append(staged, o)
  BY DEF TypeOK, EachOnce, Store
<1>2. CASE KeepInMemory(o) /\ ~tempFile
  <2>1. /\ memoryObjects = staged /\ memoryObjects' = Append(memoryObjects, o)
        /\ content = <<>> /\ tempFile' = FALSE /\ content' = <<>> /\ offset' = offset
    BY <1>2 DEF KeepInMemory, Stored, file, TypeOK
  <2> QED
    BY <1>1, <2>1 DEF Stored
<1>3. CASE KeepInMemory(o) /\ tempFile
  BY <1>3 DEF KeepInMemory, FitsInMemory, Stored
<1>4. CASE WriteToFile(o) /\ tempFile
  <2>1. Written(Cells(Append(<<>>, o))) = Cells(Append(staged, o))
    BY <1>1, <1>4, WrittenAtEnd DEF Stored
  <2>2. /\ content' = Written(Cells(Append(<<>>, o)))
        /\ offset' = offset + Len(Cells(Append(<<>>, o)))
        /\ tempFile' = TRUE /\ memoryObjects' = <<>>
    BY <1>4 DEF WriteToFile, Migrated, Stored
  <2>3. /\ Len(Cells(staged)) = 2 * Len(staged)
        /\ Len(Cells(Append(<<>>, o))) = 2 /\ Len(Cells(staged')) = 2 * Len(staged) + 2
    BY <1>1, StreamLengths
  <2>4. offset = 2 * Len(staged) /\ Len(staged) \in Nat
    BY <1>1, <1>4, <2>3 DEF Stored
  <2>5. storageMode' # "memory"
    BY <1>4, StoreMode
  <2> HIDE DEF Written
  <2> QED
    BY <1>1, <2>1, <2>2, <2>3, <2>4, <2>5 DEF Stored
<1>5. CASE WriteToFile(o) /\ ~tempFile
  <2>1. Append(staged, o) \in Seq(AllObjects) /\ content = <<>> /\ offset = 0
    BY <1>1, <1>5 DEF Stored
  <2>2. Written(Cells(Append(staged, o))) = Cells(Append(staged, o))
    BY <2>1, WrittenFirst
  <2>3. /\ content' = Written(Cells(Append(staged, o)))
        /\ offset' = Len(Cells(Append(staged, o)))
        /\ tempFile' = TRUE /\ memoryObjects' = <<>>
    BY <1>5, <2>1, CellsType DEF WriteToFile, Migrated, Stored
  <2>4. storageMode' # "memory"
    BY <1>5, StoreMode
  <2> QED
    BY <1>1, <2>2, <2>3, <2>4 DEF Stored
<1> QED
  BY <1>2, <1>3, <1>4, <1>5 DEF Store

LEMMA StreamInit == Init => StreamInv
BY TypeInit DEF Init, StreamInv, Stored, AtEnd, SentIsWhole

LEMMA StreamStep ==
    ASSUME StreamInv, [Next]_vars
    PROVE  StreamInv'
<1>1. TypeOK /\ TypeOK'
  BY TypeStep DEF StreamInv
<1>2. SUFFICES ASSUME ~damaged'
               PROVE  Stored' /\ AtEnd' /\ SentIsWhole'
  BY <1>1 DEF StreamInv
<1> DEFINE Undamaged == ~damaged /\ Stored /\ AtEnd /\ SentIsWhole
<1>3. damaged => damaged'
  <2>1. ASSUME NEW o \in AllObjects, Store(o)
        PROVE  damaged => damaged'
    BY <2>1 DEF Store
  <2> QED
    BY <2>1 DEF Next, Add, AddCommit, AddFails, WritePackfile, WriteInterrupted,
                Cleanup, vars, AllObjects
<1>4. Undamaged
  BY <1>2, <1>3 DEF StreamInv
<1>5. ASSUME NEW o \in AllObjects, Adding(o), Store(o)
      PROVE  Stored' /\ AtEnd' /\ SentIsWhole'
  <2>1. UNCHANGED <<interrupted, sent>> /\ ~(interrupted /\ tempFile')
    BY <1>2, <1>5 DEF Adding, Store
  <2>2. SentIsWhole'
    BY <1>4, <2>1 DEF SentIsWhole
  <2>3. CASE ~interrupted
    <3>1. offset = Len(content)
      BY <1>4, <2>3 DEF AtEnd
    <3>2. Stored' /\ offset' = Len(content')
      BY <1>1, <1>4, <1>5, <3>1, StoreKeepsStream
    <3> QED
      BY <2>2, <3>2 DEF AtEnd
  <2>4. CASE interrupted
    <3>1. ~tempFile'
      BY <2>1, <2>4
    <3>2. KeepInMemory(o)
      BY <1>5, <3>1 DEF Store, WriteToFile
    <3>3. staged' = Append(staged, o)
      BY <1>5 DEF Store
    <3>4. /\ memoryObjects' = Append(memoryObjects, o)
          /\ tempFile' = tempFile /\ content' = content
      BY <3>2 DEF KeepInMemory, file
    <3>5. ~tempFile /\ memoryObjects = staged /\ content = <<>>
      BY <1>4, <3>1, <3>4 DEF Stored
    <3>6. Stored'
      BY <3>1, <3>3, <3>4, <3>5 DEF Stored
    <3> QED
      BY <2>1, <2>2, <2>4, <3>6 DEF AtEnd
  <2> QED
    BY <2>3, <2>4
<1>6. ASSUME NEW o \in Objects, Add(o)
      PROVE  Stored' /\ AtEnd' /\ SentIsWhole'
  BY <1>5, <1>6 DEF Add, AllObjects
<1>7. ASSUME NEW c \in Commits, AddCommit(c)
      PROVE  Stored' /\ AtEnd' /\ SentIsWhole'
  BY <1>5, <1>7 DEF AddCommit, AllObjects
<1>8. ASSUME NEW o \in AllObjects, AddFails(o)
      PROVE  Stored' /\ AtEnd' /\ SentIsWhole'
  BY <1>2, <1>8 DEF AddFails
<1>9. CASE WritePackfile
  <2>1. Image = Cells(staged)
    BY <1>4, StoredIsStream DEF StreamIsStaged
  <2>2. Cardinality(objectHashes) = Len(staged)
    BY <1>1, CountIsLength
  <2>3. \E i \in 1 .. Len(staged) : staged[i] = lastCommitHash
    BY <1>1, <1>9 DEF WritePackfile, MayWrite, TypeOK, EachOnce
  <2>4. sent' = {[count |-> Len(staged), commit |-> lastCommitHash,
                  body |-> Cells(staged), staged |-> staged]}
    BY <1>9, <2>1, <2>2 DEF WritePackfile, Copied
  <2>5. SentIsWhole'
    BY <2>3, <2>4 DEF SentIsWhole
  <2> QED
    BY <1>4, <1>9, <2>5 DEF WritePackfile, Stored, AtEnd
<1>10. CASE WriteInterrupted
  BY <1>4, <1>10 DEF WriteInterrupted, Stored, AtEnd, SentIsWhole
<1>11. CASE Cleanup
  <2>1. /\ memoryObjects' = <<>> /\ staged' = <<>> /\ content' = <<>> /\ offset' = 0
        /\ UNCHANGED <<interrupted, sent>>
    BY <1>11 DEF Cleanup
  <2>2. tempFile' = FALSE
    BY <1>11 DEF Cleanup
  <2>3. AtEnd'
    BY <2>1 DEF AtEnd
  <2>4. Stored' /\ SentIsWhole'
    BY <1>4, <2>1, <2>2 DEF Stored, SentIsWhole
  <2> QED
    BY <2>3, <2>4
<1>12. CASE UNCHANGED vars
  BY <1>4, <1>12 DEF vars, storage, file, Stored, AtEnd, SentIsWhole
<1> QED
  BY <1>6, <1>7, <1>8, <1>9, <1>10, <1>11, <1>12 DEF Next

\* Unless the disk failed, or an object was put on it between an interrupted
\* push and its retry, the stream that WritePackfile would send is at any
\* moment the acknowledged objects in order: in every storage mode, across the
\* migration from memory to the file, and after any number of interruptions.
THEOREM StreamCorrect == Spec => []StreamIsStaged
<1>1. StreamInv /\ [Next]_vars => StreamInv'
  BY StreamStep
<1>2. StreamInv => StreamIsStaged
  BY StoredIsStream DEF StreamInv, StreamIsStaged
<1> QED
  BY <1>1, <1>2, StreamInit, PTL DEF Spec

\* Under the same condition every request written to its end announces as
\* many objects as follow, they are the staged ones, and the new value of the
\* branch is a commit among them.
THEOREM RequestsWhole == Spec => []SentIsWhole
<1>1. StreamInv /\ [Next]_vars => StreamInv'
  BY StreamStep
<1>2. StreamInv => SentIsWhole
  BY DEF StreamInv, SentIsWhole
<1> QED
  BY <1>1, <1>2, StreamInit, PTL DEF Spec

-----------------------------------------------------------------------------
(***************************************************************************)
(* No object twice, under every fault.  A write that fails half way leaves *)
(* no body of its object; one that fails in a migration may leave those of *)
(* objects that are acknowledged, which are never written again.           *)
(***************************************************************************)
BodyOnce(s) == \A i, j \in DOMAIN s : s[i] = s[j] /\ s[i][2] = 0 => i = j
BodiesIn(s, S) == \A i \in DOMAIN s : s[i][2] = 0 => s[i][1] \in S

\* What is acknowledged once gives a stream with each body once, and so does what a failed
\* write puts of it on the disk, which lacks at least the last body.
LEMMA CellsOnce ==
    ASSUME NEW s \in Seq(AllObjects), NEW k \in 0 .. 2 * Len(s),
           \A i, j \in 1 .. Len(s) : s[i] = s[j] => i = j
    PROVE  /\ SubSeq(Cells(s), 1, k) \in Seq(CellSet)
           /\ BodyOnce(SubSeq(Cells(s), 1, k))
           /\ BodiesIn(SubSeq(Cells(s), 1, k), {s[i] : i \in {i \in 1 .. Len(s) : 2 * i <= k}})
<1>1. Cells(s) \in Seq(CellSet) /\ Len(Cells(s)) = 2 * Len(s) /\ Len(s) \in Nat
  BY CellsType
<1> DEFINE part == SubSeq(Cells(s), 1, k)
<1>2. part \in Seq(CellSet) /\ DOMAIN part = 1 .. k /\ \A i \in 1 .. k : part[i] = Cells(s)[i]
  BY <1>1
<1>3. \A i \in 1 .. k : part[i] = <<s[(i + 1) \div 2], i % 2>>
  BY <1>1, <1>2 DEF Cells
<1> HIDE DEF part
<1>4. ASSUME NEW i \in 1 .. k, part[i][2] = 0
      PROVE  /\ i \div 2 \in 1 .. Len(s) /\ i = 2 * (i \div 2)
             /\ part[i][1] = s[i \div 2]
  <2>1. i % 2 = 0
    BY <1>3, <1>4
  <2>2. i \div 2 \in 1 .. Len(s) /\ i = 2 * (i \div 2) /\ (i + 1) \div 2 = i \div 2
    BY <1>1, <2>1
  <2>3. part[i] = <<s[i \div 2], i % 2>>
    BY <1>3, <2>2
  <2> QED
    BY <2>2, <2>3
<1>5. BodyOnce(part)
  <2> SUFFICES ASSUME NEW i \in 1 .. k, NEW j \in 1 .. k, part[i] = part[j], part[i][2] = 0
               PROVE  i = j
    BY <1>2 DEF BodyOnce
  <2>1. s[i \div 2] = s[j \div 2] /\ part[j][2] = 0
    BY <1>4
  <2>2. i \div 2 = j \div 2
    BY <1>4, <2>1
  <2> QED
    BY <1>4, <2>1, <2>2
<1>6. BodiesIn(part, {s[i] : i \in {i \in 1 .. Len(s) : 2 * i <= k}})
  <2> SUFFICES ASSUME NEW i \in 1 .. k, part[i][2] = 0
               PROVE  \E n \in 1 .. Len(s) : 2 * n <= k /\ part[i][1] = s[n]
    BY <1>2 DEF BodiesIn
  <2>1. 2 * (i \div 2) <= k
    BY <1>4
  <2> QED
    BY <1>4, <2>1
<1> QED
  BY <1>2, <1>5, <1>6 DEF part

\* A write, wherever it starts and whatever it overwrites, brings no body twice if what it
\* brings is new.
LEMMA WrittenOnce ==
    ASSUME NEW cells \in Seq(CellSet), content \in Seq(CellSet), offset \in 0 .. Len(content),
           NEW S, NEW T, S \cap T = {},
           BodyOnce(content), BodiesIn(content, S), BodyOnce(cells), BodiesIn(cells, T)
    PROVE  BodyOnce(Written(cells)) /\ BodiesIn(Written(cells), S \cup T)
<1> DEFINE end == offset + Len(cells)
           len == IF end > Len(content) THEN end ELSE Len(content)
           new == Written(cells)
<1>1. Len(cells) \in Nat /\ Len(content) \in Nat /\ end \in Nat /\ len \in Nat /\ offset \in Nat
  OBVIOUS
<1>2. DOMAIN new = 1 .. len /\ DOMAIN content = 1 .. Len(content) /\ DOMAIN cells = 1 .. Len(cells)
  BY DEF Written
<1>3. \A i \in 1 .. len : new[i] = IF i \in offset + 1 .. end THEN cells[i - offset] ELSE content[i]
  BY DEF Written
<1> HIDE DEF new
<1>4. ASSUME NEW i \in 1 .. len
      PROVE  \/ i - offset \in DOMAIN cells /\ new[i] = cells[i - offset]
             \/ i \in DOMAIN content /\ new[i] = content[i]
  <2>1. CASE i \in offset + 1 .. end
    BY <1>1, <1>2, <1>3, <2>1
  <2>2. CASE i \notin offset + 1 .. end
    BY <1>1, <1>2, <1>3, <2>2
  <2> QED
    BY <2>1, <2>2
<1>5. BodiesIn(new, S \cup T)
  BY <1>2, <1>4 DEF BodiesIn
<1>6. ASSUME NEW i \in 1 .. len, NEW j \in 1 .. len, new[i] = new[j], new[i][2] = 0
      PROVE  i = j
  <2>1. CASE i - offset \in DOMAIN cells /\ new[i] = cells[i - offset]
    <3>1. CASE j - offset \in DOMAIN cells /\ new[j] = cells[j - offset]
      <4>1. i - offset = j - offset
        BY <1>6, <2>1, <3>1 DEF BodyOnce
      <4> QED
        BY <1>1, <4>1
    <3>2. CASE j \in DOMAIN content /\ new[j] = content[j]
      BY <1>6, <2>1, <3>2 DEF BodiesIn
    <3> QED
      BY <1>4, <3>1, <3>2
  <2>2. CASE i \in DOMAIN content /\ new[i] = content[i]
    <3>1. CASE j - offset \in DOMAIN cells /\ new[j] = cells[j - offset]
      BY <1>6, <2>2, <3>1 DEF BodiesIn
    <3>2. CASE j \in DOMAIN content /\ new[j] = content[j]
      BY <1>6, <2>2, <3>2 DEF BodyOnce
    <3> QED
      BY <1>4, <3>1, <3>2
  <2> QED
    BY <1>4, <2>1, <2>2
<1> QED
  BY <1>2, <1>5, <1>6 DEF BodyOnce, new

MemoryOnce ==
    /\ \A i \in 1 .. Len(memoryObjects) : memoryObjects[i] \in objectHashes
    /\ \A i, j \in 1 .. Len(memoryObjects) : memoryObjects[i] = memoryObjects[j] => i = j
FileOnce ==
    /\ ~tempFile => content = <<>> /\ offset = 0
    /\ BodyOnce(content) /\ BodiesIn(content, objectHashes)
OnceInv == TypeOK /\ MemoryOnce /\ FileOnce

LEMMA OnceInit == Init => OnceInv
BY TypeInit DEF Init, OnceInv, MemoryOnce, FileOnce, BodyOnce, BodiesIn

LEMMA MemoryGrows ==
    ASSUME OnceInv, NEW o \in AllObjects, o \notin objectHashes
    PROVE  LET mem == Append(memoryObjects, o)
           IN  /\ \A i \in 1 .. Len(mem) : mem[i] \in objectHashes \cup {o}
               /\ \A i, j \in 1 .. Len(mem) : mem[i] = mem[j] => i = j
<1> DEFINE mem == Append(memoryObjects, o)
<1>1. /\ Len(memoryObjects) \in Nat /\ Len(mem) = Len(memoryObjects) + 1 /\ mem[Len(mem)] = o
      /\ \A i \in 1 .. Len(memoryObjects) : mem[i] = memoryObjects[i]
  BY DEF OnceInv, TypeOK
<1> HIDE DEF mem
<1>2. \A i \in 1 .. Len(mem) : i = Len(mem) \/ i \in 1 .. Len(memoryObjects)
  BY <1>1
<1>3. \A i \in 1 .. Len(memoryObjects) : mem[i] \in objectHashes
  BY <1>1 DEF OnceInv, MemoryOnce
<1>4. \A i, j \in 1 .. Len(mem) : mem[i] = mem[j] => i = j
  BY <1>1, <1>2, <1>3 DEF OnceInv, MemoryOnce
<1> QED
  BY <1>1, <1>2, <1>3, <1>4 DEF mem

\* What a write to the file brings: of the objects that enter with o, the first ones.
LEMMA BroughtOnce ==
    ASSUME OnceInv, NEW o \in AllObjects, o \notin objectHashes, ~FitsInMemory,
           NEW k \in 0 .. Len(Cells(Append(Migrated, o)))
    PROVE  LET cells == Cells(Append(Migrated, o))
               hashes == IF k < Len(cells) THEN objectHashes ELSE objectHashes \cup {o}
           IN  BodyOnce(Written(SubSeq(cells, 1, k))) /\ BodiesIn(Written(SubSeq(cells, 1, k)), hashes)
<1> DEFINE objs == Append(Migrated, o)
           cells == Cells(objs)
           part == SubSeq(cells, 1, k)
           hashes == IF k < Len(cells) THEN objectHashes ELSE objectHashes \cup {o}
           brought == {objs[i] : i \in {i \in 1 .. Len(objs) : 2 * i <= k}}
<1>1. objs \in Seq(AllObjects) /\ Len(cells) = 2 * Len(objs) /\ Len(objs) \in Nat
  <2>1. objs \in Seq(AllObjects)
    BY MigratedType DEF OnceInv
  <2> HIDE DEF objs
  <2> QED
    BY <2>1, CellsType
<1>2. /\ Migrated \in Seq(AllObjects) /\ Len(objs) = Len(Migrated) + 1 /\ objs[Len(objs)] = o
      /\ \A i \in 1 .. Len(Migrated) : objs[i] = Migrated[i]
  BY DEF OnceInv, TypeOK, Migrated
<1>3. /\ \A i, j \in 1 .. Len(objs) : objs[i] = objs[j] => i = j
      /\ ~tempFile => \A i \in 1 .. Len(Migrated) : Migrated[i] \in objectHashes
      /\ tempFile => Len(Migrated) = 0
  <2>1. CASE tempFile
    <3>1. Migrated = <<>>
      BY <2>1 DEF Migrated
    <3>2. Len(Migrated) = 0 /\ Len(objs) = 1
      BY <3>1
    <3> HIDE DEF objs
    <3> QED
      BY <2>1, <3>2
  <2>2. CASE ~tempFile
    <3>1. Migrated = memoryObjects
      BY <2>2 DEF Migrated
    <3>2. \A i, j \in 1 .. Len(objs) : objs[i] = objs[j] => i = j
      BY <3>1, MemoryGrows
    <3> QED
      BY <2>2, <3>1, <3>2 DEF OnceInv, MemoryOnce
  <2> QED
    BY <2>1, <2>2
<1> HIDE DEF objs
<1>4. part \in Seq(CellSet) /\ BodyOnce(part) /\ BodiesIn(part, brought)
  <2>1. k \in 0 .. 2 * Len(objs)
    BY <1>1 DEF objs
  <2> QED
    BY <1>1, <1>3, <2>1, CellsOnce
<1>5. content \in Seq(CellSet) /\ offset \in 0 .. Len(content) /\ BodyOnce(content)
      /\ BodiesIn(content, objectHashes)
  BY DEF OnceInv, TypeOK, FileOnce
<1> HIDE DEF cells
<1>6. ASSUME NEW b \in brought
      PROVE  IF tempFile THEN b = o /\ k = Len(cells) ELSE b \in hashes
  <2>1. PICK i \in 1 .. Len(objs) : 2 * i <= k /\ b = objs[i]
    OBVIOUS
  <2>2. CASE i = Len(objs)
    <3>1. b = o /\ k = Len(cells)
      BY <1>1, <1>2, <2>1, <2>2 DEF cells, objs
    <3> QED
      BY <3>1
  <2>3. CASE i # Len(objs)
    <3>1. i \in 1 .. Len(Migrated)
      BY <1>1, <1>2, <2>1, <2>3
    <3> QED
      BY <1>2, <1>3, <2>1, <3>1
  <2> QED
    BY <2>2, <2>3
<1> HIDE DEF part, brought
<1>7. CASE tempFile
  <2>1. objectHashes \cap brought = {} /\ objectHashes \cup brought \subseteq hashes
    BY <1>6, <1>7
  <2>2. BodyOnce(Written(part)) /\ BodiesIn(Written(part), objectHashes \cup brought)
    BY <1>4, <1>5, <2>1, WrittenOnce
  <2> QED
    BY <2>1, <2>2 DEF BodiesIn, part, cells, objs
<1>8. CASE ~tempFile
  <2>1. BodiesIn(content, {})
    BY <1>8 DEF OnceInv, FileOnce, BodiesIn
  <2>2. BodyOnce(Written(part)) /\ BodiesIn(Written(part), {} \cup brought)
    BY <1>4, <1>5, <2>1, WrittenOnce
  <2>3. brought \subseteq hashes
    BY <1>6, <1>8
  <2> QED
    BY <2>2, <2>3 DEF BodiesIn, part, cells, objs
<1> QED
  BY <1>7, <1>8

LEMMA OnceStep ==
    ASSUME OnceInv, [Next]_vars
    PROVE  MemoryOnce' /\ FileOnce'
<1>0. TypeOK /\ MemoryOnce /\ FileOnce
  BY DEF OnceInv
<1>1. ASSUME NEW o \in AllObjects, Adding(o), Store(o) PROVE MemoryOnce' /\ FileOnce'
  <2>1. o \notin objectHashes /\ objectHashes' = objectHashes \cup {o}
    BY <1>1 DEF Adding, Store
  <2>2. CASE KeepInMemory(o)
    <3>1. /\ memoryObjects' = Append(memoryObjects, o)
          /\ tempFile' = tempFile /\ content' = content /\ offset' = offset
      BY <2>2 DEF KeepInMemory, file
    <3>2. MemoryOnce'
      BY <2>1, <3>1, MemoryGrows DEF MemoryOnce
    <3>3. FileOnce'
      BY <1>0, <2>1, <3>1 DEF FileOnce, BodyOnce, BodiesIn
    <3> QED
      BY <3>2, <3>3
  <2>3. CASE WriteToFile(o)
    <3> DEFINE cells == Cells(Append(Migrated, o))
    <3>1. /\ ~FitsInMemory /\ tempFile' = TRUE /\ content' = Written(cells)
          /\ memoryObjects' = memoryObjects \/ memoryObjects' = <<>>
      BY <2>3 DEF WriteToFile
    <3>2. cells \in Seq(CellSet)
      BY <1>0, MigratedType
    <3> HIDE DEF cells
    <3>3. Len(cells) \in 0 .. Len(cells) /\ SubSeq(cells, 1, Len(cells)) = cells
      BY <3>2
    <3>4. BodyOnce(Written(cells)) /\ BodiesIn(Written(cells), objectHashes \cup {o})
      <4>1. /\ BodyOnce(Written(SubSeq(cells, 1, Len(cells))))
            /\ BodiesIn(Written(SubSeq(cells, 1, Len(cells))), objectHashes \cup {o})
        <5>1. ~(Len(cells) < Len(cells))
          BY <3>2
        <5> QED
          BY <2>1, <3>1, <3>3, <5>1, BroughtOnce DEF cells
      <4> QED
        BY <3>3, <4>1
    <3>5. FileOnce'
      BY <2>1, <3>1, <3>4 DEF FileOnce, BodyOnce, BodiesIn
    <3>6. MemoryOnce'
      BY <1>0, <2>1, <3>1 DEF MemoryOnce
    <3> QED
      BY <3>5, <3>6
  <2> QED
    BY <1>1, <2>2, <2>3 DEF Store
<1>2. ASSUME NEW o \in Objects, Add(o) PROVE MemoryOnce' /\ FileOnce'
  BY <1>1, <1>2 DEF Add, AllObjects
<1>3. ASSUME NEW c \in Commits, AddCommit(c) PROVE MemoryOnce' /\ FileOnce'
  BY <1>1, <1>3 DEF AddCommit, AllObjects
<1>4. ASSUME NEW o \in AllObjects, AddFails(o) PROVE MemoryOnce' /\ FileOnce'
  <2> DEFINE cells == Cells(Append(Migrated, o))
  <2>1. o \notin objectHashes /\ objectHashes' = objectHashes
    BY <1>4 DEF AddFails, Adding
  <2>2. CASE UNCHANGED storage
    BY <1>0, <2>1, <2>2 DEF storage, file, MemoryOnce, FileOnce, BodyOnce, BodiesIn
  <2>3. CASE ~FitsInMemory /\ tempFile' = TRUE
             /\ (memoryObjects' = memoryObjects \/ memoryObjects' = <<>>)
             /\ \E k \in 0 .. Len(cells) - 1 : content' = Written(SubSeq(cells, 1, k))
    <3>1. PICK k \in 0 .. Len(cells) - 1 : content' = Written(SubSeq(cells, 1, k))
      BY <2>3
    <3>2. cells \in Seq(CellSet)
      BY <1>0, MigratedType
    <3> HIDE DEF cells
    <3>3. k \in 0 .. Len(cells) /\ k < Len(cells)
      BY <3>2
    <3>4. BodyOnce(content') /\ BodiesIn(content', objectHashes)
      BY <2>1, <2>3, <3>1, <3>3, BroughtOnce DEF cells
    <3>5. FileOnce'
      BY <2>1, <2>3, <3>4 DEF FileOnce, BodyOnce, BodiesIn
    <3>6. MemoryOnce'
      BY <1>0, <2>1, <2>3 DEF MemoryOnce
    <3> QED
      BY <3>5, <3>6
  <2> QED
    BY <1>4, <2>2, <2>3 DEF AddFails, DiskFails
<1>5. CASE WritePackfile \/ WriteInterrupted
  <2>1. UNCHANGED <<objectHashes, memoryObjects, tempFile, content>>
    BY <1>5 DEF WritePackfile, WriteInterrupted
  <2>2. ~tempFile => offset' = 0
    BY <1>0, <1>5 DEF WritePackfile, WriteInterrupted, StopsAt, FileOnce
  <2> QED
    BY <1>0, <2>1, <2>2 DEF MemoryOnce, FileOnce, BodyOnce, BodiesIn
<1>6. CASE Cleanup
  BY <1>6 DEF Cleanup, MemoryOnce, FileOnce, BodyOnce, BodiesIn
<1>7. CASE UNCHANGED vars
  BY <1>0, <1>7 DEF vars, storage, file, MemoryOnce, FileOnce, BodyOnce, BodiesIn
<1> QED
  BY <1>2, <1>3, <1>4, <1>5, <1>6, <1>7 DEF Next

\* The stream that WritePackfile would send has no body twice, whatever failed before: not of
\* an object that is added again after a write of it failed, nor of one that a failed
\* migration did write, nor after an overwritten file.
THEOREM EachBodyOnce == Spec => []NoDuplicates
<1>1. OnceInv /\ [Next]_vars => OnceInv'
  BY OnceStep, TypeStep DEF OnceInv
<1>2. ASSUME OnceInv PROVE NoDuplicates
  <2>1. CASE tempFile
    <3>1. DOMAIN content = 1 .. Len(content)
      BY <1>2 DEF OnceInv, TypeOK
    <3> QED
      BY <1>2, <2>1, <3>1 DEF OnceInv, FileOnce, BodyOnce, NoDuplicates, Image
  <2>2. CASE ~tempFile
    <3> DEFINE cells == Cells(memoryObjects)
    <3>1. memoryObjects \in Seq(AllObjects) /\ cells \in Seq(CellSet)
          /\ Len(cells) = 2 * Len(memoryObjects) /\ Len(memoryObjects) \in Nat
      BY <1>2, CellsType DEF OnceInv, TypeOK
    <3>2. BodyOnce(SubSeq(cells, 1, 2 * Len(memoryObjects)))
      <4>1. 2 * Len(memoryObjects) \in 0 .. 2 * Len(memoryObjects)
        BY <3>1
      <4>2. \A i, j \in 1 .. Len(memoryObjects) : memoryObjects[i] = memoryObjects[j] => i = j
        BY <1>2 DEF OnceInv, MemoryOnce
      <4> QED
        BY <3>1, <4>1, <4>2, CellsOnce
    <3>3. Image = cells
      BY <2>2 DEF Image
    <3> HIDE DEF cells
    <3>4. SubSeq(cells, 1, 2 * Len(memoryObjects)) = cells /\ DOMAIN cells = 1 .. Len(cells)
      BY <3>1
    <3>5. BodyOnce(cells)
      BY <3>2, <3>4
    <3> QED
      BY <3>3, <3>4, <3>5 DEF BodyOnce, NoDuplicates
  <2> QED
    BY <2>1, <2>2
<1> QED
  BY <1>1, <1>2, OnceInit, PTL DEF Spec

-----------------------------------------------------------------------------
(***************************************************************************)
(* The bytes of a sequence of objects.  Bytes adds them up one after the   *)
(* other.                                                                  *)
(***************************************************************************)

\* A set of numbers that is not empty has a least element.
LEMMA LeastNat ==
    ASSUME NEW T, T \subseteq Nat, T # {}
    PROVE  \E x \in T : \A y \in T : ~ (y < x)
<1>1. PICK x \in T : \A y \in T : ~ (<<y, x>> \in OpToRel(<, Nat))
  BY WFMin, NatLessThanWellFounded
<1>2. \A y \in T : <<y, x>> \in Nat \X Nat
  OBVIOUS
<1>3. ASSUME NEW y \in T, y < x PROVE FALSE
  <2>1. <<y, x>> \in OpToRel(<, Nat)
    BY <1>2, <1>3 DEF OpToRel
  <2> QED BY <1>1, <2>1
<1> QED BY <1>1, <1>3

\* f adds up the lengths of the first objects of s, one after the other.
Sums(s, f) == [n \in 0 .. Len(s) |-> IF n = 0 THEN 0 ELSE f[n - 1] + Size[s[n]]]

\* The sums with one more object.
SumsAnd(s, f, o) == [n \in 0 .. Len(s) + 1 |-> IF n = Len(s) + 1 THEN f[n - 1] + Size[o] ELSE f[n]]

\* No objects, and one object more.
LEMMA SumsOfNone ==
    LET f == [n \in {0} |-> 0] IN f = Sums(<<>>, f) /\ f \in [0 .. Len(<<>>) -> Nat]
BY DEF Sums

LEMMA SumsAppend ==
    ASSUME NEW s \in Seq(AllObjects), NEW o \in AllObjects,
           NEW f \in [0 .. Len(s) -> Nat], f = Sums(s, f)
    PROVE  LET g == SumsAnd(s, f, o)
           IN  /\ g = Sums(Append(s, o), g)
               /\ g \in [0 .. Len(Append(s, o)) -> Nat]
<1> DEFINE t == Append(s, o)
           g == SumsAnd(s, f, o)
<1>1. /\ Len(s) \in Nat /\ Len(t) = Len(s) + 1 /\ t[Len(t)] = o
      /\ \A i \in 1 .. Len(s) : t[i] = s[i]
  OBVIOUS
<1>2. Size[o] \in Nat
  BY SizeAssumption
<1> HIDE DEF t
<1>3. \A n \in 0 .. Len(t) : n = Len(t) \/ n \in 0 .. Len(s)
  BY <1>1
<1>4. g \in [0 .. Len(t) -> Nat]
  BY <1>1, <1>2, <1>3 DEF SumsAnd
<1>5. \A n \in 0 .. Len(s) : f[n] = IF n = 0 THEN 0 ELSE f[n - 1] + Size[s[n]]
  BY DEF Sums
<1>6. ASSUME NEW n \in 0 .. Len(t)
      PROVE  g[n] = IF n = 0 THEN 0 ELSE g[n - 1] + Size[t[n]]
  <2>1. CASE n = Len(t)
    <3>1. n # 0 /\ n - 1 \in 0 .. Len(s) /\ n - 1 # Len(s) + 1 /\ n \in 0 .. Len(s) + 1
          /\ n = Len(s) + 1
      BY <1>1, <2>1
    <3>2. g[n] = f[n - 1] + Size[o] /\ g[n - 1] = f[n - 1]
      BY <3>1 DEF SumsAnd
    <3> QED
      BY <1>1, <2>1, <3>1, <3>2
  <2>2. CASE n = 0
    <3>1. 0 \in 0 .. Len(s) /\ 0 # Len(s) + 1 /\ 0 \in 0 .. Len(s) + 1
      BY <1>1
    <3> QED
      BY <1>5, <2>2, <3>1 DEF SumsAnd
  <2>3. CASE n # Len(t) /\ n # 0
    <3>1. /\ n \in 0 .. Len(s) + 1 /\ n - 1 \in 0 .. Len(s) + 1
          /\ n # Len(s) + 1 /\ n - 1 # Len(s) + 1
          /\ n \in 1 .. Len(s) /\ n \in 0 .. Len(s)
      BY <1>1, <1>3, <2>3
    <3>2. g[n] = f[n] /\ g[n - 1] = f[n - 1]
      BY <3>1 DEF SumsAnd
    <3> QED
      BY <1>1, <1>5, <2>3, <3>1, <3>2
  <2> QED
    BY <2>1, <2>2, <2>3
<1>7. g = [n \in 0 .. Len(t) |-> g[n]]
  BY <1>4
<1> HIDE DEF g
<1>8. g = Sums(t, g)
  BY <1>6, <1>7 DEF Sums
<1> QED
  BY <1>4, <1>8 DEF g, t

\* There is one sequence of sums: the first difference would have a cause.
LEMMA SumsUnique ==
    ASSUME NEW s, Len(s) \in Nat, NEW f, f = Sums(s, f), NEW g, g = Sums(s, g)
    PROVE  f = g
<1>1. ASSUME NEW n \in 0 .. Len(s), f[n] # g[n]
      PROVE  FALSE
  <2> DEFINE T == {i \in 0 .. Len(s) : f[i] # g[i]}
  <2>1. T \subseteq Nat
    OBVIOUS
  <2>2. T # {}
    BY <1>1
  <2> HIDE DEF T
  <2>3. PICK x \in T : \A y \in T : ~ (y < x)
    BY <2>1, <2>2, LeastNat
  <2>4. x \in 0 .. Len(s) /\ f[x] # g[x]
    BY DEF T
  <2>5. x # 0
    BY <2>4 DEF Sums
  <2>6. x - 1 \in 0 .. Len(s) /\ x - 1 < x
    BY <2>4, <2>5
  <2>7. f[x - 1] = g[x - 1]
    BY <2>3, <2>6 DEF T
  <2>8. f[x] = f[x - 1] + Size[s[x]] /\ g[x] = g[x - 1] + Size[s[x]]
    BY <2>4, <2>5 DEF Sums
  <2> QED
    BY <2>4, <2>7, <2>8
<1>2. f = [n \in 0 .. Len(s) |-> f[n]] /\ g = [n \in 0 .. Len(s) |-> g[n]]
  BY DEF Sums
<1> QED
  BY <1>1, <1>2

\* Bytes is the last of them,
LEMMA BytesIs ==
    ASSUME NEW s, Len(s) \in Nat, NEW f, f = Sums(s, f)
    PROVE  Bytes(s) = f[Len(s)]
<1> DEFINE sum == CHOOSE g : g = Sums(s, g)
<1>1. Bytes(s) = sum[Len(s)]
  BY DEF Bytes, Sums
<1>2. sum = Sums(s, sum)
  OBVIOUS
<1> HIDE DEF sum
<1> QED
  BY <1>1, <1>2, SumsUnique

\* There are such sums.
LEMMA SumsExist ==
    ASSUME NEW s \in Seq(AllObjects)
    PROVE  \E f \in [0 .. Len(s) -> Nat] : f = Sums(s, f)
<1> DEFINE HasSums(n) == \E f \in [0 .. n -> Nat] : f = Sums(SubSeq(s, 1, n), f)
           T == {n \in 0 .. Len(s) : ~HasSums(n)}
<1>1. Len(s) \in Nat /\ SubSeq(s, 1, Len(s)) = s
  OBVIOUS
<1>2. T \subseteq Nat
  OBVIOUS
<1>3. ASSUME T # {} PROVE FALSE
  <2> HIDE DEF T
  <2>1. PICK n \in T : \A m \in T : ~ (m < n)
    BY <1>2, <1>3, LeastNat
  <2>2. n \in 0 .. Len(s) /\ ~HasSums(n)
    BY DEF T
  <2>3. n # 0
    <3>1. SubSeq(s, 1, 0) = <<>> /\ Len(<<>>) = 0
      OBVIOUS
    <3> QED
      BY <2>2, <3>1, SumsOfNone
  <2>4. n - 1 \in 0 .. Len(s) /\ n - 1 < n /\ n \in 1 .. Len(s)
    BY <1>1, <2>2, <2>3
  <2>5. HasSums(n - 1)
    BY <2>1, <2>4 DEF T
  <2> DEFINE u == SubSeq(s, 1, n - 1)
  <2>6. u \in Seq(AllObjects) /\ Len(u) = n - 1 /\ SubSeq(s, 1, n) = Append(u, s[n])
        /\ s[n] \in AllObjects
    BY <2>4, SubSeqProperties
  <2>7. PICK f \in [0 .. n - 1 -> Nat] : f = Sums(u, f)
    BY <2>5
  <2> HIDE DEF u
  <2>8. f \in [0 .. Len(u) -> Nat] /\ Len(Append(u, s[n])) = n
    BY <2>4, <2>6, <2>7
  <2>9. /\ SumsAnd(u, f, s[n]) = Sums(Append(u, s[n]), SumsAnd(u, f, s[n]))
        /\ SumsAnd(u, f, s[n]) \in [0 .. Len(Append(u, s[n])) -> Nat]
    BY <2>6, <2>7, <2>8, SumsAppend
  <2> QED
    BY <2>2, <2>6, <2>8, <2>9
<1>4. Len(s) \notin T
  BY <1>3
<1>5. HasSums(Len(s))
  BY <1>1, <1>4
<1> HIDE DEF T
<1> QED
  BY <1>1, <1>5

\* so it grows by the length of each object.
LEMMA BytesGrow ==
    /\ Bytes(<<>>) = 0
    /\ \A s \in Seq(AllObjects) : Bytes(s) \in Nat
    /\ \A s \in Seq(AllObjects), o \in AllObjects :
           Bytes(Append(s, o)) = Bytes(s) + Size[o]
<1>1. Bytes(<<>>) = 0
  <2> DEFINE f == [n \in {0} |-> 0]
  <2>1. f = Sums(<<>>, f) /\ f[0] = 0 /\ Len(<<>>) = 0
    BY SumsOfNone
  <2> HIDE DEF f
  <2>2. Bytes(<<>>) = f[Len(<<>>)]
    BY <2>1, BytesIs
  <2> QED
    BY <2>1, <2>2
<1>2. ASSUME NEW s \in Seq(AllObjects)
      PROVE  Bytes(s) \in Nat /\ \A o \in AllObjects : Bytes(Append(s, o)) = Bytes(s) + Size[o]
  <2>1. PICK f \in [0 .. Len(s) -> Nat] : f = Sums(s, f)
    BY SumsExist
  <2>2. Len(s) \in Nat /\ Bytes(s) = f[Len(s)]
    BY <2>1, BytesIs
  <2>3. ASSUME NEW o \in AllObjects
        PROVE  Bytes(Append(s, o)) = Bytes(s) + Size[o]
    <3> DEFINE g == SumsAnd(s, f, o)
               t == Append(s, o)
    <3>1. g = Sums(t, g)
      BY <2>1, SumsAppend
    <3>2. Len(t) = Len(s) + 1 /\ Len(t) \in Nat
      BY <2>2
    <3>3. g[Len(s) + 1] = f[Len(s)] + Size[o]
      BY <2>2 DEF SumsAnd
    <3> HIDE DEF g, t
    <3>4. Bytes(t) = g[Len(t)]
      BY <3>1, <3>2, BytesIs
    <3> QED
      BY <2>2, <3>2, <3>3, <3>4 DEF t
  <2> QED
    BY <2>1, <2>2, <2>3
<1> QED
  BY <1>1, <1>2

-----------------------------------------------------------------------------
(***************************************************************************)
(* Memory stays within the thresholds.                                     *)
(***************************************************************************)

\* The bytes in memory are among those that were counted.
Counted == Bytes(memoryObjects) <= totalBytes

BoundInv == OnceInv /\ Counted /\ MemoryBounded

\* What memory holds was acknowledged, each object once.
LEMMA MemoryCount ==
    ASSUME OnceInv
    PROVE  Len(memoryObjects) <= Cardinality(objectHashes)
<1> DEFINE n == Len(memoryObjects)
           held == {memoryObjects[i] : i \in 1 .. n}
<1>1. /\ n \in Nat /\ memoryObjects \in [1 .. n -> AllObjects]
      /\ \A i, j \in 1 .. n : memoryObjects[i] = memoryObjects[j] => i = j
  BY DEF OnceInv, TypeOK, MemoryOnce
<1>2. held \subseteq objectHashes
  BY DEF OnceInv, MemoryOnce
<1>3. IsFiniteSet(objectHashes)
  <2>1. /\ Len(staged) \in Nat
        /\ staged \in Surjection(1 .. Len(staged), objectHashes)
    BY DEF OnceInv, TypeOK, EachOnce, Surjection
  <2>2. IsFiniteSet(1 .. Len(staged))
    BY <2>1, FS_Interval
  <2> QED
    BY <2>1, <2>2, FS_Surjection
<1>4. memoryObjects \in Bijection(1 .. n, held)
  BY <1>1 DEF Bijection, Injection, Surjection, IsInjective
<1>5. ExistsBijection(1 .. n, held)
  BY <1>4 DEF ExistsBijection
<1>6. Cardinality(held) = n
  BY <1>1, <1>5, FS_CountingElements
<1>7. Cardinality(held) <= Cardinality(objectHashes)
  BY <1>2, <1>3, FS_Subset
<1> QED
  BY <1>6, <1>7

LEMMA BoundInit == Init => BoundInv
BY OnceInit, BytesGrow DEF Init, BoundInv, Counted, MemoryBounded

\* An object kept in memory.
LEMMA KeepBounded ==
    ASSUME BoundInv, NEW o \in AllObjects, Adding(o), KeepInMemory(o)
    PROVE  Counted' /\ MemoryBounded'
<1>1. /\ memoryObjects \in Seq(AllObjects) /\ totalBytes \in Nat /\ Size[o] \in Nat
      /\ Bytes(memoryObjects) \in Nat /\ Bytes(memoryObjects) <= totalBytes
  BY SizeAssumption, BytesGrow DEF BoundInv, OnceInv, TypeOK, Counted
<1>2. /\ memoryObjects' = Append(memoryObjects, o) /\ totalBytes' = totalBytes + Size[o]
      /\ FitsInMemory /\ storageMode' = storageMode
  BY DEF KeepInMemory, Adding
<1>3. Bytes(memoryObjects') = Bytes(memoryObjects) + Size[o]
  BY <1>1, <1>2, BytesGrow
<1>4. Counted'
  BY <1>1, <1>2, <1>3 DEF Counted
<1>5. Len(memoryObjects') = Len(memoryObjects) + 1 /\ Front(memoryObjects') = memoryObjects
  BY <1>1, <1>2 DEF Front
<1>6. ASSUME storageMode = "auto"
      PROVE  /\ Len(memoryObjects') <= MemoryThreshold
             /\ Bytes(Front(memoryObjects')) < MemoryBytesThreshold
  <2>1. Cardinality(objectHashes) < MemoryThreshold /\ totalBytes < MemoryBytesThreshold
    BY <1>2, <1>6 DEF FitsInMemory
  <2>2. Len(memoryObjects) <= Cardinality(objectHashes) /\ Cardinality(objectHashes) \in Nat
    <3>1. OnceInv /\ TypeOK
      BY DEF BoundInv, OnceInv
    <3>2. Cardinality(objectHashes) = Len(staged)
      BY <3>1, CountIsLength
    <3>3. Len(staged) \in Nat
      BY <3>1 DEF TypeOK, EachOnce
    <3> QED
      BY <3>1, <3>2, <3>3, MemoryCount
  <2> QED
    BY <1>1, <1>5, <2>1, <2>2, NumbersAssumption
<1> QED
  BY <1>2, <1>4, <1>6 DEF MemoryBounded

\* Whatever else happens, memory is left as it is or emptied, and nothing is
\* subtracted.
LEMMA BoundKept ==
    ASSUME BoundInv, memoryObjects' = memoryObjects \/ memoryObjects' = <<>>,
           storageMode' = storageMode, totalBytes' \in Nat,
           totalBytes' >= totalBytes \/ memoryObjects' = <<>>
    PROVE  Counted' /\ MemoryBounded'
<1>1. /\ memoryObjects \in Seq(AllObjects) /\ totalBytes \in Nat
      /\ Bytes(memoryObjects) \in Nat /\ Bytes(memoryObjects) <= totalBytes /\ Bytes(<<>>) = 0
  BY BytesGrow DEF BoundInv, OnceInv, TypeOK, Counted
<1>2. CASE memoryObjects' = <<>>
  BY <1>1, <1>2 DEF Counted, MemoryBounded
<1>3. CASE memoryObjects' = memoryObjects /\ totalBytes' >= totalBytes
  BY <1>1, <1>3 DEF Counted, MemoryBounded, BoundInv
<1> QED
  BY <1>2, <1>3

\* Every step does one or the other.
LEMMA BoundStep ==
    ASSUME BoundInv, [Next]_vars
    PROVE  Counted' /\ MemoryBounded'
<1>0. totalBytes \in Nat
  BY DEF BoundInv, OnceInv, TypeOK
<1>1. ASSUME NEW o \in AllObjects, Adding(o), Store(o)
      PROVE  Counted' /\ MemoryBounded'
  <2>1. CASE KeepInMemory(o)
    BY <1>1, <2>1, KeepBounded
  <2>2. CASE WriteToFile(o)
    <3>1. /\ memoryObjects' = memoryObjects \/ memoryObjects' = <<>>
          /\ storageMode' = storageMode /\ totalBytes' = totalBytes + Size[o]
      BY <1>1, <2>2 DEF WriteToFile, Adding
    <3>2. totalBytes' \in Nat /\ totalBytes' >= totalBytes
      BY <1>0, <3>1, SizeAssumption
    <3> QED
      BY <3>1, <3>2, BoundKept
  <2> QED
    BY <1>1, <2>1, <2>2 DEF Store
<1>2. ASSUME NEW o \in AllObjects, AddFails(o)
      PROVE  Counted' /\ MemoryBounded'
  <2>1. storageMode' = storageMode /\ DiskFails(o)
    BY <1>2 DEF AddFails, Adding
  <2>2. /\ memoryObjects' = memoryObjects \/ memoryObjects' = <<>>
        /\ totalBytes' \in {totalBytes, totalBytes + 0, totalBytes + Size[o]}
    BY <2>1 DEF DiskFails, storage
  <2>3. totalBytes' \in Nat /\ totalBytes' >= totalBytes
    BY <1>0, <2>2, SizeAssumption
  <2> QED
    BY <2>1, <2>2, <2>3, BoundKept
<1>3. CASE WritePackfile \/ WriteInterrupted \/ UNCHANGED vars
  <2>1. UNCHANGED <<memoryObjects, storageMode, totalBytes>>
    BY <1>3 DEF WritePackfile, WriteInterrupted, vars, storage
  <2>2. totalBytes' \in Nat /\ totalBytes' >= totalBytes
    BY <1>0, <2>1
  <2> QED
    BY <2>1, <2>2, BoundKept
<1>4. CASE Cleanup
  <2>1. memoryObjects' = <<>> /\ storageMode' = storageMode /\ totalBytes' = 0
    BY <1>4 DEF Cleanup
  <2> QED
    BY <2>1, BoundKept
<1>5. ASSUME NEW o \in Objects, Add(o) PROVE Counted' /\ MemoryBounded'
  BY <1>1, <1>5 DEF Add, AllObjects
<1>6. ASSUME NEW c \in Commits, AddCommit(c) PROVE Counted' /\ MemoryBounded'
  BY <1>1, <1>6 DEF AddCommit, AllObjects
<1> QED
  BY <1>2, <1>3, <1>4, <1>5, <1>6 DEF Next

\* In the automatic mode memory never holds more objects than the threshold
\* allows, nor more bytes than the other threshold and one object: also after
\* failed migrations, which count bytes and keep what memory held.
THEOREM MemoryStaysBounded == Spec => []MemoryBounded
<1>1. BoundInv /\ [Next]_vars => BoundInv'
  BY OnceStep, TypeStep, BoundStep DEF BoundInv, OnceInv
<1>2. BoundInv => MemoryBounded
  BY DEF BoundInv
<1> QED
  BY <1>1, <1>2, BoundInit, PTL DEF Spec

=============================================================================
