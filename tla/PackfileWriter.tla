---------------------------- MODULE PackfileWriter ----------------------------
(***************************************************************************)
(* The PackfileWriter of protocol/packfile.go: it collects Git objects in  *)
(* memory or in a temporary file, and writes them as one request to        *)
(* git-receive-pack.                                                       *)
(*                                                                         *)
(* Data abstraction.  In the stream of a pack an object is two cells, the  *)
(* header with its type and size and the deflated body, so that a write or *)
(* a copy can stop inside an object.  Its uncompressed length, which the   *)
(* automatic mode adds up, is Size.                                        *)
(***************************************************************************)
EXTENDS Naturals, FiniteSets, Sequences, SequencesExt

CONSTANTS
    Objects,              \* blobs and trees
    Commits,              \* commits
    NoCommit,             \* the zero hash
    Size,                 \* the length of the data of every object
    Modes,                \* the storage modes the writer is created with
    MemoryThreshold,      \* objects that the automatic mode keeps in memory
    MemoryBytesThreshold, \* bytes after which it moves to a file
    Chunk,                \* cells that io.Copy reads at a time
    Faults,               \* "disk": a write to the file fails
                          \* "pipe": the reader of the request goes away
    MaxBytes              \* bound: failed writes happen up to this total

VARIABLES
    storageMode,
    objectHashes,   \* the objects acknowledged to the caller
    memoryObjects,
    tempFile,       \* is there a temporary file?
    content,        \* the cells in it
    offset,         \* its offset, which writes and reads share
    lastCommitHash, \* NoCommit as long as hasCommit is false
    totalBytes,
    isCleanedUp

VARIABLES  \* history; the program has no such state
    staged,         \* objectHashes in the order they were acknowledged
    interrupted,    \* the last WritePackfile was cut short
    damaged,        \* the disk failed, or something was put on it between a
                    \* request that was cut short and its retry
    sent            \* the last request written to its end, and what was staged

file    == <<tempFile, content, offset>>
storage == <<memoryObjects, file, totalBytes>>
vars    == <<storageMode, objectHashes, storage, lastCommitHash, isCleanedUp,
             staged, interrupted, damaged, sent>>

AllObjects == Objects \cup Commits

ASSUME CommitsAssumption == Objects \cap Commits = {} /\ NoCommit \notin AllObjects
ASSUME SizeAssumption == Size \in [AllObjects -> Nat]
ASSUME ModesAssumption == Modes \subseteq {"memory", "disk", "auto"}
ASSUME NumbersAssumption ==
    /\ MemoryThreshold \in Nat /\ MemoryBytesThreshold \in Nat /\ Chunk \in Nat \ {0}
    /\ MaxBytes \in Nat
ASSUME FaultsAssumption == Faults \subseteq {"disk", "pipe"}

-----------------------------------------------------------------------------
\* The stream of a sequence of objects: for each its header, then its body.
Cells(objs) == [i \in 1 .. 2 * Len(objs) |-> <<objs[(i + 1) \div 2], i % 2>>]

\* The file after cells have been written at its offset: it is not opened for
\* appending.
Written(cells) ==
    LET end == offset + Len(cells)
        len == IF end > Len(content) THEN end ELSE Len(content)
    IN  [i \in 1 .. len |-> IF i \in offset + 1 .. end THEN cells[i - offset]
                            ELSE content[i]]

\* What writeObjects copies into the request.
Image == IF tempFile THEN content ELSE Cells(memoryObjects)

-----------------------------------------------------------------------------
Init ==
    /\ storageMode \in Modes
    /\ objectHashes = {} /\ memoryObjects = <<>>
    /\ tempFile = FALSE /\ content = <<>> /\ offset = 0
    /\ lastCommitHash = NoCommit
    /\ totalBytes = 0
    /\ isCleanedUp = FALSE
    /\ staged = <<>> /\ interrupted = FALSE /\ damaged = FALSE
    /\ sent = {}

(***************************************************************************)
(* addObject.  migrateToFile writes the objects held in memory before the  *)
(* object that no longer goes there; it only runs to create the file.      *)
(***************************************************************************)
\* (Mutants: one object more, bytes that are not counted.)
FitsOneMore ==
    \/ storageMode = "memory"
    \/ /\ storageMode = "auto"
       /\ Cardinality(objectHashes) <= MemoryThreshold
       /\ totalBytes < MemoryBytesThreshold
       /\ ~tempFile
FitsAnyLength ==
    \/ storageMode = "memory"
    \/ storageMode = "auto" /\ Cardinality(objectHashes) < MemoryThreshold /\ ~tempFile
FitsInMemory ==
    \/ storageMode = "memory"
    \/ /\ storageMode = "auto"
       /\ Cardinality(objectHashes) < MemoryThreshold
       /\ totalBytes < MemoryBytesThreshold
       /\ ~tempFile

\* (Mutants: the file starts with the new object; what memory holds is
\* migrated whenever something is left there.)
NothingMigrated == <<>>
MigratedAgain == memoryObjects
Migrated == IF tempFile THEN <<>> ELSE memoryObjects

KeepInMemory(o) ==
    /\ FitsInMemory
    /\ memoryObjects' = Append(memoryObjects, o)
    /\ totalBytes' = totalBytes + Size[o]
    /\ UNCHANGED file

WriteToFile(o) ==
    LET cells == Cells(Append(Migrated, o))
    IN  /\ ~FitsInMemory
        /\ tempFile' = TRUE
        /\ content' = Written(cells)
        /\ offset' = offset + Len(cells)
        /\ memoryObjects' = IF tempFile THEN memoryObjects ELSE <<>>
        /\ totalBytes' = totalBytes + Size[o]

\* The file cannot be created, or the disk takes only the first k cells.
DiskFails(o) ==
    LET cells == Cells(Append(Migrated, o))
    IN  /\ "disk" \in Faults
        /\ ~FitsInMemory
        /\ \/ ~tempFile /\ UNCHANGED storage
           \/ \E k \in 0 .. Len(cells) - 1 :
                LET migrating == k < 2 * Len(Migrated)
                IN  /\ tempFile' = TRUE
                    /\ content' = Written(SubSeq(cells, 1, k))
                    /\ offset' = offset + k
                    /\ memoryObjects' = IF tempFile \/ migrating
                                        THEN memoryObjects ELSE <<>>
                    /\ totalBytes' = totalBytes + IF migrating THEN 0 ELSE Size[o]

\* (Mutant: objects the writer has already are not recognised.)
AddingAgain(o) ==
    /\ ~isCleanedUp
    /\ UNCHANGED <<storageMode, isCleanedUp, interrupted, sent>>
Adding(o) ==
    /\ ~isCleanedUp
    /\ o \notin objectHashes         \* otherwise the call returns at once
    /\ UNCHANGED <<storageMode, isCleanedUp, interrupted, sent>>

Store(o) ==
    /\ KeepInMemory(o) \/ WriteToFile(o)
    /\ objectHashes' = objectHashes \cup {o}
    /\ staged' = Append(staged, o)
    /\ damaged' = (damaged \/ (interrupted /\ tempFile'))

\* AddBlob and AddObject.
Add(o) ==
    /\ Adding(o) /\ Store(o)
    /\ UNCHANGED lastCommitHash

AddCommit(c) ==
    /\ Adding(c) /\ Store(c)
    /\ lastCommitHash' = c

\* AddBlob and AddCommit return the error, AddObject does not.
AddFails(o) ==
    /\ Adding(o) /\ DiskFails(o)
    /\ totalBytes' <= MaxBytes
    /\ damaged' = TRUE
    /\ UNCHANGED <<objectHashes, staged, lastCommitHash>>

-----------------------------------------------------------------------------
(***************************************************************************)
(* WritePackfile.  A file is copied from its start, which leaves its offset *)
(* where the copy ended.                                                   *)
(***************************************************************************)
MayWrite == ~isCleanedUp /\ lastCommitHash # NoCommit

\* (Mutant: the copy goes on where the last one stopped.)
CopiedOnwards == IF tempFile THEN SubSeq(content, offset + 1, Len(content)) ELSE Image
Copied == Image

WritePackfile ==
    /\ MayWrite
    /\ sent' = {[count |-> Cardinality(objectHashes), commit |-> lastCommitHash,
                 body |-> Copied, staged |-> staged]}
    /\ offset' = Len(content)
    /\ interrupted' = FALSE
    /\ UNCHANGED <<storageMode, objectHashes, memoryObjects, tempFile, content,
                   totalBytes, lastCommitHash, isCleanedUp, staged, damaged>>

\* Where the file may be when the reader went away: untouched if it went
\* before the first object, else after a number of chunks.
StopsAt ==
    {offset} \cup {k \in 1 .. Len(content) : k % Chunk = 0 \/ k = Len(content)}

WriteInterrupted ==
    /\ MayWrite
    /\ "pipe" \in Faults
    /\ offset' \in StopsAt
    /\ interrupted' = TRUE
    /\ UNCHANGED <<storageMode, objectHashes, memoryObjects, tempFile, content,
                   totalBytes, lastCommitHash, isCleanedUp, staged, damaged, sent>>

\* An error of closing or removing the file is returned, and changes nothing.
Cleanup ==
    /\ ~isCleanedUp
    /\ isCleanedUp' = TRUE
    /\ objectHashes' = {} /\ memoryObjects' = <<>> /\ staged' = <<>>
    /\ tempFile' = FALSE /\ content' = <<>> /\ offset' = 0
    /\ lastCommitHash' = NoCommit
    /\ totalBytes' = 0
    /\ UNCHANGED <<storageMode, interrupted, damaged, sent>>

Next ==
    \/ \E o \in Objects : Add(o)
    \/ \E c \in Commits : AddCommit(c)
    \/ \E o \in AllObjects : AddFails(o)
    \/ WritePackfile \/ WriteInterrupted \/ Cleanup

Spec == Init /\ [][Next]_vars
-----------------------------------------------------------------------------
EachOnce ==
    /\ staged \in Seq(AllObjects)
    /\ objectHashes = {staged[i] : i \in 1 .. Len(staged)}
    /\ \A i, j \in 1 .. Len(staged) : staged[i] = staged[j] => i = j

CellSet == AllObjects \X {0, 1}

\* The state has the shape of the program's data, and the history the shape
\* of the state: the objects acknowledged are those of staged, each once.
TypeOK ==
    /\ storageMode \in Modes
    /\ EachOnce
    /\ memoryObjects \in Seq(AllObjects)
    /\ tempFile \in BOOLEAN
    /\ content \in Seq(CellSet)
    /\ offset \in 0 .. Len(content)
    /\ lastCommitHash \in objectHashes \cup {NoCommit}
    /\ totalBytes \in Nat
    /\ isCleanedUp \in BOOLEAN /\ interrupted \in BOOLEAN /\ damaged \in BOOLEAN

\* Whatever the storage mode, wherever in the collection of objects the
\* automatic mode moved from memory to a file, and however many requests were
\* cut short: what WritePackfile would copy is the acknowledged objects, whole,
\* in order and each once.
StreamIsStaged == ~damaged => Image = Cells(staged)

\* A request that was written to its end announces as many objects as follow,
\* they are the ones staged at that moment, and the commit it moves the branch
\* to is one of them; also after earlier attempts that were cut short.
SentIsWhole ==
    ~damaged => \A r \in sent :
        /\ r.body = Cells(r.staged)
        /\ r.count = Len(r.staged)
        /\ \E i \in 1 .. Len(r.staged) : r.staged[i] = r.commit

\* The automatic mode keeps few objects in memory, and few bytes: without the
\* one added last they are below the threshold.  So it is after disk failures.
Bytes(objs) ==
    LET sum[n \in 0 .. Len(objs)] == IF n = 0 THEN 0 ELSE sum[n - 1] + Size[objs[n]]
    IN  sum[Len(objs)]

MemoryBounded ==
    storageMode = "auto" /\ memoryObjects # <<>> =>
        /\ Len(memoryObjects) <= MemoryThreshold
        /\ Bytes(Front(memoryObjects)) < MemoryBytesThreshold

\* No object gets into the stream twice, not even one that is added again
\* after a write of it failed half way, or one that a migration did write
\* before it failed: a reader would count more objects than were announced.
NoDuplicates ==
    \A i, j \in 1 .. Len(Image) : Image[i] = Image[j] /\ Image[i][2] = 0 => i = j

\* protocol/packfile.go:1100: WritePackfile writes all objects.
AllObjectsWritten ==
    MayWrite => \A o \in objectHashes :
        \E i \in 2 .. Len(Image) : Image[i - 1] = <<o, 1>> /\ Image[i] = <<o, 0>>

=============================================================================
