------------------------------ MODULE CloneProofs ------------------------------
(***************************************************************************)
(* Proofs about Clone, for any trees, batches, limits of concurrency,      *)
(* contents of the storage and of the directory, and faults: what Clone    *)
(* leaves in the directory is as it should be if the filter keeps the      *)
(* right entries.                                                          *)
(***************************************************************************)
EXTENDS Clone, SequenceTheorems, TLAPS

-----------------------------------------------------------------------------
(* Jobs are at work only while the call is.                                *)
Idle(j) == at[j] \in {"queued", "ended"}

Settled ==
    /\ DOMAIN at = DOMAIN jobs
    /\ pc \in {"clone", "work", "done"}
    /\ pc # "work" => \A j \in DOMAIN jobs : Idle(j)

LEMMA InitSettled == Init => Settled
  BY DEF Init, Settled

\* A step of a job is a step of one that is neither queued nor ended.
LEMMA JobAtWork ==
    ASSUME NEW j \in Jobs, JobStep(j)
    PROVE  /\ ~Idle(j)
           /\ UNCHANGED <<pc, inputs, jobs, next, result>>
           /\ \E a \in {"found", "each", "write", "ended"} : at' = [at EXCEPT ![j] = a]
                                                            \/ at' = at
<1>1. CASE FetchBlobBatch(j)
  BY <1>1 DEF FetchBlobBatch, Fail, Idle, inputs
<1>2. CASE WriteFound(j)
  BY <1>2 DEF WriteFound, Write, Fail, Idle, inputs
<1>3. CASE FoundDone(j)
  BY <1>3 DEF FoundDone, Idle, inputs
<1>4. CASE GetBlob(j)
  BY <1>4 DEF GetBlob, Fail, Idle, inputs
<1>5. CASE WriteFile(j)
  BY <1>5 DEF WriteFile, Write, Fail, Idle, inputs
<1>6. CASE EndJob(j)
  BY <1>6 DEF EndJob, Idle, inputs
<1> QED
  BY <1>1, <1>2, <1>3, <1>4, <1>5, <1>6 DEF JobStep

LEMMA NextSettled == Settled /\ [Next]_vars => Settled'
<1> SUFFICES ASSUME Settled, [Next]_vars PROVE Settled'
  OBVIOUS
<1>1. CASE Begin
  <2>1. CASE pc' = "work"
    BY <1>1, <2>1 DEF Begin, Settled
  <2>2. CASE pc' # "work"
    BY <1>1, <2>2 DEF Begin, Settled, Idle
  <2> QED
    BY <2>1, <2>2
<1>2. CASE Submit
  BY <1>2 DEF Submit, Settled
<1>3. CASE Return
  <2>1. \A j \in DOMAIN jobs : Idle(j)
    BY <1>3 DEF Return, Finished, Running, Jobs, Idle
  <2> QED
    BY <1>3, <2>1 DEF Return, work, Settled, Idle
<1>4. ASSUME NEW j \in Jobs, JobStep(j) PROVE Settled'
  <2>1. pc = "work"
    BY <1>4, JobAtWork DEF Settled, Jobs
  <2> QED
    BY <1>4, <2>1, JobAtWork DEF Settled
<1>5. CASE UNCHANGED vars
  BY <1>5 DEF vars, Settled, Idle
<1> QED
  BY <1>1, <1>2, <1>3, <1>4, <1>5 DEF Next

-----------------------------------------------------------------------------
(* Batches: each entry that the filter keeps is in one.                    *)
In(e, s) == \E i \in DOMAIN s : s[i] = e

LEMMA DivFacts ==
    ASSUME NEW a \in Nat, NEW s \in Nat \ {0}
    PROVE  a \div s \in Nat /\ s * (a \div s) <= a /\ a < s * (a \div s) + s
  OBVIOUS

\* The pieces of length s of n things, the last one perhaps shorter, cover them all.
Pieces(n, s) == (n + s - 1) \div s
Start(k, s) == (k - 1) * s + 1
End(k, n, s) == IF k * s < n THEN k * s ELSE n

LEMMA InPiece ==
    ASSUME NEW n \in Nat, NEW s \in Nat \ {0}, NEW i \in 1 .. n, NEW k \in Int,
           s * (k - 1) <= i - 1, i - 1 < s * (k - 1) + s
    PROVE  i \in Start(k, s) .. End(k, n, s)
<1> DEFINE x == s * (k - 1)
<1>1. Start(k, s) = x + 1 /\ k * s = x + s /\ x \in Int
  BY SMT DEF Start
<1>2. End(k, n, s) = IF k * s < n THEN k * s ELSE n
  BY DEF End
<1>3. End(k, n, s) = IF x + s < n THEN x + s ELSE n
  BY <1>1, <1>2
<1>4. x <= i - 1 /\ i - 1 < x + s
  OBVIOUS
<1> HIDE DEF x
<1> QED
  BY <1>1, <1>3, <1>4

LEMMA PiecesCover ==
    ASSUME NEW n \in Nat, NEW s \in Nat \ {0}, NEW i \in 1 .. n
    PROVE  \E k \in 1 .. Pieces(n, s) : i \in Start(k, s) .. End(k, n, s)
<1> DEFINE q == (i - 1) \div s
           m == Pieces(n, s)
<1>1. q \in Nat /\ s * q <= i - 1 /\ i - 1 < s * q + s
  BY DivFacts
<1>2. m \in Nat /\ s * m <= n + s - 1 /\ n + s - 1 < s * m + s
  BY DivFacts DEF Pieces
<1> HIDE DEF q, m
<1>3. q < m
  <2> SUFFICES ASSUME m <= q PROVE FALSE
    BY <1>1, <1>2
  <2> DEFINE x == s * m
             y == s * q
  <2>1. x <= y /\ x \in Int /\ y \in Int
    BY <1>1, <1>2
  <2> HIDE DEF x, y
  <2> QED
    BY <2>1, <1>1, <1>2 DEF x, y
<1> DEFINE k == q + 1
<1>4. k \in 1 .. m /\ s * (k - 1) <= i - 1 /\ i - 1 < s * (k - 1) + s
  BY <1>1, <1>2, <1>3
<1> HIDE DEF k
<1> QED
  BY <1>2, <1>4, InPiece DEF m

LEMMA BatchesCover ==
    ASSUME FilterRight, NEW c \in Calls
    PROVE  /\ Batches(c) \in Seq(Seq(Wanted(c)))
           /\ \A e \in Wanted(c) : \E j \in DOMAIN Batches(c) : In(e, Batches(c)[j])
<1> DEFINE blobs == BlobEntries(c)
           n == Len(blobs)
           s == Size(c)
           batch(k) == SubSeq(blobs, Start(k, s), End(k, n, s))
<1>1. blobs \in Seq(Wanted(c)) /\ \A e \in Wanted(c) : In(e, blobs)
  BY DEF FilterRight, In
<1>2. s \in Nat \ {0}
  BY CallsAssumption DEF Size, Batched
<1>3. n \in Nat /\ DOMAIN blobs = 1 .. n /\ \A i \in 1 .. n : blobs[i] \in Wanted(c)
  BY <1>1
<1>4. Batches(c) = [k \in 1 .. Pieces(n, s) |-> batch(k)]
  BY DEF Batches, Pieces, Start, End
<1> HIDE DEF blobs, n, s
<1>5. Pieces(n, s) \in Nat
  BY <1>2, <1>3, DivFacts DEF Pieces
<1>6. ASSUME NEW k \in 1 .. Pieces(n, s)
      PROVE  /\ batch(k) \in Seq(Wanted(c))
             /\ \A i \in Start(k, s) .. End(k, n, s) : In(blobs[i], batch(k))
  <2> DEFINE a == (k - 1) * s
             b == End(k, n, s)
  <2>1. a \in Nat /\ k * s \in Nat
    BY <1>2, <1>5
  <2>2. b \in Nat /\ b <= n
    BY <1>3, <2>1 DEF End
  <2> HIDE DEF a, b
  <2>3. \A i \in a + 1 .. b : blobs[i] \in Wanted(c)
    BY <1>3, <2>1, <2>2
  <2>4. /\ SubSeq(blobs, a + 1, b) \in Seq(Wanted(c))
        /\ Len(SubSeq(blobs, a + 1, b)) = IF a + 1 <= b THEN b - (a + 1) + 1 ELSE 0
        /\ \A i \in 1 .. b - (a + 1) + 1 : SubSeq(blobs, a + 1, b)[i] = blobs[a + 1 + i - 1]
    BY <2>1, <2>2, <2>3, SubSeqProperties
  <2>5. ASSUME NEW i \in a + 1 .. b
        PROVE  In(blobs[i], SubSeq(blobs, a + 1, b))
    <3>1. i - a \in 1 .. Len(SubSeq(blobs, a + 1, b))
      BY <2>1, <2>2, <2>4
    <3>2. SubSeq(blobs, a + 1, b)[i - a] = blobs[i]
      BY <2>1, <2>2, <2>4
    <3> QED
      BY <3>1, <3>2, <2>4 DEF In
  <2> QED
    BY <2>4, <2>5 DEF a, b, Start
<1>7. \A k \in 1 .. Pieces(n, s) : Batches(c)[k] = batch(k)
  BY <1>4
<1>8. DOMAIN Batches(c) = 1 .. Pieces(n, s)
  BY <1>4
<1>9. Batches(c) \in Seq(Seq(Wanted(c)))
  <2> DEFINE N == Pieces(n, s)
             S == Seq(Wanted(c))
  <2>1. \A k \in 1 .. N : Batches(c)[k] \in S
    BY <1>6, <1>7
  <2>2. N \in Nat /\ Batches(c) = [k \in 1 .. N |-> Batches(c)[k]]
    BY <1>4, <1>5, <1>7
  <2> HIDE DEF N, S
  <2>3. Batches(c) \in Seq(S)
    BY <2>1, <2>2
  <2> QED
    BY <2>3 DEF S
<1>10. ASSUME NEW e \in Wanted(c)
       PROVE  \E j \in DOMAIN Batches(c) : In(e, Batches(c)[j])
  <2>1. PICK i \in 1 .. n : blobs[i] = e
    BY <1>1, <1>3 DEF In
  <2>2. PICK k \in 1 .. Pieces(n, s) : i \in Start(k, s) .. End(k, n, s)
    BY <1>2, <1>3, PiecesCover
  <2> QED
    BY <2>1, <2>2, <1>6, <1>7, <1>8
<1> QED
  BY <1>9, <1>10

-----------------------------------------------------------------------------
(* Shapes, and what a step of a job can be.                                *)
W == Wanted(call)

Shape ==
    /\ call \in Calls /\ before \in Disks
    /\ jobs \in Seq(Seq(W))
    /\ at \in [DOMAIN jobs -> {"queued", "batch", "found", "each", "write", "ended"}]
    /\ todo \in [DOMAIN jobs -> Seq(W)]
    /\ missing \in [DOMAIN jobs -> Seq(W)]
    /\ failed \in BOOLEAN
    /\ \A j \in DOMAIN jobs : at[j] = "write" => todo[j] # <<>>

Same == UNCHANGED <<pc, inputs, jobs, next, result>>

\* It fails, and may leave a file that it was writing torn.
Fails(j) ==
    /\ failed' = TRUE /\ at' = [at EXCEPT ![j] = "ended"]
    /\ UNCHANGED <<todo, missing>>
    /\ disk' = disk \/ (todo[j] # <<>> /\ disk' = WithFile(Head(todo[j]).path, "torn"))
\* It writes the next of its entries.
Writes(j) ==
    /\ todo[j] # <<>> /\ todo' = [todo EXCEPT ![j] = Tail(todo[j])]
    /\ disk' = WithFile(Head(todo[j]).path, Head(todo[j]).hash)
    /\ at' = [at EXCEPT ![j] = IF at[j] = "found" THEN "found" ELSE "each"]
    /\ UNCHANGED <<missing, failed>>
\* It puts off an entry whose blob is not in the response.
PutsOff(j) ==
    /\ at[j] = "found" /\ todo[j] # <<>>
    /\ todo' = [todo EXCEPT ![j] = Tail(todo[j])]
    /\ missing' = [missing EXCEPT ![j] = Append(missing[j], Head(todo[j]))]
    /\ UNCHANGED <<disk, at, failed>>
\* It turns to what was put off.
TurnsBack(j) ==
    /\ at[j] = "found" /\ todo[j] = <<>>
    /\ todo' = [todo EXCEPT ![j] = missing[j]]
    /\ at' = [at EXCEPT ![j] = "each"]
    /\ UNCHANGED <<disk, missing, failed>>
\* It has a response, a blob, or nothing left to do.
Moves(j) ==
    /\ at[j] # "found"
    /\ \/ at' = [at EXCEPT ![j] = "found"]
       \/ todo[j] # <<>> /\ at' = [at EXCEPT ![j] = "write"]
       \/ todo[j] = <<>> /\ at' = [at EXCEPT ![j] = "ended"]
    /\ UNCHANGED <<disk, todo, missing, failed>>

LEMMA Kinds ==
    ASSUME Shape, NEW j \in DOMAIN jobs, JobStep(j)
    PROVE  Same /\ (Fails(j) \/ Writes(j) \/ PutsOff(j) \/ TurnsBack(j) \/ Moves(j))
<1>1. CASE FetchBlobBatch(j)
  BY <1>1 DEF FetchBlobBatch, Fail, Same, Fails, Moves
<1>2. CASE WriteFound(j)
  <2>2. CASE Head(todo[j]).hash \notin got[j]
    BY <1>2, <2>2 DEF WriteFound, Same, PutsOff
  <2>3. CASE Head(todo[j]).hash \in got[j]
    BY <1>2, <2>3 DEF WriteFound, Write, Fail, Same, Writes, Fails
  <2> QED
    BY <2>2, <2>3
<1>3. CASE FoundDone(j)
  BY <1>3 DEF FoundDone, Fallback, Same, TurnsBack
<1>4. CASE GetBlob(j)
  BY <1>4 DEF GetBlob, Fail, Same, Fails, Moves
<1>5. CASE WriteFile(j)
  <2>1. todo[j] # <<>> /\ at[j] = "write"
    BY <1>5 DEF WriteFile, Shape
  <2> QED
    BY <1>5, <2>1 DEF WriteFile, Write, Fail, Same, Writes, Fails
<1>6. CASE EndJob(j)
  BY <1>6 DEF EndJob, Same, Moves
<1> QED
  BY <1>1, <1>2, <1>3, <1>4, <1>5, <1>6 DEF JobStep

LEMMA SameWanted == ASSUME call' = call PROVE W' = W
  BY DEF W, Wanted

LEMMA InitShape == Init => Shape
<1> SUFFICES ASSUME Init PROVE Shape
  OBVIOUS
<1>1. jobs \in Seq(Seq(W)) /\ DOMAIN jobs = {}
  BY DEF Init
<1>2. /\ at \in [DOMAIN jobs -> {"queued", "batch", "found", "each", "write", "ended"}]
      /\ todo \in [DOMAIN jobs -> Seq(W)] /\ missing \in [DOMAIN jobs -> Seq(W)]
  BY <1>1 DEF Init
<1> QED
  BY <1>1, <1>2 DEF Init, Shape

LEMMA NextShape ==
    ASSUME FilterRight, Shape, [Next]_vars
    PROVE  Shape'
<1> DEFINE V == W
<1>0. W' = V
  BY SameWanted DEF Next, Begin, Submit, Return, JobStep, FetchBlobBatch, WriteFound, FoundDone,
     GetBlob, WriteFile, EndJob, inputs, vars
<1> HIDE DEF V
<1>1. CASE Begin
  <2>1. Batches(call) \in Seq(Seq(V))
    BY BatchesCover DEF Shape, V, W
  <2>2. CASE pc' = "work"
    <3>1. /\ jobs' \in Seq(Seq(V)) /\ todo' = jobs'
          /\ at' = [j \in DOMAIN jobs' |-> "queued"]
          /\ missing' = [j \in DOMAIN jobs' |-> <<>>]
      BY <1>1, <2>1, <2>2 DEF Begin
    <3>2. todo' \in [DOMAIN jobs' -> Seq(V)]
      BY <3>1
    <3> QED
      BY <1>0, <1>1, <3>1, <3>2 DEF Begin, Shape, inputs
  <2>3. CASE pc' # "work"
    BY <1>0, <1>1, <2>3 DEF Begin, Shape, V, inputs
  <2> QED
    BY <2>2, <2>3
<1>2. CASE Submit
  BY <1>0, <1>2 DEF Submit, Shape, V, inputs
<1>3. CASE Return
  BY <1>0, <1>3 DEF Return, Shape, V, inputs, work
<1>4. ASSUME NEW j \in Jobs, JobStep(j) PROVE Shape'
  <2>1. /\ jobs \in Seq(Seq(V)) /\ todo[j] \in Seq(V) /\ missing[j] \in Seq(V)
        /\ j \in DOMAIN jobs
    BY DEF Shape, V, Jobs
  <2>2. todo[j] # <<>> => Head(todo[j]) \in V /\ Tail(todo[j]) \in Seq(V)
    BY <2>1
  <2>3. Same /\ (Fails(j) \/ Writes(j) \/ PutsOff(j) \/ TurnsBack(j) \/ Moves(j))
    BY <1>4, <2>1, Kinds
  <2>4. CASE Fails(j)
    BY <1>0, <2>1, <2>3, <2>4 DEF Same, Fails, Shape, V, inputs
  <2>5. CASE Writes(j)
    BY <1>0, <2>1, <2>2, <2>3, <2>5 DEF Same, Writes, Shape, V, inputs
  <2>6. CASE PutsOff(j)
    BY <1>0, <2>1, <2>2, <2>3, <2>6 DEF Same, PutsOff, Shape, V, inputs
  <2>7. CASE TurnsBack(j)
    BY <1>0, <2>1, <2>3, <2>7 DEF Same, TurnsBack, Shape, V, inputs
  <2>8. CASE Moves(j)
    BY <1>0, <2>1, <2>3, <2>8 DEF Same, Moves, Shape, V, inputs
  <2> QED
    BY <2>3, <2>4, <2>5, <2>6, <2>7, <2>8
<1>5. CASE UNCHANGED vars
  BY <1>0, <1>5 DEF vars, Shape, V, inputs
<1> QED
  BY <1>1, <1>2, <1>3, <1>4, <1>5 DEF Next

-----------------------------------------------------------------------------
(* What is in the directory.                                               *)
Paths == {e.path : e \in W}
Old(p) == IF p \in DOMAIN before THEN {before[p]} ELSE {}
OnDisk(e) == e.path \in DOMAIN disk /\ disk[e.path] = e.hash

NothingElse ==
    /\ DOMAIN disk \subseteq DOMAIN before \cup Paths
    /\ DOMAIN before \subseteq DOMAIN disk
    /\ \A p \in DOMAIN disk \ Paths : disk[p] = before[p]
    /\ \A e \in W :
           e.path \in DOMAIN disk =>
               disk[e.path] \in {e.hash} \cup Old(e.path) \cup (IF failed THEN {"torn"} ELSE {})

LEMMA Unique ==
    ASSUME NEW c \in Calls, NEW e \in Wanted(c), NEW f \in Wanted(c), e.path = f.path
    PROVE  e = f
  BY CallsAssumption DEF Wanted

\* A file that is written with the content of its entry, or torn by a failure.
LEMMA WritesSane ==
    ASSUME Shape, NothingElse, W' = W, before' = before,
           NEW e \in W, NEW x, disk' = WithFile(e.path, x),
           failed => failed',
           x = e.hash \/ (x = "torn" /\ failed')
    PROVE  NothingElse'
<1>1. /\ DOMAIN disk' = DOMAIN disk \cup {e.path}
      /\ disk'[e.path] = x
      /\ \A p \in DOMAIN disk : p # e.path => disk'[p] = disk[p]
  BY DEF WithFile
<1>2. Paths' = Paths /\ e.path \in Paths
  BY DEF Paths
<1>3. \A p : Old(p)' = Old(p)
  BY DEF Old
<1>4. DOMAIN disk' \subseteq DOMAIN before \cup Paths /\ DOMAIN before \subseteq DOMAIN disk'
  BY <1>1, <1>2 DEF NothingElse
<1>5. \A p \in DOMAIN disk' \ Paths : disk'[p] = before[p]
  BY <1>1, <1>2 DEF NothingElse
<1>6. ASSUME NEW f \in W, f.path \in DOMAIN disk'
      PROVE  disk'[f.path] \in {f.hash} \cup Old(f.path) \cup (IF failed' THEN {"torn"} ELSE {})
  <2>1. CASE f.path = e.path
    <3>1. f = e
      BY <2>1, Unique DEF Shape, W
    <3> QED
      BY <1>1, <3>1
  <2>2. CASE f.path # e.path
    <3>1. f.path \in DOMAIN disk /\ disk'[f.path] = disk[f.path]
      BY <1>1, <1>6, <2>2
    <3> QED
      BY <3>1 DEF NothingElse, Shape
  <2> QED
    BY <2>1, <2>2
<1> QED
  BY <1>2, <1>3, <1>4, <1>5, <1>6 DEF NothingElse

LEMMA InitNothingElse == Init => NothingElse
  BY DEF Init, NothingElse, Old

LEMMA KeptNothingElse ==
    ASSUME NothingElse, W' = W, before' = before, disk' = disk, failed' = failed
    PROVE  NothingElse'
<1>1. Paths' = Paths /\ \A p : Old(p)' = Old(p)
  BY DEF Paths, Old
<1> QED
  BY <1>1 DEF NothingElse

LEMMA CallsKept == [Next]_vars => UNCHANGED inputs
  BY DEF Next, Begin, Submit, Return, JobStep, FetchBlobBatch, WriteFound, FoundDone,
     GetBlob, WriteFile, EndJob, inputs, vars

LEMMA NextNothingElse ==
    ASSUME Shape, NothingElse, [Next]_vars
    PROVE  NothingElse'
<1>0. W' = W /\ before' = before
  BY CallsKept, SameWanted DEF inputs
<1>1. CASE Begin \/ Submit \/ Return \/ UNCHANGED vars
  <2>1. disk' = disk /\ failed' = failed
    BY <1>1 DEF Begin, Submit, Return, vars, work
  <2> QED
    BY <1>0, <2>1, KeptNothingElse
<1>2. ASSUME NEW j \in Jobs, JobStep(j) PROVE NothingElse'
  <2>1. j \in DOMAIN jobs /\ (todo[j] # <<>> => Head(todo[j]) \in W)
    BY DEF Jobs, Shape
  <2>2. Fails(j) \/ Writes(j) \/ PutsOff(j) \/ TurnsBack(j) \/ Moves(j)
    BY <1>2, <2>1, Kinds
  <2>3. CASE Fails(j)
    <3>1. CASE disk' = disk
      <4>1. Paths' = Paths /\ \A p : Old(p)' = Old(p)
        BY <1>0 DEF Paths, Old
      <4> QED
        BY <1>0, <2>3, <3>1, <4>1 DEF Fails, NothingElse
    <3>2. CASE todo[j] # <<>> /\ disk' = WithFile(Head(todo[j]).path, "torn")
      BY <1>0, <2>1, <2>3, <3>2, WritesSane DEF Fails
    <3> QED
      BY <2>3, <3>1, <3>2 DEF Fails
  <2>4. CASE Writes(j)
    BY <1>0, <2>1, <2>4, WritesSane DEF Writes
  <2>5. CASE PutsOff(j) \/ TurnsBack(j) \/ Moves(j)
    BY <1>0, <2>5, KeptNothingElse DEF PutsOff, TurnsBack, Moves
  <2> QED
    BY <2>2, <2>3, <2>4, <2>5
<1> QED
  BY <1>1, <1>2 DEF Next

-----------------------------------------------------------------------------
(* Progress: as long as nothing failed, an entry of a batch is on disk or  *)
(* still to be written.                                                    *)
ToDo(j, e) == In(e, todo[j]) \/ (at[j] = "found" /\ In(e, missing[j]))

NothingLost ==
    /\ next \in Nat
    /\ pc = "clone" => next = 1
    /\ pc = "work" => \A e \in W : \E j \in DOMAIN jobs : In(e, jobs[j])
    /\ \A j \in DOMAIN jobs : at[j] = "queued" <=> j >= next
    /\ ~failed =>
         \A j \in DOMAIN jobs :
            /\ \A e \in W : In(e, jobs[j]) => OnDisk(e) \/ ToDo(j, e)
            /\ at[j] = "ended" => todo[j] = <<>>

\* What a return without an error promises.
Promised ==
    /\ result = "ok" => pc = "done" /\ ~failed /\ \A e \in W : OnDisk(e)

LEMMA HeadOrTail ==
    ASSUME NEW S, NEW s \in Seq(S), s # <<>>, NEW e, In(e, s)
    PROVE  e = Head(s) \/ In(e, Tail(s))
<1>1. PICK i \in 1 .. Len(s) : s[i] = e
  BY DEF In
<1>2. CASE i = 1
  BY <1>1, <1>2
<1>3. CASE i # 1
  <2>1. i - 1 \in 1 .. Len(Tail(s)) /\ Tail(s)[i - 1] = s[i]
    BY <1>3
  <2>2. DOMAIN Tail(s) = 1 .. Len(Tail(s))
    OBVIOUS
  <2>3. i - 1 \in DOMAIN Tail(s) /\ Tail(s)[i - 1] = e
    BY <1>1, <2>1, <2>2
  <2> QED
    BY <2>3, Zenon DEF In
<1> QED
  BY <1>2, <1>3

LEMMA InAppended ==
    ASSUME NEW S, NEW s \in Seq(S), NEW x \in S
    PROVE  In(x, Append(s, x)) /\ \A e : In(e, s) => In(e, Append(s, x))
<1>1. /\ DOMAIN Append(s, x) = 1 .. Len(s) + 1 /\ Append(s, x)[Len(s) + 1] = x
      /\ \A i \in 1 .. Len(s) : Append(s, x)[i] = s[i]
  OBVIOUS
<1> QED
  BY <1>1 DEF In

\* What is on disk stays there unless a failure tears it: no two entries have one path.
LEMMA StaysOnDisk ==
    ASSUME Shape, NEW e \in W, NEW f \in W, OnDisk(e) \/ e = f, disk' = WithFile(f.path, f.hash)
    PROVE  e.path \in DOMAIN disk' /\ disk'[e.path] = e.hash
<1>1. /\ DOMAIN disk' = DOMAIN disk \cup {f.path}
      /\ disk'[f.path] = f.hash
      /\ \A p \in DOMAIN disk : p # f.path => disk'[p] = disk[p]
  BY DEF WithFile
<1>2. e.path = f.path => e = f
  BY Unique DEF Shape, W
<1> QED
  BY <1>1, <1>2 DEF OnDisk

LEMMA JobLosesNothing ==
    ASSUME Shape, NothingLost, W' = W, NEW j \in DOMAIN jobs, JobStep(j), ~failed'
    PROVE  \A k \in DOMAIN jobs :
              /\ \A e \in W : In(e, jobs[k]) => OnDisk(e)' \/ ToDo(k, e)'
              /\ at'[k] = "ended" => todo'[k] = <<>>
<1>1. Same /\ (Writes(j) \/ PutsOff(j) \/ TurnsBack(j) \/ Moves(j))
  BY Kinds DEF Fails
<1>2. ~failed
  BY <1>1 DEF Writes, PutsOff, TurnsBack, Moves
<1>3. \A k \in DOMAIN jobs :
         /\ todo[k] \in Seq(W) /\ missing[k] \in Seq(W)
         /\ k \in DOMAIN at /\ k \in DOMAIN todo /\ k \in DOMAIN missing
  BY DEF Shape
<1>4. \A k \in DOMAIN jobs :
         /\ \A e \in W : In(e, jobs[k]) => OnDisk(e) \/ ToDo(k, e)
         /\ at[k] = "ended" => todo[k] = <<>>
  BY <1>2 DEF NothingLost
<1>5. todo[j] # <<>> => Head(todo[j]) \in W
  BY <1>3
<1>6. CASE Writes(j)
  <2>1. \A e \in W : OnDisk(e) \/ e = Head(todo[j]) => OnDisk(e)'
    BY <1>5, <1>6, StaysOnDisk DEF Writes, OnDisk
  <2>2. \A k \in DOMAIN jobs : k # j =>
           at'[k] = at[k] /\ todo'[k] = todo[k] /\ missing'[k] = missing[k]
    BY <1>3, <1>6 DEF Writes
  <2>3. /\ todo'[j] = Tail(todo[j]) /\ missing'[j] = missing[j] /\ at'[j] # "ended"
        /\ at[j] = "found" => at'[j] = "found"
    BY <1>3, <1>6 DEF Writes
  <2>4. \A e \in W : In(e, todo[j]) => e = Head(todo[j]) \/ In(e, todo'[j])
    BY <1>3, <1>6, <2>3, HeadOrTail DEF Writes
  <2>5. \A e \in W : ToDo(j, e) => OnDisk(e)' \/ ToDo(j, e)'
    BY <2>1, <2>3, <2>4 DEF ToDo, In
  <2>6. \A k \in DOMAIN jobs, e \in W : k # j /\ ToDo(k, e) => ToDo(k, e)'
    BY <2>2 DEF ToDo, In
  <2> QED
    BY <1>4, <2>1, <2>2, <2>3, <2>5, <2>6
<1>7. CASE PutsOff(j)
  <2>1. \A e \in W : OnDisk(e) => OnDisk(e)'
    BY <1>7 DEF PutsOff, OnDisk
  <2>2. \A k \in DOMAIN jobs : k # j =>
           at'[k] = at[k] /\ todo'[k] = todo[k] /\ missing'[k] = missing[k]
    BY <1>3, <1>7 DEF PutsOff
  <2>3. /\ todo'[j] = Tail(todo[j]) /\ at'[j] = "found" /\ at[j] = "found"
        /\ missing'[j] = Append(missing[j], Head(todo[j]))
    BY <1>3, <1>7 DEF PutsOff
  <2>4. \A e \in W : In(e, todo[j]) => e = Head(todo[j]) \/ In(e, todo'[j])
    BY <1>3, <1>7, <2>3, HeadOrTail DEF PutsOff
  <2>5. In(Head(todo[j]), missing'[j]) /\ \A e \in W : In(e, missing[j]) => In(e, missing'[j])
    BY <1>3, <1>5, <1>7, <2>3, InAppended DEF PutsOff
  <2>6. \A e \in W : ToDo(j, e) => ToDo(j, e)'
    BY <2>3, <2>4, <2>5 DEF ToDo, In
  <2>7. \A k \in DOMAIN jobs, e \in W : k # j /\ ToDo(k, e) => ToDo(k, e)'
    BY <2>2 DEF ToDo, In
  <2> QED
    BY <1>4, <2>1, <2>2, <2>3, <2>6, <2>7
<1>8. CASE TurnsBack(j)
  <2>1. \A e \in W : OnDisk(e) => OnDisk(e)'
    BY <1>8 DEF TurnsBack, OnDisk
  <2>2. \A k \in DOMAIN jobs : k # j =>
           at'[k] = at[k] /\ todo'[k] = todo[k] /\ missing'[k] = missing[k]
    BY <1>3, <1>8 DEF TurnsBack
  <2>3. todo'[j] = missing[j] /\ todo[j] = <<>> /\ at'[j] = "each"
    BY <1>3, <1>8 DEF TurnsBack
  <2>4. \A e \in W : ToDo(j, e) => ToDo(j, e)'
    BY <2>3 DEF ToDo, In
  <2>5. \A k \in DOMAIN jobs, e \in W : k # j /\ ToDo(k, e) => ToDo(k, e)'
    BY <2>2 DEF ToDo, In
  <2> QED
    BY <1>4, <2>1, <2>2, <2>3, <2>4, <2>5
<1>9. CASE Moves(j)
  <2>1. \A e \in W : OnDisk(e) => OnDisk(e)'
    BY <1>9 DEF Moves, OnDisk
  <2>2. \A k \in DOMAIN jobs : k # j => at'[k] = at[k]
    BY <1>3, <1>9 DEF Moves
  <2>3. at[j] # "found" /\ (at'[j] = "ended" => todo[j] = <<>>)
    BY <1>3, <1>9 DEF Moves
  <2>4. todo' = todo /\ missing' = missing
    BY <1>9 DEF Moves
  <2>5. \A k \in DOMAIN jobs, e \in W : ToDo(k, e) => ToDo(k, e)'
    BY <2>2, <2>3, <2>4 DEF ToDo, In
  <2> QED
    BY <1>4, <2>1, <2>2, <2>3, <2>4, <2>5
<1> QED
  BY <1>1, <1>6, <1>7, <1>8, <1>9

LEMMA InitNothingLost == Init => NothingLost /\ Promised
  BY DEF Init, NothingLost, Promised

LEMMA NextNothingLost ==
    ASSUME FilterRight, Settled, Shape, NothingLost, Promised, [Next]_vars
    PROVE  NothingLost' /\ Promised'
<1>0. W' = W
  BY CallsKept, SameWanted DEF inputs
<1>1. CASE Begin
  <2>1. CASE pc' = "work"
    <3>1. /\ jobs' = Batches(call) /\ todo' = jobs'
          /\ at' = [j \in DOMAIN jobs' |-> "queued"]
          /\ next' = 1 /\ failed' = failed /\ result' = result /\ disk' = disk
      BY <1>1, <2>1 DEF Begin, NothingLost
    <3>2. \A e \in W : \E j \in DOMAIN jobs' : In(e, jobs'[j])
      BY <3>1, BatchesCover DEF W, Shape
    <3>3. \A j \in DOMAIN jobs' : j \in Nat /\ j >= 1
      BY <3>1, BatchesCover DEF Shape
    <3>4. \A j \in DOMAIN jobs' : todo'[j] = jobs'[j] /\ at'[j] = "queued"
      BY <3>1
    <3>5. \A j \in DOMAIN jobs', e \in W : In(e, jobs'[j]) => ToDo(j, e)'
      BY <3>4 DEF ToDo, In
    <3>6. result' # "ok"
      BY <1>1, <3>1 DEF Begin, Promised
    <3>7. NothingLost'
      BY <1>0, <2>1, <3>1, <3>2, <3>3, <3>4, <3>5 DEF NothingLost
    <3> QED
      BY <3>6, <3>7 DEF Promised
  <2>2. CASE pc' # "work"
    <3>1. /\ pc' = "done" /\ result' = "error"
          /\ UNCHANGED <<jobs, at, todo, missing, disk, next, failed>>
      BY <1>1, <2>2 DEF Begin
    <3> QED
      BY <1>0, <3>1 DEF NothingLost, Promised, OnDisk, ToDo
  <2> QED
    BY <2>1, <2>2
<1>2. CASE Submit
  <2>1. /\ next' = next + 1 /\ pc = "work" /\ pc' = pc
        /\ UNCHANGED <<jobs, todo, missing, disk, failed, result>>
    BY <1>2 DEF Submit
  <2>2. /\ \A k \in DOMAIN jobs : k # next => at'[k] = at[k]
        /\ next \in DOMAIN jobs => at'[next] \in {"batch", "each"}
    BY <1>2 DEF Submit, Shape
  <2>3. \A j \in DOMAIN jobs : at[j] = "queued" <=> j >= next
    BY DEF NothingLost
  <2>4. \A j \in DOMAIN jobs : j \in Nat
    BY DEF Shape
  <2>5. next \in Nat
    BY DEF NothingLost
  <2>6. \A j \in DOMAIN jobs : at'[j] = "queued" <=> j >= next'
    BY <2>1, <2>2, <2>3, <2>4, <2>5
  <2>7. next \in DOMAIN jobs => at[next] = "queued"
    BY <2>3, <2>5
  <2>8. \A j \in DOMAIN jobs, e \in W : ToDo(j, e) => ToDo(j, e)'
    BY <2>1, <2>2, <2>7 DEF ToDo
  <2> QED
    BY <1>0, <2>1, <2>2, <2>5, <2>6, <2>8 DEF NothingLost, Promised, OnDisk
<1>3. CASE Return
  <2>1. pc' = "done" /\ UNCHANGED <<jobs, at, todo, missing, disk, next, failed>>
    BY <1>3 DEF Return, work
  <2>2. NothingLost'
    BY <1>0, <2>1 DEF NothingLost, OnDisk, ToDo
  <2>3. ASSUME result' = "ok" PROVE ~failed' /\ \A e \in W : OnDisk(e)'
    <3>1. ~failed /\ pc = "work" /\ next > Len(jobs)
      BY <1>3, <2>3 DEF Return, Finished
    <3>2. \A j \in DOMAIN jobs : at[j] = "ended"
      <4>1. \A j \in DOMAIN jobs : Idle(j)
        BY <1>3 DEF Return, Finished, Running, Jobs, Idle
      <4>2. \A j \in DOMAIN jobs : j \in Nat /\ j <= Len(jobs)
        BY DEF Shape
      <4>3. Len(jobs) \in Nat /\ next \in Nat
        BY DEF Shape, NothingLost
      <4> QED
        BY <3>1, <4>1, <4>2, <4>3 DEF Idle, NothingLost
    <3>3. \A j \in DOMAIN jobs : todo[j] = <<>>
      BY <3>1, <3>2 DEF NothingLost
    <3>4. \A j \in DOMAIN jobs, e \in W : ~ToDo(j, e)
      BY <3>2, <3>3 DEF ToDo, In
    <3>5. \A e \in W : OnDisk(e)
      BY <3>1, <3>4 DEF NothingLost
    <3> QED
      BY <2>1, <3>1, <3>5 DEF OnDisk
  <2> QED
    BY <1>0, <2>1, <2>2, <2>3 DEF Promised
<1>4. ASSUME NEW j \in Jobs, JobStep(j) PROVE NothingLost' /\ Promised'
  <2>1. pc = "work" /\ j \in DOMAIN jobs
    BY <1>4, JobAtWork DEF Settled, Jobs
  <2>2. Same /\ (Fails(j) \/ Writes(j) \/ PutsOff(j) \/ TurnsBack(j) \/ Moves(j))
    BY <1>4, <2>1, Kinds
  <2>3. Promised'
    BY <2>1, <2>2 DEF Same, Promised
  <2>4. \A k \in DOMAIN jobs : at'[k] = "queued" <=> at[k] = "queued"
    <3>1. PICK a \in {"found", "each", "write", "ended"} : at' = [at EXCEPT ![j] = a] \/ at' = at
      BY <1>4, <2>1, JobAtWork DEF Jobs
    <3>2. at[j] # "queued"
      BY <1>4, <2>1, JobAtWork DEF Jobs, Idle
    <3> QED
      BY <3>1, <3>2 DEF Shape
  <2>5. CASE failed'
    BY <1>0, <2>1, <2>2, <2>3, <2>4, <2>5 DEF Same, NothingLost, In
  <2>6. CASE ~failed'
    <3>1. \A k \in DOMAIN jobs :
              /\ \A e \in W : In(e, jobs[k]) => OnDisk(e)' \/ ToDo(k, e)'
              /\ at'[k] = "ended" => todo'[k] = <<>>
      BY <1>0, <1>4, <2>1, <2>6, JobLosesNothing
    <3> QED
      BY <1>0, <2>1, <2>2, <2>3, <2>4, <3>1 DEF Same, NothingLost, In
  <2> QED
    BY <2>5, <2>6
<1>5. CASE UNCHANGED vars
  BY <1>0, <1>5 DEF vars, NothingLost, Promised, OnDisk, ToDo, work
<1> QED
  BY <1>1, <1>2, <1>3, <1>4, <1>5 DEF Next

\* The rest of TypeOK.
Cloning ==
    /\ result \in {"none", "ok", "error"} /\ cached \in Caches
    /\ next \in 1 .. Len(jobs) + 1
    /\ DOMAIN got = DOMAIN jobs

LEMMA NextCloning ==
    ASSUME FilterRight, Settled, Shape, NothingLost, Cloning, [Next]_vars
    PROVE  Cloning'
<1>0. cached' = cached
  BY CallsKept DEF inputs
<1>1. CASE Begin
  <2>1. CASE pc' = "work"
    <3>1. /\ jobs' = Batches(call) /\ got' = [j \in DOMAIN jobs' |-> {}]
          /\ next' = 1 /\ result' = result
      BY <1>1, <2>1 DEF Begin, NothingLost
    <3>2. Len(jobs') \in Nat
      BY <3>1, BatchesCover DEF Shape
    <3> QED
      BY <1>0, <3>1, <3>2 DEF Cloning
  <2>2. CASE pc' # "work"
    <3>1. /\ result' = "error" /\ UNCHANGED <<jobs, next, got>>
      BY <1>1, <2>2 DEF Begin
    <3> QED
      BY <1>0, <3>1 DEF Cloning
  <2> QED
    BY <2>1, <2>2
<1>2. CASE Submit
  <2>1. next <= Len(jobs) /\ next' = next + 1 /\ UNCHANGED <<jobs, got, result>>
    BY <1>2 DEF Submit
  <2>2. Len(jobs) \in Nat
    BY DEF Shape
  <2> QED
    BY <1>0, <2>1, <2>2 DEF Cloning
<1>3. CASE Return
  BY <1>0, <1>3 DEF Return, work, Cloning
<1>4. ASSUME NEW j \in Jobs, JobStep(j) PROVE Cloning'
  <2>1. UNCHANGED <<jobs, next, result>>
    BY <1>4, JobAtWork
  <2>2. DOMAIN got' = DOMAIN got
    BY <1>4 DEF JobStep, FetchBlobBatch, WriteFound, FoundDone, GetBlob, WriteFile, EndJob
  <2> QED
    BY <1>0, <2>1, <2>2 DEF Cloning
<1>5. CASE UNCHANGED vars
  BY <1>5 DEF vars, work, inputs, Cloning
<1> QED
  BY <1>1, <1>2, <1>3, <1>4, <1>5 DEF Next

\* The state of a clone keeps its shape; nothing is submitted beyond the batches.
THEOREM TypeCorrect == FilterRight => (Spec => []TypeOK)
<1> SUFFICES ASSUME FilterRight PROVE Spec => []TypeOK
  OBVIOUS
<1> DEFINE Inv == Settled /\ Shape /\ NothingLost /\ Promised /\ Cloning
<1>1. Init => Inv
  <2>1. Init => Cloning
    BY DEF Init, Cloning
  <2> QED
    BY <2>1, InitSettled, InitShape, InitNothingLost
<1>2. Inv /\ [Next]_vars => Inv'
  BY NextSettled, NextShape, NextNothingLost, NextCloning
<1>3. Inv => TypeOK
  BY DEF Settled, Shape, Cloning, TypeOK, Jobs
<1> HIDE DEF Inv
<1> QED
  BY <1>1, <1>2, <1>3, PTL DEF Spec

\* Where the filter keeps the entries that the patterns name, what Clone leaves in the
\* directory is as it should be: after a success each of their files, whole and with its own
\* content, and always nothing but them and what was there.  It is so for any batches, any
\* limit of concurrency, responses that lack blobs, and any other faults.
THEOREM Faithful == FilterRight => (Spec => []CloneFaithful)
<1> SUFFICES ASSUME FilterRight PROVE Spec => []CloneFaithful
  OBVIOUS
<1> DEFINE Inv == Settled /\ Shape /\ NothingElse /\ NothingLost /\ Promised
<1>1. Init => Inv
  BY InitSettled, InitShape, InitNothingElse, InitNothingLost
<1>2. Inv /\ [Next]_vars => Inv'
  BY NextSettled, NextShape, NextNothingElse, NextNothingLost
<1>3. Inv => CloneFaithful
  BY DEF NothingElse, Promised, OnDisk, CloneFaithful, Paths, Old, W
<1> HIDE DEF Inv
<1> QED
  BY <1>1, <1>2, <1>3, PTL DEF Spec
=============================================================================
