------------------------------ MODULE FetchProofs ------------------------------
(***************************************************************************)
(* Proofs about Fetch, for any packs, wants and faults: the bound on the   *)
(* rounds of resolveDeltas is never met, a delta that is as it should be   *)
(* makes the object it was made for, a call that succeeds has what it was  *)
(* asked for, also where it stops early, and a pack gives its objects.     *)
(***************************************************************************)
EXTENDS Fetch, FiniteSetTheorems, SequenceTheorems, WellFoundedInduction, TLAPS

-----------------------------------------------------------------------------
(* Types.                                                                  *)
Entries == Elements(pack)

\* What was wanted, and how much of it was looked up.
Asking ==
    /\ want \in Seq(Elements(want))
    /\ asked \in 0 .. Len(want)
    /\ pending \in Seq(Elements(want))
    /\ pc \in {"cache", "send", "read", "resolve", "done"}

\* The pack, and the deltas of it.
Reading ==
    /\ pack \in Seq(Entries)
    /\ count \in 0 .. Len(pack)
    /\ deltas \in Seq(Entries)

\* The deltas of a round: those to come, and those left for the next one.
Resolving ==
    /\ remaining \in Seq(Entries) /\ stillPending \in Seq(Entries)
    /\ cursor \in 0 .. Len(remaining)
    /\ resolvedCount \in Nat /\ iteration \in Nat

Types == Asking /\ Reading /\ Resolving

LEMMA InitTypes == Init => Types
<1> SUFFICES ASSUME Init PROVE Types
  OBVIOUS
<1>1. want \in Seq(Elements(want)) /\ pack \in Seq(Elements(pack))
  BY ListsAssumption DEF Init
<1>2. Asking
  BY <1>1 DEF Init, Asking
<1>3. Reading
  BY <1>1 DEF Init, Reading, Entries
<1>4. Resolving
  BY <1>1 DEF Init, Resolving, Entries
<1> QED
  BY <1>2, <1>3, <1>4 DEF Types

LEMMA NextTypes == Types /\ [Next]_vars => Types'
<1> SUFFICES ASSUME Types, [Next]_vars PROVE Types'
  OBVIOUS
<1> USE DEF Types
<1>1. CASE CheckCache
  <2>1. UNCHANGED <<want, pack, count, deltas, remaining, stillPending, cursor, resolvedCount, iteration>>
    BY <1>1 DEF CheckCache, call, response, reading, resolving
  <2>2. CASE asked < Len(want)
    <3>1. asked' = asked + 1 /\ pc' = pc
      BY <1>1, <2>2 DEF CheckCache
    <3>2. want[asked + 1] \in Elements(want)
      BY <2>2 DEF Asking, Elements
    <3>3. pending' = pending \/ pending' = Append(pending, want[asked + 1])
      BY <1>1, <2>2 DEF CheckCache
    <3>4. pending' \in Seq(Elements(want))
      BY <3>2, <3>3 DEF Asking
    <3> QED
      BY <2>1, <2>2, <3>1, <3>4 DEF Asking, Reading, Resolving, Entries, Elements
  <2>3. CASE ~(asked < Len(want))
    <3>1. UNCHANGED <<asked, pending>> /\ pc' \in {"done", "send"}
      BY <1>1, <2>3 DEF CheckCache, Return
    <3> QED
      BY <2>1, <3>1 DEF Asking, Reading, Resolving, Entries, Elements
  <2> QED
    BY <2>2, <2>3
<1>2. CASE SkipCache
  <2>1. /\ UNCHANGED <<want, asked, pack, count, deltas, remaining, stillPending, cursor, resolvedCount, iteration>>
        /\ pending' = want /\ pc' = "send"
    BY <1>2 DEF SkipCache, call, response, reading, resolving
  <2> QED
    BY <2>1 DEF Asking, Reading, Resolving, Entries, Elements
<1>3. CASE SendFetchRequest
  <2>1. /\ UNCHANGED <<want, asked, pending, pack, count, deltas, remaining, stillPending, cursor, resolvedCount, iteration>>
        /\ pc' \in {"done", "read"}
    BY <1>3 DEF SendFetchRequest, call, response, resolving, Return
  <2> QED
    BY <2>1 DEF Asking, Reading, Resolving, Entries, Elements
<1>4. CASE \/ \E k \in 1 .. 2 * Len(pack) : Packet(k)
           \/ \E how \in {"cut", "fatal", "invalid", "tooLarge"} : PacketsEnd(how)
           \/ Foreign
           \/ UNCHANGED vars
  <2>1. UNCHANGED <<pc, want, asked, pending, pack, count, deltas, remaining, stillPending, cursor, resolvedCount, iteration>>
    BY <1>4 DEF Packet, PacketsEnd, Foreign, vars, call, response, reading, resolving
  <2> QED
    BY <2>1 DEF Asking, Reading, Resolving, Entries, Elements
<1>5. CASE ReadObject
  <2>1. /\ UNCHANGED <<want, asked, pending, pack>> /\ count < Len(pack)
        /\ pc' \in {pc, "done", "resolve"}
    BY <1>5 DEF ReadObject, call, response, Return, EndReading
  <2>2. UNCHANGED <<remaining, stillPending, cursor, resolvedCount, iteration>>
    BY <1>5 DEF ReadObject, resolving, EndReading, Return
  <2>3. count' \in {count, count + 1}
    BY <1>5 DEF ReadObject, reading
  <2>4. deltas' = deltas \/ deltas' = Append(deltas, NextEntry) \/ deltas' = <<>>
    BY <1>5 DEF ReadObject, reading
  <2>5. NextEntry \in Entries
    BY <2>1 DEF NextEntry, Reading, Entries, Elements
  <2>6. deltas' \in Seq(Entries)
    <3>1. deltas \in Seq(Entries) /\ <<>> \in Seq(Entries)
      BY DEF Reading
    <3>2. Append(deltas, NextEntry) \in Seq(Entries)
      BY <2>5, <3>1
    <3> QED
      BY <2>4, <3>1, <3>2
  <2> QED
    BY <2>1, <2>2, <2>3, <2>6 DEF Asking, Reading, Resolving, Entries, Elements
<1>6. CASE ReadTrailer
  <2>1. /\ UNCHANGED <<want, asked, pending, pack, count, deltas>>
        /\ pc' \in {"done", "resolve"}
    BY <1>6 DEF ReadTrailer, call, response, reading, Return, EndReading
  <2>2. \/ UNCHANGED <<remaining, stillPending, cursor, resolvedCount, iteration>>
        \/ /\ remaining' = deltas /\ stillPending' = <<>> /\ cursor' = 0
           /\ resolvedCount' = 0 /\ iteration' = 1
    BY <1>6 DEF ReadTrailer, resolving, EndReading
  <2>3. Asking' /\ Reading'
    BY <2>1 DEF Asking, Reading, Entries, Elements
  <2>4. Entries' = Entries
    BY <2>1 DEF Entries, Elements
  <2>5. deltas \in Seq(Entries) /\ <<>> \in Seq(Entries) /\ Len(deltas) \in Nat
    BY DEF Reading
  <2>6. Resolving'
    <3>1. CASE UNCHANGED <<remaining, stillPending, cursor, resolvedCount, iteration>>
      BY <2>4, <3>1 DEF Resolving
    <3>2. CASE /\ remaining' = deltas /\ stillPending' = <<>> /\ cursor' = 0
               /\ resolvedCount' = 0 /\ iteration' = 1
      <4>1. remaining' \in Seq(Entries) /\ stillPending' \in Seq(Entries)
        BY <2>5, <3>2
      <4>2. cursor' \in 0 .. Len(remaining') /\ resolvedCount' \in Nat /\ iteration' \in Nat
        BY <2>5, <3>2
      <4> QED
        BY <2>4, <4>1, <4>2 DEF Resolving
    <3> QED
      BY <2>2, <3>1, <3>2
  <2> QED
    BY <2>3, <2>6
<1>7. CASE ReadFails
  <2>1. /\ UNCHANGED <<want, asked, pending, pack, count, deltas, remaining, stillPending, cursor, resolvedCount, iteration>>
        /\ pc' = "done"
    BY <1>7 DEF ReadFails, call, response, reading, resolving, Return
  <2> QED
    BY <2>1 DEF Asking, Reading, Resolving, Entries, Elements
<1>8. CASE ResolveDelta
  <2>1. UNCHANGED <<pc, want, asked, pending, pack, count, deltas, remaining, iteration>>
    BY <1>8 DEF ResolveDelta, call, response, reading
  <2>2. cursor < Len(remaining) /\ cursor' = cursor + 1
    BY <1>8 DEF ResolveDelta
  <2>3. remaining[cursor + 1] \in Entries
    BY <2>2 DEF Resolving
  <2>4. \/ resolvedCount' = resolvedCount + 1 /\ stillPending' = stillPending
        \/ resolvedCount' = resolvedCount /\ stillPending' = Append(stillPending, remaining[cursor + 1])
    BY <1>8 DEF ResolveDelta
  <2>5. stillPending' \in Seq(Entries)
    <3>1. stillPending \in Seq(Entries)
      BY DEF Resolving
    <3>2. Append(stillPending, remaining[cursor + 1]) \in Seq(Entries)
      BY <2>3, <3>1
    <3> QED
      BY <2>4, <3>1, <3>2
  <2>6. resolvedCount' \in Nat
    BY <2>4 DEF Resolving
  <2> QED
    BY <2>1, <2>2, <2>5, <2>6 DEF Asking, Reading, Resolving, Entries, Elements
<1>9. CASE EndIteration
  <2>1. UNCHANGED <<want, asked, pending, pack, count, deltas>> /\ pc' \in {pc, "done"}
    BY <1>9 DEF EndIteration, call, response, reading, Return
  <2>2. /\ remaining' = stillPending /\ stillPending' = <<>> /\ cursor' = 0
        /\ resolvedCount' = 0 /\ iteration' = iteration + 1
    BY <1>9 DEF EndIteration
  <2> QED
    BY <2>1, <2>2 DEF Asking, Reading, Resolving, Entries, Elements
<1> QED
  BY <1>1, <1>2, <1>3, <1>4, <1>5, <1>6, <1>7, <1>8, <1>9 DEF Next, Step

\* The rest of TypeOK.
Calling ==
    /\ want \in Wants /\ {noCache, noExtraObjects, withStorage, stopped} \subseteq BOOLEAN
    /\ pack \in Packs /\ avail \in 0 .. Sent /\ foreign \in Nat
    /\ ended \in {"more", "early", "cut", "fatal", "invalid", "tooLarge"}
    /\ pc \in {"cache", "send"} => pendingWanted = {}
    /\ pendingWanted \subseteq Elements(pending)
    /\ result \in {"none", "ok", "error", "missing", "iterations"}

LEMMA NextCalling == Types /\ Calling /\ [Next]_vars => Calling'
<1> SUFFICES ASSUME Types, Calling, [Next]_vars PROVE Calling'
  OBVIOUS
<1>1. UNCHANGED <<want, noCache, noExtraObjects, withStorage, pack>>
  BY DEF Next, Step, vars, call, response, CheckCache, SkipCache, SendFetchRequest, Packet,
         PacketsEnd, ReadObject, ReadTrailer, ReadFails, ResolveDelta, EndIteration, Foreign
<1>2. CASE CheckCache
  <2>1. /\ UNCHANGED <<avail, foreign, ended, pendingWanted, stopped>>
        /\ pc = "cache" /\ result' \in {result, "ok"}
    BY <1>2 DEF CheckCache, response, reading, Return
  <2> QED
    BY <1>1, <2>1 DEF Calling, Sent
<1>3. CASE SkipCache
  <2>1. UNCHANGED <<avail, foreign, ended, pendingWanted, stopped, result>> /\ pc = "cache"
    BY <1>3 DEF SkipCache, response, reading
  <2> QED
    BY <1>1, <2>1 DEF Calling, Sent
<1>4. CASE SendFetchRequest
  <2>1. /\ UNCHANGED <<avail, foreign, stopped, pending>> /\ ended' \in {ended, "early"}
        /\ pendingWanted' \in {pendingWanted, {}, Elements(pending)}
        /\ pendingWanted' # pendingWanted => pc' = "read"
        /\ pc' \in {"done", "read"} /\ result' \in {result, "ok", "error"}
    BY <1>4 DEF SendFetchRequest, response, Return
  <2>2. Elements(pending)' = Elements(pending)
    BY <2>1 DEF Elements
  <2> QED
    BY <1>1, <2>1, <2>2 DEF Calling, Sent
<1>5. ASSUME NEW k \in 1 .. 2 * Len(pack), Packet(k) PROVE Calling'
  <2>1. /\ UNCHANGED <<pc, foreign, ended, pendingWanted, pending, stopped, result>>
        /\ avail' = avail + k /\ avail + k <= Sent
    BY <1>5 DEF Packet, reading
  <2>2. Sent' = Sent /\ Sent \in Nat /\ Elements(pending)' = Elements(pending)
    BY <1>1, <2>1 DEF Sent, Elements, Types, Reading
  <2> QED
    BY <1>1, <2>1, <2>2 DEF Calling
<1>6. ASSUME NEW how \in {"cut", "fatal", "invalid", "tooLarge"}, PacketsEnd(how) PROVE Calling'
  <2>1. UNCHANGED <<pc, foreign, avail, pendingWanted, pending, stopped, result>> /\ ended' = how
    BY <1>6 DEF PacketsEnd, reading
  <2> QED
    BY <1>1, <2>1 DEF Calling, Sent, Elements
<1>7. CASE ReadObject
  <2>1. /\ UNCHANGED <<avail, foreign, ended, pending>>
        /\ pc = "read" /\ pc' \in {pc, "done", "resolve"} /\ result' \in {result, "ok", "error"}
    BY <1>7 DEF ReadObject, response, EndReading, Return
  <2>2. pendingWanted' \subseteq pendingWanted /\ stopped' \in {stopped, TRUE}
    BY <1>7 DEF ReadObject, reading
  <2>3. Elements(pending)' = Elements(pending)
    BY <2>1 DEF Elements
  <2> QED
    BY <1>1, <2>1, <2>2, <2>3 DEF Calling, Sent
<1>8. CASE ReadTrailer \/ ReadFails
  <2>1. /\ UNCHANGED <<avail, foreign, ended, pending, pendingWanted, stopped>>
        /\ pc' \in {"done", "resolve"} /\ result' \in {result, "ok", "error"}
    BY <1>8 DEF ReadTrailer, ReadFails, response, reading, EndReading, Return
  <2> QED
    BY <1>1, <2>1 DEF Calling, Sent, Elements
<1>9. CASE ResolveDelta \/ EndIteration
  <2>1. /\ UNCHANGED <<avail, foreign, ended, pending, pendingWanted, stopped>>
        /\ pc = "resolve" /\ pc' \in {pc, "done"}
        /\ result' \in {result, "ok", "missing", "iterations"}
    BY <1>9 DEF ResolveDelta, EndIteration, response, reading, Return
  <2> QED
    BY <1>1, <2>1 DEF Calling, Sent, Elements
<1>10. CASE Foreign
  <2>1. /\ UNCHANGED <<pc, avail, ended, pending, pendingWanted, stopped, result>>
        /\ foreign' = foreign + 1
    BY <1>10 DEF Foreign, response, reading
  <2> QED
    BY <1>1, <2>1 DEF Calling, Sent, Elements
<1>11. CASE UNCHANGED vars
  <2>1. UNCHANGED <<pc, avail, foreign, ended, pending, pendingWanted, stopped, result>>
    BY <1>11 DEF vars, response, reading
  <2> QED
    BY <1>1, <2>1 DEF Calling, Sent, Elements
<1> QED
  BY <1>2, <1>3, <1>4, <1>5, <1>6, <1>7, <1>8, <1>9, <1>10, <1>11 DEF Next, Step

\* The state of a call keeps its shape: what is looked out for was asked for, no more packets come
\* than were sent, and no round goes past its deltas.
THEOREM TypeCorrect == Spec => []TypeOK
<1>1. ASSUME Init PROVE Calling
  <2>1. pack \in Seq(Elements(pack)) /\ pack \in Packs
    BY <1>1, ListsAssumption DEF Init
  <2>2. avail \in 0 .. Sent
    BY <1>1, <2>1 DEF Init, Sent
  <2>3. {noCache, noExtraObjects, withStorage, stopped} \subseteq BOOLEAN
    BY <1>1, Zenon DEF Init
  <2>4. pendingWanted = {} /\ foreign = 0 /\ ended = "more" /\ result = "none" /\ want \in Wants
    BY <1>1, Zenon DEF Init
  <2> QED
    BY <2>1, <2>2, <2>3, <2>4 DEF Calling
<1>2. Types /\ Calling => TypeOK
  BY DEF Types, Asking, Reading, Resolving, Calling, TypeOK
<1> QED
  BY <1>1, <1>2, InitTypes, NextTypes, NextCalling, PTL DEF Spec

-----------------------------------------------------------------------------
(* The rounds of resolveDeltas.                                            *)
\* A delta that was looked at in this round is resolved or left for the next one, and every
\* round before has resolved at least one.
Rounds ==
    pc = "resolve" =>
        /\ resolvedCount + Len(stillPending) = cursor
        /\ iteration >= 1
        /\ Len(remaining) + iteration <= Len(deltas) + 1

RoundsInv == Types /\ Rounds /\ IterationsSuffice

LEMMA InitRounds == Init => RoundsInv
BY InitTypes DEF RoundsInv, Rounds, IterationsSuffice, Init

LEMMA NextRounds == RoundsInv /\ [Next]_vars => RoundsInv'
<1> SUFFICES ASSUME RoundsInv, [Next]_vars PROVE RoundsInv'
  OBVIOUS
<1>0. Types /\ Types'
  BY NextTypes DEF RoundsInv
<1> SUFFICES Rounds' /\ IterationsSuffice'
  BY <1>0 DEF RoundsInv
<1>1. CASE ResolveDelta
  <2>1. UNCHANGED <<pc, deltas, remaining, iteration, result>> /\ pc = "resolve"
    BY <1>1 DEF ResolveDelta, reading
  <2>2. cursor < Len(remaining) /\ cursor' = cursor + 1
    BY <1>1 DEF ResolveDelta
  <2>3. \/ resolvedCount' = resolvedCount + 1 /\ stillPending' = stillPending
        \/ resolvedCount' = resolvedCount /\ stillPending' = Append(stillPending, remaining[cursor + 1])
    BY <1>1 DEF ResolveDelta
  <2>4. \/ resolvedCount' = resolvedCount + 1 /\ Len(stillPending') = Len(stillPending)
        \/ resolvedCount' = resolvedCount /\ Len(stillPending') = Len(stillPending) + 1
    BY <1>0, <2>3 DEF Types, Resolving
  <2>5. resolvedCount' + Len(stillPending') = cursor'
    <3>1. resolvedCount + Len(stillPending) = cursor
      BY <2>1 DEF RoundsInv, Rounds
    <3>2. resolvedCount \in Nat /\ Len(stillPending) \in Nat
      BY <1>0 DEF Types, Resolving
    <3> QED
      BY <2>2, <2>4, <3>1, <3>2
  <2> QED
    BY <2>1, <2>5 DEF RoundsInv, Rounds, IterationsSuffice
<1>2. CASE EndIteration
  <2>1. pc = "resolve" /\ cursor = Len(remaining) /\ UNCHANGED deltas
    BY <1>2 DEF EndIteration, reading
  <2>2. /\ remaining' = stillPending /\ stillPending' = <<>> /\ cursor' = 0
        /\ resolvedCount' = 0 /\ iteration' = iteration + 1
    BY <1>2 DEF EndIteration
  <2>3. /\ resolvedCount \in Nat /\ iteration \in Nat /\ iteration >= 1
        /\ Len(stillPending) \in Nat /\ Len(remaining) \in Nat /\ Len(deltas) \in Nat
        /\ resolvedCount + Len(stillPending) = Len(remaining)
        /\ Len(remaining) + iteration <= Len(deltas) + 1
    <3>1. /\ resolvedCount \in Nat /\ iteration \in Nat
          /\ Len(stillPending) \in Nat /\ Len(remaining) \in Nat /\ Len(deltas) \in Nat
      BY <1>0 DEF Types, Resolving, Reading
    <3>2. Rounds
      BY DEF RoundsInv
    <3> QED
      BY <2>1, <3>1, <3>2 DEF Rounds
  <2>4. CASE ~GivesUp /\ stillPending # <<>>
    <3>1. resolvedCount >= 1
      BY <2>3, <2>4 DEF GivesUp
    <3>2. Len(stillPending) + iteration + 1 <= Len(deltas) + 1
      BY <2>3, <3>1
    <3>3. iteration # MaxIterations
      BY <2>3, <3>2 DEF MaxIterations
    <3>4. UNCHANGED <<pc, result>>
      BY <1>2, <2>4, <3>3 DEF EndIteration
    <3>5. Len(stillPending') = 0
      BY <2>2
    <3>6. /\ resolvedCount' + Len(stillPending') = cursor' /\ iteration' >= 1
          /\ Len(remaining') + iteration' <= Len(deltas') + 1
      BY <2>1, <2>2, <2>3, <3>2, <3>5
    <3> QED
      BY <3>4, <3>6 DEF RoundsInv, Rounds, IterationsSuffice
  <2>5. CASE GivesUp \/ stillPending = <<>>
    <3>1. pc' = "done" /\ result' \in {"missing", "ok"}
      BY <1>2, <2>5 DEF EndIteration, Return
    <3> QED
      BY <3>1 DEF Rounds, IterationsSuffice
  <2> QED
    BY <2>4, <2>5
<1>3. CASE ReadTrailer
  <2>1. UNCHANGED deltas /\ pc = "read"
    BY <1>3 DEF ReadTrailer, reading
  <2>2. CASE deltas = <<>>
    <3>1. pc' = "done" /\ result' = "ok"
      BY <1>3, <2>2 DEF ReadTrailer, EndReading, Return
    <3> QED
      BY <3>1 DEF Rounds, IterationsSuffice
  <2>3. CASE deltas # <<>>
    <3>1. /\ remaining' = deltas /\ stillPending' = <<>> /\ cursor' = 0
          /\ resolvedCount' = 0 /\ iteration' = 1 /\ result' = result
      BY <1>3, <2>3 DEF ReadTrailer, EndReading
    <3>2. Len(deltas) \in Nat /\ Len(stillPending') = 0
      BY <1>0, <3>1 DEF Types, Reading
    <3> QED
      BY <2>1, <3>1, <3>2 DEF RoundsInv, Rounds, IterationsSuffice
  <2> QED
    BY <2>2, <2>3
<1>4. CASE ReadObject
  <2>1. pc = "read" /\ pc' \in {"read", "done"}
    BY <1>4 DEF ReadObject, Return, EndReading
  <2>2. result' \in {result, "error", "ok"}
    BY <1>4 DEF ReadObject, Return, EndReading
  <2> QED
    BY <2>1, <2>2 DEF RoundsInv, Rounds, IterationsSuffice
<1>5. CASE CheckCache \/ SkipCache \/ SendFetchRequest \/ ReadFails
  <2>1. pc' \in {"cache", "send", "read", "done"}
    BY <1>5 DEF CheckCache, SkipCache, SendFetchRequest, ReadFails, Return
  <2>2. result' \in {result, "error", "ok"}
    BY <1>5 DEF CheckCache, SkipCache, SendFetchRequest, ReadFails, Return
  <2> QED
    BY <2>1, <2>2 DEF RoundsInv, Rounds, IterationsSuffice
<1>6. CASE \/ \E k \in 1 .. 2 * Len(pack) : Packet(k)
           \/ \E how \in {"cut", "fatal", "invalid", "tooLarge"} : PacketsEnd(how)
           \/ Foreign
           \/ UNCHANGED vars
  <2>1. UNCHANGED <<pc, deltas, remaining, stillPending, cursor, resolvedCount, iteration, result>>
    BY <1>6 DEF Packet, PacketsEnd, Foreign, vars, reading, resolving
  <2> QED
    BY <2>1 DEF RoundsInv, Rounds, IterationsSuffice
<1> QED
  BY <1>1, <1>2, <1>3, <1>4, <1>5, <1>6 DEF Next, Step

\* However the deltas of a pack come, and whatever others do to the storage, resolveDeltas
\* ends with every delta resolved or with none that can be: a round that resolves nothing
\* ends it, and each other round leaves fewer deltas, so that the bound on the rounds
\* is out of reach.
THEOREM IterationsEnough == Spec => []IterationsSuffice
<1>1. Init => RoundsInv
  BY InitRounds
<1>2. RoundsInv /\ [Next]_vars => RoundsInv'
  BY NextRounds
<1>3. RoundsInv => IterationsSuffice
  BY DEF RoundsInv
<1> QED
  BY <1>1, <1>2, <1>3, PTL DEF Spec

-----------------------------------------------------------------------------
(* Deltas: what parseDelta and ApplyDelta make of a delta that is as it    *)
(* should be.                                                              *)
LEMMA LeastNat ==
    ASSUME NEW T, T \subseteq Nat, T # {}
    PROVE  \E x \in T : \A y \in T : ~ (y < x)
<1>1. PICK x \in T : \A y \in T : ~ (<<y, x>> \in OpToRel(<, Nat))
  BY WFMin, NatLessThanWellFounded
<1>2. \A y \in T : <<y, x>> \in Nat \X Nat
  OBVIOUS
<1>3. ASSUME NEW y \in T, y < x PROVE FALSE
  <2>1. <<y, x>> \in OpToRel(<, Nat)
    BY <1>2, <1>3 DEF OpToRel
  <2> QED BY <1>1, <2>1
<1> QED BY <1>1, <1>3

\* f[i] is the first i pieces of s put together.
Joins(s, f) == [i \in 1 .. Len(s) |-> IF i = 1 THEN s[i] ELSE f[i - 1] \o s[i]]

\* There is one such f: the first difference would have a cause.
LEMMA JoinsUnique ==
    ASSUME NEW s, Len(s) \in Nat, NEW f, f = Joins(s, f), NEW g, g = Joins(s, g)
    PROVE  f = g
<1>1. ASSUME NEW n \in 1 .. Len(s), f[n] # g[n]
      PROVE  FALSE
  <2> DEFINE T == {i \in 1 .. Len(s) : f[i] # g[i]}
  <2>1. T \subseteq Nat
    OBVIOUS
  <2>2. T # {}
    BY <1>1
  <2> HIDE DEF T
  <2>3. PICK x \in T : \A y \in T : ~ (y < x)
    BY <2>1, <2>2, LeastNat
  <2>4. x \in 1 .. Len(s) /\ f[x] # g[x]
    BY DEF T
  <2>5. x # 1
    BY <2>4 DEF Joins
  <2>6. x - 1 \in 1 .. Len(s) /\ x - 1 < x
    BY <2>4, <2>5
  <2>7. f[x - 1] = g[x - 1]
    BY <2>3, <2>6 DEF T
  <2>8. f[x] = f[x - 1] \o s[x] /\ g[x] = g[x - 1] \o s[x]
    BY <2>4, <2>5 DEF Joins
  <2> QED
    BY <2>4, <2>7, <2>8
<1>2. f = [n \in 1 .. Len(s) |-> f[n]] /\ g = [n \in 1 .. Len(s) |-> g[n]]
  BY DEF Joins
<1> QED
  BY <1>1, <1>2

\* The pieces of a list, one more at a time.
Joined(s, S, n) == {f \in [1 .. n -> Seq(S)] : f = [i \in 1 .. n |-> IF i = 1 THEN s[i] ELSE f[i - 1] \o s[i]]}
More(s, f, n) == [i \in 1 .. n |-> IF i = n THEN IF n = 1 THEN s[n] ELSE f[n - 1] \o s[n] ELSE f[i]]

LEMMA JoinOneMore ==
    ASSUME NEW S, NEW s \in Seq(Seq(S)), NEW n \in 1 .. Len(s), NEW f \in Joined(s, S, n - 1)
    PROVE  More(s, f, n) \in Joined(s, S, n)
<1> DEFINE g == More(s, f, n)
<1>1. s[n] \in Seq(S) /\ n \in Nat /\ Len(s) \in Nat
  OBVIOUS
<1>2. f \in [1 .. n - 1 -> Seq(S)]
      /\ \A i \in 1 .. n - 1 : f[i] = IF i = 1 THEN s[i] ELSE f[i - 1] \o s[i]
  BY DEF Joined
<1>3. n # 1 => n - 1 \in 1 .. n - 1
  BY <1>1
<1>4. n # 1 => f[n - 1] \o s[n] \in Seq(S)
  BY <1>1, <1>2, <1>3
<1>5. \A i \in 1 .. n : i = n \/ i \in 1 .. n - 1
  BY <1>1
<1>6. g \in [1 .. n -> Seq(S)]
  BY <1>1, <1>2, <1>4, <1>5 DEF More
<1>7. ASSUME NEW i \in 1 .. n
      PROVE  g[i] = IF i = 1 THEN s[i] ELSE g[i - 1] \o s[i]
  <2>1. CASE i = n /\ n # 1
    <3>1. n - 1 \in 1 .. n /\ n - 1 # n
      BY <1>1, <2>1
    <3>2. g[n] = f[n - 1] \o s[n] /\ g[n - 1] = f[n - 1]
      BY <2>1, <3>1 DEF More
    <3> QED
      BY <2>1, <3>2
  <2>2. CASE i = n /\ n = 1
    BY <2>2 DEF More
  <2>3. CASE i # n
    <3>1. i \in 1 .. n - 1 /\ g[i] = f[i]
      BY <1>5, <2>3 DEF More
    <3>2. i # 1 => i - 1 \in 1 .. n /\ i - 1 # n /\ g[i - 1] = f[i - 1]
      BY <1>1, <3>1 DEF More
    <3> QED
      BY <1>2, <3>1, <3>2
  <2> QED
    BY <2>1, <2>2, <2>3
<1>8. g = [i \in 1 .. n |-> g[i]]
  BY <1>6
<1> HIDE DEF g
<1>9. g \in Joined(s, S, n)
  BY <1>6, <1>7, <1>8 DEF Joined
<1> QED
  BY <1>9 DEF g

LEMMA JoinsExist ==
    ASSUME NEW S, NEW s \in Seq(Seq(S))
    PROVE  \E f \in [1 .. Len(s) -> Seq(S)] : f = Joins(s, f)
<1> DEFINE T == {n \in 0 .. Len(s) : Joined(s, S, n) = {}}
<1>1. Len(s) \in Nat
  OBVIOUS
<1>2. T \subseteq Nat
  OBVIOUS
<1>3. ASSUME T # {} PROVE FALSE
  <2> HIDE DEF T
  <2>1. PICK n \in T : \A m \in T : ~ (m < n)
    BY <1>2, <1>3, LeastNat
  <2>2. n \in 0 .. Len(s) /\ Joined(s, S, n) = {}
    BY DEF T
  <2>3. n # 0
    <3>1. [i \in 1 .. 0 |-> <<>>] \in Joined(s, S, 0)
      BY DEF Joined
    <3> QED
      BY <2>2, <3>1
  <2>4. n - 1 \in 0 .. Len(s) /\ n - 1 < n /\ n \in 1 .. Len(s)
    BY <1>1, <2>2, <2>3
  <2>5. Joined(s, S, n - 1) # {}
    BY <2>1, <2>4 DEF T
  <2>6. PICK f \in Joined(s, S, n - 1) : TRUE
    BY <2>5
  <2>7. More(s, f, n) \in Joined(s, S, n)
    BY <2>4, JoinOneMore
  <2> QED
    BY <2>2, <2>7
<1>4. Len(s) \notin T
  BY <1>3
<1>5. Joined(s, S, Len(s)) # {}
  BY <1>1, <1>4
<1> HIDE DEF T
<1>6. PICK f \in Joined(s, S, Len(s)) : TRUE
  BY <1>5
<1>7. f \in [1 .. Len(s) -> Seq(S)] /\ f = Joins(s, f)
  BY <1>6 DEF Joined, Joins
<1> QED
  BY <1>7

\* FlattenSeq is the last of them.
LEMMA FlattenIs ==
    ASSUME NEW s, Len(s) \in Nat \ {0}, NEW f, f = Joins(s, f)
    PROVE  FlattenSeq(s) = f[Len(s)]
<1> DEFINE join == CHOOSE g : g = Joins(s, g)
<1>1. FlattenSeq(s) = join[Len(s)]
  BY DEF FlattenSeq, Joins
<1>2. join = Joins(s, join)
  OBVIOUS
<1> HIDE DEF join
<1> QED
  BY <1>1, <1>2, JoinsUnique

\* The pieces are not empty, so each adds to the length.
LEMMA JoinsGrow ==
    ASSUME NEW S, NEW s \in Seq(Seq(S)), \A i \in 1 .. Len(s) : s[i] # <<>>,
           NEW f \in [1 .. Len(s) -> Seq(S)], f = Joins(s, f)
    PROVE  /\ \A i \in 1 .. Len(s) : Len(f[i]) = (IF i = 1 THEN 0 ELSE Len(f[i - 1])) + Len(s[i])
           /\ \A i \in 1 .. Len(s) : Len(f[i]) <= Len(f[Len(s)]) /\ (i < Len(s) => Len(f[i]) < Len(f[Len(s)]))
<1>1. Len(s) \in Nat /\ \A i \in 1 .. Len(s) : s[i] \in Seq(S) /\ Len(s[i]) \in Nat \ {0} /\ f[i] \in Seq(S)
  OBVIOUS
<1>2. ASSUME NEW i \in 1 .. Len(s) PROVE Len(f[i]) = (IF i = 1 THEN 0 ELSE Len(f[i - 1])) + Len(s[i])
  <2>1. CASE i = 1
    <3>1. f[i] = s[i]
      BY <2>1 DEF Joins
    <3> QED
      BY <1>1, <2>1, <3>1
  <2>2. CASE i # 1
    <3>1. i - 1 \in 1 .. Len(s)
      BY <1>1, <2>2
    <3>0. f[i] = f[i - 1] \o s[i]
      BY <2>2 DEF Joins
    <3>2. f[i - 1] \in Seq(S) /\ s[i] \in Seq(S)
      BY <1>1, <3>1
    <3>3. Len(f[i - 1] \o s[i]) = Len(f[i - 1]) + Len(s[i])
      BY <3>2
    <3> QED
      BY <2>2, <3>0, <3>3
  <2> QED
    BY <2>1, <2>2
<1>3. ASSUME NEW i \in 1 .. Len(s), ~(Len(f[i]) <= Len(f[Len(s)]) /\ (i < Len(s) => Len(f[i]) < Len(f[Len(s)])))
      PROVE  FALSE
  <2> DEFINE T == {k \in 0 .. Len(s) - 1 :
                      LET j == Len(s) - k
                      IN  ~(Len(f[j]) <= Len(f[Len(s)]) /\ (j < Len(s) => Len(f[j]) < Len(f[Len(s)])))}
  <2>1. T \subseteq Nat
    OBVIOUS
  <2>2. Len(s) - i \in T
    <3>1. Len(s) - i \in 0 .. Len(s) - 1 /\ Len(s) - (Len(s) - i) = i
      BY <1>1
    <3> QED
      BY <1>3, <3>1
  <2> HIDE DEF T
  <2>3. PICK k \in T : \A m \in T : ~ (m < k)
    BY <2>1, <2>2, LeastNat
  <2> DEFINE j == Len(s) - k
  <2>4. k \in 0 .. Len(s) - 1 /\ ~(Len(f[j]) <= Len(f[Len(s)]) /\ (j < Len(s) => Len(f[j]) < Len(f[Len(s)])))
    BY DEF T
  <2>5. j \in 1 .. Len(s) /\ Len(f[j]) \in Nat
    BY <1>1, <2>4
  <2>6. CASE k = 0
    BY <1>1, <2>4, <2>5, <2>6
  <2>7. CASE k # 0
    <3>1. k - 1 \in 0 .. Len(s) - 1 /\ k - 1 < k /\ Len(s) - (k - 1) = j + 1
      BY <1>1, <2>4, <2>7
    <3>2. Len(f[j + 1]) <= Len(f[Len(s)])
      BY <2>3, <3>1 DEF T
    <3>3. j + 1 \in 1 .. Len(s) /\ j + 1 # 1 /\ (j + 1) - 1 = j
      <4>1. k \in 0 .. Len(s) - 1 /\ k # 0 /\ Len(s) \in Nat
        BY <1>1, <2>4, <2>7
      <4> QED
        BY <4>1
    <3>4. Len(f[j + 1]) = Len(f[j]) + Len(s[j + 1])
      BY <1>2, <3>3
    <3>5. Len(f[j + 1]) \in Nat /\ Len(s[j + 1]) \in Nat \ {0} /\ Len(f[Len(s)]) \in Nat
      BY <1>1, <3>3
    <3> HIDE DEF j
    <3>6. Len(f[j]) < Len(f[Len(s)])
      BY <2>5, <3>2, <3>4, <3>5
    <3> QED
      BY <2>4, <2>5, <3>5, <3>6
  <2> QED
    BY <2>6, <2>7
<1> QED
  BY <1>2, <1>3

-----------------------------------------------------------------------------
(* A delta that is as it should be.                                        *)
\* What an instruction adds.
Piece(base, cmd) == IF cmd.op = "add" THEN cmd.data ELSE [k \in 1 .. SizeOf(cmd) |-> base[cmd.off + k]]
Pieces(base, payload) == [i \in DOMAIN payload.cmds |-> Piece(base, payload.cmds[i])]
Bytes(base, payload) == Elements(base) \cup UNION {Elements(payload.cmds[i].data) : i \in DOMAIN payload.cmds}

LEMMA MadeIs == ASSUME NEW base, NEW payload PROVE Made(base, payload) = FlattenSeq(Pieces(base, payload))
BY DEF Made, Pieces, Piece

LEMMA PiecesAre ==
    ASSUME NEW base, base \in Seq(Elements(base)), NEW payload, IsPayload(payload), WellFormed(base, payload)
    PROVE  /\ Len(payload.cmds) \in Nat \ {0} /\ DOMAIN payload.cmds = 1 .. Len(payload.cmds)
           /\ Pieces(base, payload) \in Seq(Seq(Bytes(base, payload)))
           /\ Len(Pieces(base, payload)) = Len(payload.cmds)
           /\ \A i \in 1 .. Len(payload.cmds) :
                  LET cmd == payload.cmds[i] p == Piece(base, cmd)
                  IN  /\ Pieces(base, payload)[i] = p /\ p # <<>> /\ Len(p) = SizeOf(cmd)
                      /\ SizeOf(cmd) \in Nat \ {0}
                      /\ cmd.op \in {"add", "copy"}
                      /\ cmd.op = "copy" => cmd.off + SizeOf(cmd) <= payload.source
<1> DEFINE cmds == payload.cmds
           S == Bytes(base, payload)
<1>1. cmds \in Seq({cmds[i] : i \in DOMAIN cmds}) /\ cmds # <<>>
  BY DEF IsPayload, WellFormed
<1>2. Len(cmds) \in Nat \ {0} /\ DOMAIN cmds = 1 .. Len(cmds)
  BY <1>1
<1>3. ASSUME NEW i \in 1 .. Len(cmds)
      PROVE  LET cmd == cmds[i] p == Piece(base, cmd)
             IN  /\ p # <<>> /\ Len(p) = SizeOf(cmd) /\ p \in Seq(S)
                 /\ SizeOf(cmd) \in Nat \ {0}
                 /\ cmd.op \in {"add", "copy"}
                 /\ cmd.op = "copy" => cmd.off + SizeOf(cmd) <= payload.source
  <2> DEFINE cmd == cmds[i]
             p == Piece(base, cmd)
  <2>1. /\ cmd.off \in Nat /\ cmd.size \in Nat /\ cmd.data \in Seq(Elements(cmd.data))
        /\ cmd.op = "add" => cmd.size = Len(cmd.data)
    BY <1>2 DEF IsPayload, Elements
  <2>2. \/ cmd.op = "add" /\ cmd.data # <<>>
        \/ cmd.op = "copy" /\ cmd.off + SizeOf(cmd) <= Len(base)
    BY <1>2 DEF WellFormed
  <2>3. payload.source = Len(base)
    BY DEF WellFormed
  <2>4. Elements(cmd.data) \subseteq S /\ Elements(base) \subseteq S
    BY <1>2 DEF Bytes
  <2> HIDE DEF cmd, S
  <2>5. CASE cmd.op = "add" /\ cmd.data # <<>>
    <3>1. p = cmd.data /\ SizeOf(cmd) = cmd.size /\ cmd.op # "copy"
      BY <2>5 DEF Piece, SizeOf
    <3>2. Len(cmd.data) \in Nat \ {0} /\ cmd.data \in Seq(S)
      BY <2>1, <2>4, <2>5
    <3> QED
      BY <2>1, <2>5, <3>1, <3>2 DEF cmd
  <2>6. CASE cmd.op = "copy" /\ cmd.off + SizeOf(cmd) <= Len(base)
    <3>1. SizeOf(cmd) \in Nat \ {0}
      BY <2>1, <2>6, DeltasAssumption DEF SizeOf
    <3>2. p = [k \in 1 .. SizeOf(cmd) |-> base[cmd.off + k]]
      BY <2>6 DEF Piece
    <3>3. \A k \in 1 .. SizeOf(cmd) : base[cmd.off + k] \in S
      <4>1. Len(base) \in Nat /\ \A k \in 1 .. Len(base) : base[k] \in Elements(base)
        OBVIOUS
      <4>2. \A k \in 1 .. SizeOf(cmd) : cmd.off + k \in 1 .. Len(base)
        BY <2>1, <2>6, <3>1, <4>1
      <4> QED
        BY <2>4, <4>1, <4>2
    <3>4. p \in Seq(S) /\ Len(p) = SizeOf(cmd)
      BY <3>1, <3>2, <3>3
    <3>5. p # <<>>
      BY <3>1, <3>4
    <3> QED
      BY <2>3, <2>6, <3>1, <3>4, <3>5 DEF cmd
  <2> QED
    BY <2>2, <2>5, <2>6
<1>4. \A i \in 1 .. Len(cmds) : Piece(base, cmds[i]) \in Seq(S)
  BY <1>3
<1> HIDE DEF S
<1>5. Pieces(base, payload) = [i \in 1 .. Len(cmds) |-> Piece(base, cmds[i])]
  BY <1>2 DEF Pieces
<1>6. Pieces(base, payload) \in Seq(Seq(S)) /\ Len(Pieces(base, payload)) = Len(cmds)
  BY <1>2, <1>4, <1>5
<1> QED
  BY <1>2, <1>3, <1>5, <1>6 DEF S

\* What parseDelta has read after n instructions: those n, as they are, with as many bytes of the
\* target left as they have not made.
Recorded(cmd) == [cmd EXCEPT !.size = SizeOf(cmd)]
ReadOf(payload, f, n) ==
    [left |-> IF n = 0 THEN payload.target ELSE payload.target - Len(f[n]), ended |-> FALSE, err |-> FALSE,
     changes |-> [i \in 1 .. n |-> Recorded(payload.cmds[i])]]

\* The size that is left does not wrap around.
LEMMA NoWrap == ASSUME NEW x \in Nat, x < Wrap PROVE (x + Wrap) % Wrap = x
<1>1. Wrap \in Nat \ {0}
  BY DeltasAssumption
<1> QED
  BY <1>1, SMTT(20)

\* A record with the fields of an instruction stays one.
LEMMA RecordedIs ==
    ASSUME NEW payload, IsPayload(payload), NEW i \in DOMAIN payload.cmds
    PROVE  LET cmd == payload.cmds[i]
           IN  /\ Recorded(cmd).op = cmd.op /\ Recorded(cmd).off = cmd.off
               /\ Recorded(cmd).size = SizeOf(cmd) /\ Recorded(cmd).data = cmd.data
<1> DEFINE cmd == payload.cmds[i]
<1>1. cmd = [op |-> cmd.op, off |-> cmd.off, size |-> cmd.size, data |-> cmd.data]
  BY DEF IsPayload
<1> HIDE DEF cmd
<1>2. Recorded(cmd) = [op |-> cmd.op, off |-> cmd.off, size |-> SizeOf(cmd), data |-> cmd.data]
  BY <1>1 DEF Recorded
<1>3. /\ Recorded(cmd).op = cmd.op /\ Recorded(cmd).off = cmd.off
      /\ Recorded(cmd).size = SizeOf(cmd) /\ Recorded(cmd).data = cmd.data
  BY <1>2
<1> QED
  BY <1>3 DEF cmd

\* The loop of parseDelta, as ParseDelta has it.
ReadingLoop(payload, st) ==
    [n \in 0 .. Len(payload.cmds) |->
        IF n = 0 THEN [left |-> payload.target, ended |-> FALSE, err |-> FALSE, changes |-> <<>>]
        ELSE ReadCommand(payload, st[n - 1], payload.cmds[n])]

LEMMA ReadingUnique ==
    ASSUME NEW p, Len(p.cmds) \in Nat, NEW f, f = ReadingLoop(p, f), NEW g, g = ReadingLoop(p, g)
    PROVE  f = g
<1>1. ASSUME NEW n \in 0 .. Len(p.cmds), f[n] # g[n]
      PROVE  FALSE
  <2> DEFINE T == {i \in 0 .. Len(p.cmds) : f[i] # g[i]}
  <2>1. T \subseteq Nat
    OBVIOUS
  <2>2. T # {}
    BY <1>1
  <2> HIDE DEF T
  <2>3. PICK x \in T : \A y \in T : ~ (y < x)
    BY <2>1, <2>2, LeastNat
  <2>4. x \in 0 .. Len(p.cmds) /\ f[x] # g[x]
    BY DEF T
  <2>5. x # 0
    BY <2>4 DEF ReadingLoop
  <2>6. x - 1 \in 0 .. Len(p.cmds) /\ x - 1 < x
    BY <2>4, <2>5
  <2>7. f[x - 1] = g[x - 1]
    BY <2>3, <2>6 DEF T
  <2>8. f[x] = ReadCommand(p, f[x - 1], p.cmds[x]) /\ g[x] = ReadCommand(p, g[x - 1], p.cmds[x])
    BY <2>4, <2>5 DEF ReadingLoop
  <2> QED
    BY <2>4, <2>7, <2>8
<1>2. f = [n \in 0 .. Len(p.cmds) |-> f[n]] /\ g = [n \in 0 .. Len(p.cmds) |-> g[n]]
  BY DEF ReadingLoop
<1> QED
  BY <1>1, <1>2

\* What ParseDelta makes of the last state of the loop.
Parsed(payload, end) ==
    [err |-> payload.cmds = <<>> \/ end.err \/ Reads(end, payload.target),
     source |-> payload.source, changes |-> end.changes]

LEMMA ParseIs ==
    ASSUME NEW p, Len(p.cmds) \in Nat, NEW f, f = ReadingLoop(p, f)
    PROVE  ParseDelta(p) = Parsed(p, f[Len(p.cmds)])
<1> DEFINE st == CHOOSE g : g = ReadingLoop(p, g)
<1>1. ParseDelta(p) = Parsed(p, st[Len(p.cmds)])
  BY DEF ParseDelta, Parsed, ReadingLoop
<1>2. st = ReadingLoop(p, st)
  OBVIOUS
<1> HIDE DEF st
<1> QED
  BY <1>1, <1>2, ReadingUnique

\* One instruction of such a payload.
LEMMA ReadOne ==
    ASSUME NEW base, base \in Seq(Elements(base)), NEW p, IsPayload(p), WellFormed(base, p),
           NEW f \in [1 .. Len(p.cmds) -> Seq(Bytes(base, p))], f = Joins(Pieces(base, p), f),
           NEW n \in 1 .. Len(p.cmds)
    PROVE  ReadCommand(p, ReadOf(p, f, n - 1), p.cmds[n]) = ReadOf(p, f, n)
<1> DEFINE s == Pieces(base, p)
           cmd == p.cmds[n]
           N == Len(p.cmds)
           old == IF n - 1 = 0 THEN 0 ELSE Len(f[n - 1])
<1>1. /\ N \in Nat \ {0} /\ DOMAIN p.cmds = 1 .. N /\ s \in Seq(Seq(Bytes(base, p))) /\ Len(s) = N
      /\ \A i \in 1 .. N : s[i] # <<>> /\ Len(s[i]) \in Nat \ {0}
  BY PiecesAre
<1>2. /\ Len(s[n]) = SizeOf(cmd) /\ SizeOf(cmd) \in Nat \ {0} /\ cmd.op \in {"add", "copy"}
      /\ cmd.op = "copy" => cmd.off + SizeOf(cmd) <= p.source
  BY PiecesAre
<1>3. p.target = Len(f[N]) /\ p.target < Wrap /\ p.target \in Nat
  <2>1. p.target = Len(Made(base, p)) /\ p.target < Wrap /\ p.target \in Nat
    BY DEF WellFormed, IsPayload
  <2>2. FlattenSeq(s) = f[Len(s)]
    BY <1>1, FlattenIs
  <2> QED
    BY <1>1, <2>1, <2>2, MadeIs
<1> HIDE DEF s, cmd, N
<1>4. n \in 1 .. N /\ f \in [1 .. N -> Seq(Bytes(base, p))] /\ f = Joins(s, f)
  BY DEF N, s
<1>5. /\ \A i \in 1 .. Len(s) : Len(f[i]) = (IF i = 1 THEN 0 ELSE Len(f[i - 1])) + Len(s[i])
      /\ \A i \in 1 .. Len(s) : Len(f[i]) <= Len(f[Len(s)]) /\ (i < Len(s) => Len(f[i]) < Len(f[Len(s)]))
  BY <1>1, <1>4, JoinsGrow
<1>6. Len(f[n]) = old + SizeOf(cmd) /\ Len(f[n]) <= p.target
  <2>1. n - 1 = 0 <=> n = 1
    BY <1>1, <1>4
  <2>2. Len(f[n]) = (IF n = 1 THEN 0 ELSE Len(f[n - 1])) + Len(s[n]) /\ Len(f[n]) <= Len(f[N])
    BY <1>1, <1>4, <1>5
  <2> QED
    BY <1>2, <1>3, <2>1, <2>2
<1>7. old \in Nat /\ Len(f[n]) \in Nat
  <2>1. n # 1 => n - 1 \in 1 .. N
    BY <1>1, <1>4
  <2>2. n # 1 => f[n - 1] \in Seq(Bytes(base, p))
    BY <1>4, <2>1
  <2> QED
    BY <1>1, <1>4, <2>2
<1> DEFINE st == ReadOf(p, f, n - 1)
<1>8. st.left = p.target - old /\ ~st.ended /\ ~st.err /\ st.changes = [i \in 1 .. n - 1 |-> Recorded(p.cmds[i])]
  <2>1. p.target - 0 = p.target
    BY <1>3
  <2> QED
    BY <2>1 DEF ReadOf
<1>9. st = [left |-> st.left, ended |-> st.ended, err |-> st.err, changes |-> st.changes]
  BY DEF ReadOf
<1> HIDE DEF st, old
<1>10. Reads(st, p.target)
  BY <1>2, <1>3, <1>6, <1>7, <1>8 DEF Reads
<1>11. Fits(cmd, p.source, p.target)
  BY <1>2, <1>3, <1>6, <1>7 DEF Fits
<1>12. ReadCommand(p, st, cmd) = [st EXCEPT !.left = (@ + Wrap - SizeOf(cmd)) % Wrap,
                                            !.changes = Append(@, [cmd EXCEPT !.size = SizeOf(cmd)])]
  BY <1>2, <1>8, <1>10, <1>11 DEF ReadCommand
<1>13. (st.left + Wrap - SizeOf(cmd)) % Wrap = p.target - Len(f[n])
  <2> DEFINE x == p.target - Len(f[n])
  <2>1. x \in Nat /\ x < Wrap
    BY <1>3, <1>6, <1>7, DeltasAssumption
  <2>2. st.left + Wrap - SizeOf(cmd) = x + Wrap
    BY <1>2, <1>3, <1>6, <1>7, <1>8, DeltasAssumption
  <2> HIDE DEF x
  <2>3. (x + Wrap) % Wrap = x
    BY <2>1, NoWrap
  <2> QED
    BY <2>2, <2>3 DEF x
<1>14. Append(st.changes, [cmd EXCEPT !.size = SizeOf(cmd)]) = [i \in 1 .. n |-> Recorded(p.cmds[i])]
  <2> DEFINE R(i) == Recorded(p.cmds[i])
             q == [i \in 1 .. n - 1 |-> R(i)]
  <2>1. [cmd EXCEPT !.size = SizeOf(cmd)] = R(n)
    BY DEF Recorded, cmd
  <2>2. st.changes = q
    BY <1>8
  <2>3. n \in Nat \ {0}
    BY <1>1, <1>4
  <2> HIDE DEF R
  <2>4. q \in Seq({R(i) : i \in 1 .. n - 1}) /\ Len(q) = n - 1
    <3> DEFINE T == {R(i) : i \in 1 .. n - 1}
    <3>1. \A i \in 1 .. n - 1 : R(i) \in T
      OBVIOUS
    <3>2. n - 1 \in Nat
      BY <2>3
    <3> HIDE DEF T
    <3>3. q \in Seq(T) /\ Len(q) = n - 1
      BY <3>1, <3>2
    <3> QED
      BY <3>3 DEF T
  <2>5. Append(q, R(n)) = [i \in 1 .. n |-> R(i)]
    <3>1. Append(q, R(n)) = [i \in 1 .. Len(q) + 1 |-> IF i = Len(q) + 1 THEN R(n) ELSE q[i]]
      BY <2>4
    <3>2. Len(q) + 1 = n
      BY <2>3, <2>4
    <3>3. \A i \in 1 .. n : (IF i = n THEN R(n) ELSE q[i]) = R(i)
      BY <2>3
    <3> HIDE DEF q
    <3> QED
      BY <3>1, <3>2, <3>3
  <2> QED
    BY <2>1, <2>2, <2>5 DEF R
<1>15. ReadCommand(p, st, cmd) = [left |-> p.target - Len(f[n]), ended |-> FALSE, err |-> FALSE,
                                  changes |-> [i \in 1 .. n |-> Recorded(p.cmds[i])]]
  <2> DEFINE l == (st.left + Wrap - SizeOf(cmd)) % Wrap
             c == Append(st.changes, [cmd EXCEPT !.size = SizeOf(cmd)])
  <2>1. ReadCommand(p, st, cmd) = [left |-> l, ended |-> st.ended, err |-> st.err, changes |-> c]
    BY <1>9, <1>12
  <2>2. st.ended = FALSE /\ st.err = FALSE
    BY DEF st, ReadOf
  <2> HIDE DEF l, c
  <2>3. l = p.target - Len(f[n]) /\ c = [i \in 1 .. n |-> Recorded(p.cmds[i])]
    BY <1>13, <1>14 DEF l, c
  <2> QED
    BY <2>1, <2>2, <2>3
<1>16. n # 0
  BY <1>1, <1>4
<1> QED
  BY <1>15, <1>16 DEF st, cmd, ReadOf

\* A delta that is as it should be is read to its end, without an error, each instruction as it is.
LEMMA ReadToEnd ==
    ASSUME NEW base, base \in Seq(Elements(base)), NEW p, IsPayload(p), WellFormed(base, p)
    PROVE  ParseDelta(p) = [err |-> FALSE, source |-> p.source,
                            changes |-> [i \in 1 .. Len(p.cmds) |-> Recorded(p.cmds[i])]]
<1> DEFINE s == Pieces(base, p)
           N == Len(p.cmds)
<1>1. N \in Nat \ {0} /\ s \in Seq(Seq(Bytes(base, p))) /\ Len(s) = N /\ p.cmds # <<>>
  BY PiecesAre DEF WellFormed
<1>2. PICK f \in [1 .. Len(s) -> Seq(Bytes(base, p))] : f = Joins(s, f)
  BY <1>1, JoinsExist
<1>3. f \in [1 .. N -> Seq(Bytes(base, p))]
  BY <1>1, <1>2
<1>4. p.target = Len(f[N]) /\ p.target \in Nat
  <2>1. p.target = Len(Made(base, p)) /\ p.target \in Nat
    BY DEF WellFormed, IsPayload
  <2>2. FlattenSeq(s) = f[Len(s)]
    BY <1>1, <1>2, FlattenIs
  <2> QED
    BY <1>1, <2>1, <2>2, MadeIs
<1> DEFINE g == [n \in 0 .. N |-> ReadOf(p, f, n)]
<1>5. \A n \in 1 .. N : ReadCommand(p, ReadOf(p, f, n - 1), p.cmds[n]) = ReadOf(p, f, n)
  BY <1>2, <1>3, ReadOne
<1>6. ReadOf(p, f, 0) = [left |-> p.target, ended |-> FALSE, err |-> FALSE, changes |-> <<>>]
  <2>1. [i \in 1 .. 0 |-> Recorded(p.cmds[i])] = <<>>
    OBVIOUS
  <2> QED
    BY <2>1 DEF ReadOf
<1>7. \A n \in 0 .. N : n = 0 \/ (n \in 1 .. N /\ n - 1 \in 0 .. N)
  BY <1>1
<1>8. \A n \in 0 .. N : g[n] = ReadOf(p, f, n)
  OBVIOUS
<1>9. g = [n \in 0 .. N |-> g[n]]
  OBVIOUS
<1> HIDE DEF N, s, g
<1>10. \A n \in 0 .. N :
          g[n] = IF n = 0 THEN [left |-> p.target, ended |-> FALSE, err |-> FALSE, changes |-> <<>>]
                 ELSE ReadCommand(p, g[n - 1], p.cmds[n])
  BY <1>5, <1>6, <1>7, <1>8
<1>11. g = ReadingLoop(p, g)
  BY <1>9, <1>10 DEF ReadingLoop, N
<1>12. ParseDelta(p) = Parsed(p, g[N])
  BY <1>1, <1>11, ParseIs DEF N
<1>13. N \in 0 .. N /\ N # 0
  BY <1>1
<1>14. g[N] = ReadOf(p, f, N)
  BY <1>8, <1>13
<1>15. /\ g[N].left = 0 /\ g[N].err = FALSE
       /\ g[N].changes = [i \in 1 .. N |-> Recorded(p.cmds[i])]
  <2>1. p.target - Len(f[N]) = 0
    BY <1>4
  <2> QED
    BY <1>13, <1>14, <2>1 DEF ReadOf
<1>16. Reads(g[N], p.target) = FALSE
  BY <1>15 DEF Reads
<1>17. (p.cmds = <<>> \/ g[N].err \/ Reads(g[N], p.target)) = FALSE
  BY <1>1, <1>15, <1>16
<1> QED
  BY <1>12, <1>15, <1>17 DEF Parsed, N

\* A delta that is as it should be applies to the base it was made for and makes what it should.
LEMMA MadeRight ==
    ASSUME NEW base, base \in Seq(Elements(base)), NEW p, IsPayload(p), WellFormed(base, p)
    PROVE  /\ ~ParseDelta(p).err
           /\ Applies(base, ParseDelta(p))
           /\ ApplyDelta(base, ParseDelta(p)) = Made(base, p)
<1> DEFINE N == Len(p.cmds)
           d == ParseDelta(p)
<1>1. /\ N \in Nat \ {0} /\ DOMAIN p.cmds = 1 .. N
      /\ \A i \in 1 .. N : LET cmd == p.cmds[i]
                           IN  /\ SizeOf(cmd) \in Nat \ {0} /\ cmd.op \in {"add", "copy"}
                               /\ cmd.op = "copy" => cmd.off + SizeOf(cmd) <= p.source
  BY PiecesAre
<1>2. p.source = Len(base)
  BY DEF WellFormed
<1>3. \A i \in 1 .. N : LET cmd == p.cmds[i]
                        IN  /\ Recorded(cmd).op = cmd.op /\ Recorded(cmd).off = cmd.off
                            /\ Recorded(cmd).size = SizeOf(cmd) /\ Recorded(cmd).data = cmd.data
  BY <1>1, RecordedIs
<1>4. d = [err |-> FALSE, source |-> p.source, changes |-> [i \in 1 .. N |-> Recorded(p.cmds[i])]]
  BY ReadToEnd
<1> HIDE DEF d, N
<1>5. /\ d.err = FALSE /\ d.source = p.source /\ d.changes = [i \in 1 .. N |-> Recorded(p.cmds[i])]
  BY <1>4
<1>6. DOMAIN d.changes = 1 .. N /\ \A i \in 1 .. N : d.changes[i] = Recorded(p.cmds[i])
  BY <1>5
<1>7. Applies(base, d)
  <2>1. ASSUME NEW i \in 1 .. N, d.changes[i].op = "copy"
        PROVE  d.changes[i].off + d.changes[i].size <= Len(base) /\ d.changes[i].size # 0
    <3> DEFINE cmd == p.cmds[i]
    <3>1. d.changes[i].op = cmd.op /\ d.changes[i].off = cmd.off /\ d.changes[i].size = SizeOf(cmd)
      BY <1>3, <1>6
    <3>2. SizeOf(cmd) \in Nat \ {0} /\ (cmd.op = "copy" => cmd.off + SizeOf(cmd) <= p.source)
      BY <1>1
    <3> HIDE DEF cmd
    <3> QED
      BY <1>2, <2>1, <3>1, <3>2
  <2> QED
    BY <1>2, <1>5, <1>6, <2>1 DEF Applies
<1>8. ASSUME NEW i \in 1 .. N PROVE Change(base, d.changes[i]) = Piece(base, p.cmds[i])
  <2> DEFINE cmd == p.cmds[i]
             ch == d.changes[i]
  <2>1. /\ ch.op = cmd.op /\ ch.off = cmd.off /\ ch.size = SizeOf(cmd) /\ ch.data = cmd.data
    BY <1>3, <1>6
  <2>2. SizeOf(cmd) \in Nat \ {0}
    BY <1>1
  <2>3. cmd.off \in Nat
    BY <1>1 DEF IsPayload
  <2> HIDE DEF cmd, ch
  <2>4. ASSUME cmd.op = "copy"
        PROVE  SubSeq(base, cmd.off + 1, cmd.off + SizeOf(cmd)) = [k \in 1 .. SizeOf(cmd) |-> base[cmd.off + k]]
    <3> DEFINE m == cmd.off + 1
               n == cmd.off + SizeOf(cmd)
               q == SubSeq(base, m, n)
    <3>1. n <= Len(base)
      BY <1>1, <1>2, <2>4 DEF cmd
    <3>2. Len(base) \in Nat
      OBVIOUS
    <3>3. m \in 1 .. Len(base) + 1 /\ n \in m - 1 .. Len(base)
      BY <2>2, <2>3, <3>1, <3>2
    <3>4. /\ q \in Seq(Elements(base)) /\ Len(q) = n - m + 1
          /\ \A k \in 1 .. n - m + 1 : q[k] = base[m + k - 1]
      <4> HIDE DEF m, n
      <4> QED
        BY <3>3, SubSeqProperties
    <3>5. n - m + 1 = SizeOf(cmd) /\ \A k \in 1 .. SizeOf(cmd) : m + k - 1 = cmd.off + k
      BY <2>2, <2>3
    <3> HIDE DEF m, n, q
    <3>6. Len(q) = SizeOf(cmd) /\ \A k \in 1 .. SizeOf(cmd) : q[k] = base[cmd.off + k]
      BY <3>4, <3>5
    <3>7. q = [k \in 1 .. SizeOf(cmd) |-> base[cmd.off + k]]
      BY <3>4, <3>6
    <3> QED
      BY <3>7 DEF q, m, n
  <2>5. cmd.op \in {"add", "copy"}
    BY <1>1 DEF cmd
  <2> QED
    BY <2>1, <2>4, <2>5 DEF Change, Piece, cmd, ch
<1>9. [i \in DOMAIN d.changes |-> Change(base, d.changes[i])] = Pieces(base, p)
  BY <1>1, <1>6, <1>8 DEF Pieces
<1>10. ApplyDelta(base, d) = Made(base, p)
  BY <1>9, MadeIs DEF ApplyDelta
<1> QED
  BY <1>5, <1>7, <1>10 DEF d

\* So resolveDeltas makes the object that the sender meant, once it has the base.
LEMMA DeltasAreRight ==
    ASSUME NEW p \in Packs, NEW e \in Elements(p), IsDelta(e), AsItShouldBe(e)
    PROVE  /\ Resolved(e) = Meant(e)
           /\ Applies(e.base.data, ParseDelta(e.payload))
<1>1. e.base.data \in Seq(Elements(e.base.data)) /\ IsPayload(e.payload)
  BY PayloadsAssumption
<1>2. WellFormed(e.base.data, e.payload)
  BY DEF AsItShouldBe, IsDelta
<1> DEFINE b == e.base.data
<1>3. Applies(b, ParseDelta(e.payload)) /\ ApplyDelta(b, ParseDelta(e.payload)) = Made(b, e.payload)
  <2> HIDE DEF b
  <2> QED
    BY <1>1, <1>2, MadeRight DEF b
<1> QED
  BY <1>3 DEF Resolved, Meant

-----------------------------------------------------------------------------
(* What was wanted is served.                                              *)
LEMMA Appended ==
    ASSUME NEW S, NEW s \in Seq(S), NEW x \in S
    PROVE  Elements(Append(s, x)) = Elements(s) \cup {x}
<1>1. DOMAIN Append(s, x) = 1 .. Len(s) + 1 /\ DOMAIN s = 1 .. Len(s) /\ Len(s) \in Nat
  OBVIOUS
<1>2. Append(s, x)[Len(s) + 1] = x /\ \A i \in DOMAIN s : Append(s, x)[i] = s[i]
  OBVIOUS
<1>3. Elements(Append(s, x)) \subseteq Elements(s) \cup {x}
  <2> SUFFICES ASSUME NEW i \in 1 .. Len(s) + 1 PROVE Append(s, x)[i] \in Elements(s) \cup {x}
    BY <1>1 DEF Elements
  <2>1. CASE i = Len(s) + 1
    BY <2>1, <1>2
  <2>2. CASE i # Len(s) + 1
    <3>1. i \in DOMAIN s
      BY <2>2, <1>1
    <3> QED
      BY <3>1, <1>2 DEF Elements
  <2> QED
    BY <2>1, <2>2
<1>4. Elements(s) \cup {x} \subseteq Elements(Append(s, x))
  <2>1. \A i \in DOMAIN s : i \in DOMAIN Append(s, x)
    BY <1>1
  <2>2. Len(s) + 1 \in DOMAIN Append(s, x)
    BY <1>1
  <2>3. Elements(s) \subseteq Elements(Append(s, x))
    BY <1>2, <2>1 DEF Elements
  <2>4. x \in Elements(Append(s, x))
    BY <1>2, <2>2 DEF Elements
  <2> QED
    BY <2>3, <2>4
<1> QED
  BY <1>3, <1>4

\* A list has no more elements than its length, so that a set of that many of them is all.
LEMMA AllOfThem ==
    ASSUME NEW S, NEW s \in Seq(S), NEW T \in SUBSET Elements(s), Cardinality(T) = Len(s)
    PROVE  Elements(s) \subseteq T
<1>1. s \in [1 .. Len(s) -> Elements(s)] /\ Len(s) \in Nat /\ DOMAIN s = 1 .. Len(s)
  BY DEF Elements
<1>2. \A x \in Elements(s) : \E i \in 1 .. Len(s) : s[i] = x
  BY <1>1 DEF Elements
<1>3. s \in Surjection(1 .. Len(s), Elements(s))
  BY <1>1, <1>2 DEF Surjection
<1>4. IsFiniteSet(1 .. Len(s)) /\ Cardinality(1 .. Len(s)) = Len(s)
  <2>1. 1 \in Int /\ Len(s) \in Int
    BY <1>1
  <2>2. /\ IsFiniteSet(1 .. Len(s))
        /\ Cardinality(1 .. Len(s)) = IF 1 > Len(s) THEN 0 ELSE Len(s) - 1 + 1
    BY <2>1, FS_Interval, Zenon
  <2> QED
    BY <1>1, <2>2
<1>5. IsFiniteSet(Elements(s)) /\ Cardinality(Elements(s)) <= Len(s)
  BY <1>3, <1>4, FS_Surjection
<1>6. /\ IsFiniteSet(T) /\ Cardinality(T) <= Cardinality(Elements(s))
      /\ (Cardinality(Elements(s)) = Cardinality(T) => Elements(s) = T)
  BY <1>5, FS_Subset
<1>7. Cardinality(Elements(s)) \in Nat
  BY <1>5, FS_CardinalityType
<1> QED
  BY <1>5, <1>6, <1>7, <1>1

\* Each want that was looked up is in the results or pending.
LookedUp ==
    /\ pc = "cache" =>
        /\ \A i \in 1 .. asked : want[i] \in objects \cup Elements(pending)
        /\ objects \subseteq Elements(want)
    /\ pc # "cache" => Elements(want) \subseteq objects \cup Elements(pending)

\* While the call looks out for what is pending, the rest of it is in the results.
Tracked == (pc = "read" /\ Tracking) => Elements(pending) \subseteq objects \cup pendingWanted

\* What becomes of an entry: an object is in the results, a delta waits or is resolved.
Held(e) == e.kind = "plain" => e.base \in objects
Unread == pc \in {"cache", "send"} => count = 0
ReadSoFar ==
    pc = "read" => \A i \in 1 .. count : Held(pack[i]) /\ (IsDelta(pack[i]) => pack[i] \in Elements(deltas))
ToCome == {remaining[i] : i \in cursor + 1 .. Len(remaining)}
ResolvedSoFar ==
    pc = "resolve" =>
        \A e \in Entries : Held(e) /\ (IsDelta(e) => \/ Resolved(e) \in objects
                                                   \/ e \in Elements(stillPending) \cup ToCome)

\* A call that succeeds has all it was asked for, or all that the pack makes.
Served ==
    /\ result = "ok" =>
        \/ ended = "early"
        \/ Elements(want) \subseteq objects
        \/ \A e \in Entries : Held(e) /\ (IsDelta(e) => Resolved(e) \in objects)
    /\ result = "ok" => pc = "done"

ServedInv == Types /\ Unread /\ LookedUp /\ Tracked /\ ReadSoFar /\ ResolvedSoFar /\ Served /\ StopsComplete

LEMMA InitServed == Init => ServedInv
<1> SUFFICES ASSUME Init PROVE ServedInv
  OBVIOUS
<1>1. Types
  BY InitTypes
<1>2. Unread /\ LookedUp /\ Tracked /\ ReadSoFar /\ ResolvedSoFar /\ Served /\ StopsComplete
  BY DEF Init, Unread, LookedUp, Tracked, ReadSoFar, ResolvedSoFar, Served, StopsComplete
<1> QED
  BY <1>1, <1>2 DEF ServedInv

LEMMA NextUnread == Unread /\ [Next]_vars => Unread'
<1> SUFFICES ASSUME Unread, [Next]_vars PROVE Unread'
  OBVIOUS
<1>1. CASE CheckCache \/ SkipCache
  BY <1>1 DEF CheckCache, SkipCache, reading, Unread
<1>2. CASE SendFetchRequest
  BY <1>2 DEF SendFetchRequest, Return, Unread
<1>3. CASE \/ \E k \in 1 .. 2 * Len(pack) : Packet(k)
           \/ \E how \in {"cut", "fatal", "invalid", "tooLarge"} : PacketsEnd(how)
           \/ Foreign
           \/ UNCHANGED vars
  BY <1>3 DEF Packet, PacketsEnd, Foreign, vars, reading, Unread
<1>4. CASE ReadObject
  BY <1>4 DEF ReadObject, EndReading, Return, Unread
<1>5. CASE ReadTrailer \/ ReadFails
  BY <1>5 DEF ReadTrailer, ReadFails, EndReading, Return, Unread
<1>6. CASE ResolveDelta \/ EndIteration
  BY <1>6 DEF ResolveDelta, EndIteration, Return, Unread
<1> QED
  BY <1>1, <1>2, <1>3, <1>4, <1>5, <1>6 DEF Next, Step

LEMMA NextServed == ServedInv /\ [Next]_vars => ServedInv'
<1> SUFFICES ASSUME ServedInv, [Next]_vars PROVE ServedInv'
  OBVIOUS
<1>0. Types /\ Types' /\ Unread /\ LookedUp /\ Tracked /\ ReadSoFar /\ ResolvedSoFar /\ Served /\ StopsComplete
  BY NextTypes DEF ServedInv
<1>u. Unread'
  BY <1>0, NextUnread
<1> SUFFICES LookedUp' /\ Tracked' /\ ReadSoFar' /\ ResolvedSoFar' /\ Served' /\ StopsComplete'
  BY <1>0, <1>u DEF ServedInv
<1>1. CASE CheckCache
  <2>1. /\ UNCHANGED <<want, noExtraObjects, pack, count, deltas, stopped, stillPending, remaining, cursor>>
        /\ pc = "cache"
    BY <1>1 DEF CheckCache, call, response, reading, resolving
  <2>2. CASE asked < Len(want)
    <3> DEFINE w == want[asked + 1]
    <3>1. pc' = "cache" /\ asked' = asked + 1 /\ result' = result
      BY <1>1, <2>1, <2>2 DEF CheckCache
    <3>2. w \in Elements(want) /\ pending \in Seq(Elements(want)) /\ asked \in Nat
      BY <1>0, <2>2 DEF Types, Asking, Elements
    <3>3. \/ objects' = objects \cup {w} /\ pending' = pending
          \/ objects' = objects /\ pending' = Append(pending, w)
      BY <1>1, <2>2 DEF CheckCache
    <3>4. Elements(Append(pending, w)) = Elements(pending) \cup {w}
      BY <3>2, Appended
    <3> HIDE DEF w
    <3>5. /\ objects \subseteq objects' /\ objects' \subseteq objects \cup {w}
          /\ objects' \cup Elements(pending') = objects \cup Elements(pending) \cup {w}
      BY <3>3, <3>4
    <3>6. \A i \in 1 .. asked' : i \in 1 .. asked \/ want[i] = w
      BY <3>1, <3>2 DEF w
    <3>7. \A i \in 1 .. asked' : want[i] \in objects' \cup Elements(pending')
      BY <1>0, <2>1, <3>5, <3>6 DEF LookedUp
    <3>8. objects' \subseteq Elements(want)
      BY <1>0, <2>1, <3>2, <3>5 DEF LookedUp
    <3>9. LookedUp'
      BY <2>1, <3>1, <3>7, <3>8 DEF LookedUp, Elements
    <3>10. Served' /\ StopsComplete'
      BY <1>0, <2>1, <3>1, <3>5 DEF Served, StopsComplete, Elements
    <3> QED
      BY <3>1, <3>9, <3>10 DEF Tracked, ReadSoFar, ResolvedSoFar
  <2>3. CASE ~(asked < Len(want))
    <3>1. /\ UNCHANGED <<asked, pending, objects>>
          /\ \/ pc' = "done" /\ result' = "ok" /\ Cardinality(objects) = Len(want)
             \/ pc' = "send" /\ result' = result
      BY <1>1, <2>3 DEF CheckCache, Return
    <3>2. asked = Len(want) /\ want \in Seq(Elements(want)) /\ Len(want) \in Nat
      BY <1>0, <2>3 DEF Types, Asking
    <3>3. Elements(want) \subseteq objects \cup Elements(pending)
      BY <1>0, <2>1, <3>2 DEF LookedUp, Elements
    <3>4. objects \subseteq Elements(want)
      BY <1>0, <2>1 DEF LookedUp
    <3>5. Cardinality(objects) = Len(want) => Elements(want) \subseteq objects
      BY <3>2, <3>4, AllOfThem
    <3>6. LookedUp'
      BY <2>1, <3>1, <3>3 DEF LookedUp, Elements
    <3>7. Served'
      BY <1>0, <2>1, <3>1, <3>5 DEF Served, Elements
    <3>8. StopsComplete'
      BY <1>0, <2>1, <3>1 DEF StopsComplete, Elements
    <3> QED
      BY <3>1, <3>6, <3>7, <3>8 DEF Tracked, ReadSoFar, ResolvedSoFar
  <2> QED
    BY <2>2, <2>3
<1>2. CASE SkipCache
  <2>1. /\ UNCHANGED <<want, objects, stopped, result>> /\ pc = "cache"
        /\ pending' = want /\ pc' = "send"
    BY <1>2 DEF SkipCache, call, reading
  <2>2. LookedUp'
    BY <2>1 DEF LookedUp, Elements
  <2>3. Served' /\ StopsComplete'
    BY <1>0, <2>1 DEF Served, StopsComplete, Elements
  <2> QED
    BY <2>1, <2>2, <2>3 DEF Tracked, ReadSoFar, ResolvedSoFar
<1>3. CASE SendFetchRequest
  <2>1. /\ UNCHANGED <<want, noExtraObjects, objects, pending, pack, count, deltas, stopped>> /\ pc = "send"
    BY <1>3 DEF SendFetchRequest, call, response
  <2>2. \/ pc' = "done" /\ result' = "error"
        \/ pc' = "done" /\ result' = "ok" /\ (pack = <<>> \/ ended' = "early")
        \/ pc' = "read" /\ result' = result /\ pendingWanted' = IF Tracking THEN Elements(pending) ELSE {}
    BY <1>3 DEF SendFetchRequest, Return
  <2>3. Elements(want) \subseteq objects \cup Elements(pending)
    BY <1>0, <2>1 DEF LookedUp
  <2>4. LookedUp'
    BY <2>1, <2>2, <2>3 DEF LookedUp, Elements
  <2>5. Tracked'
    BY <2>1, <2>2 DEF Tracked, Tracking, Elements
  <2>6. count = 0
    BY <1>0, <2>1 DEF Unread
  <2>7. ReadSoFar'
    BY <2>1, <2>6 DEF ReadSoFar
  <2>8. pack = <<>> => Entries' = {}
    BY <2>1 DEF Entries, Elements
  <2>9. Served'
    BY <1>0, <2>1, <2>2, <2>8 DEF Served
  <2>10. StopsComplete'
    BY <1>0, <2>1 DEF StopsComplete, Elements
  <2> QED
    BY <2>2, <2>4, <2>5, <2>7, <2>9, <2>10 DEF ResolvedSoFar
<1>4. CASE \/ \E k \in 1 .. 2 * Len(pack) : Packet(k)
           \/ \E how \in {"cut", "fatal", "invalid", "tooLarge"} : PacketsEnd(how)
           \/ Foreign
           \/ UNCHANGED vars
  <2>1. UNCHANGED <<pc, want, noExtraObjects, asked, pending, objects, pack, count, pendingWanted, deltas,
                    stopped, remaining, stillPending, cursor, result>>
    BY <1>4 DEF Packet, PacketsEnd, Foreign, vars, call, response, reading, resolving
  <2>0. ended = "early" => ended' = "early"
    BY <1>4 DEF Packet, PacketsEnd, Hungry, Foreign, vars, response
  <2>2. LookedUp' /\ Served' /\ StopsComplete'
    BY <1>0, <2>0, <2>1 DEF LookedUp, Served, StopsComplete, Elements, Entries, Held
  <2>3. Tracked' /\ ReadSoFar'
    BY <1>0, <2>1 DEF Tracked, Tracking, ReadSoFar, Held, Elements
  <2>4. ResolvedSoFar'
    BY <1>0, <2>1 DEF ResolvedSoFar, ToCome, Held, Elements, Entries
  <2> QED
    BY <2>2, <2>3, <2>4
<1>5. CASE ReadObject
  <2> DEFINE e == NextEntry
  <2>1. /\ UNCHANGED <<want, noExtraObjects, pending, pack>> /\ pc = "read" /\ count < Len(pack)
        /\ e = pack[count + 1]
    BY <1>5 DEF ReadObject, call, response, NextEntry
  <2>2. count \in Nat /\ deltas \in Seq(Entries) /\ e \in Entries /\ Entries' = Entries
    BY <1>0, <2>1 DEF Types, Reading, Entries, Elements
  <2>3. Elements(want) \subseteq objects \cup Elements(pending)
    BY <1>0, <2>1 DEF LookedUp
  <2>4. Tracking' = Tracking
    BY <2>1 DEF Tracking
  <2>5. CASE ~Readable(e)
    <3>1. pc' = "done" /\ result' = "error" /\ UNCHANGED <<objects, stopped>>
      BY <1>5, <2>5 DEF ReadObject, Return, reading
    <3>2. LookedUp' /\ StopsComplete'
      BY <1>0, <2>1, <2>3, <3>1 DEF LookedUp, StopsComplete, Elements
    <3> QED
      BY <3>1, <3>2 DEF Tracked, ReadSoFar, ResolvedSoFar, Served
  <2>6. CASE Readable(e) /\ IsDelta(e)
    <3>1. /\ UNCHANGED <<pc, objects, pendingWanted, stopped, result>>
          /\ count' = count + 1 /\ deltas' = Append(deltas, e)
      BY <1>5, <2>6 DEF ReadObject
    <3>2. Elements(deltas') = Elements(deltas) \cup {e}
      BY <2>2, <3>1, Appended
    <3>3. LookedUp' /\ StopsComplete' /\ Served'
      BY <1>0, <2>1, <2>3, <3>1 DEF LookedUp, StopsComplete, Served, Elements
    <3>4. Tracked'
      BY <1>0, <2>1, <2>4, <3>1 DEF Tracked, Elements
    <3>5. Held(e)
      BY <2>6 DEF Held, IsDelta
    <3>6. \A i \in 1 .. count : pack[i] \in Elements(deltas) => pack[i] \in Elements(deltas')
      BY <3>2
    <3>7. \A i \in 1 .. count : Held(pack[i]) /\ (IsDelta(pack[i]) => pack[i] \in Elements(deltas'))
      BY <1>0, <2>1, <3>6 DEF ReadSoFar
    <3>8. \A i \in 1 .. count' : i \in 1 .. count \/ pack[i] = e
      BY <2>1, <2>2, <3>1
    <3> HIDE DEF e
    <3>9. \A i \in 1 .. count' : Held(pack[i]) /\ (IsDelta(pack[i]) => pack[i] \in Elements(deltas'))
      BY <3>2, <3>5, <3>7, <3>8
    <3>10. ReadSoFar'
      BY <2>1, <3>1, <3>9 DEF ReadSoFar, Held, Elements
    <3> QED
      BY <2>1, <3>1, <3>3, <3>4, <3>10 DEF ResolvedSoFar
  <2>7. CASE Readable(e) /\ ~IsDelta(e)
    <3> DEFINE o == e.base
    <3>1. /\ count' = count + 1 /\ objects' = objects \cup {o} /\ pendingWanted' = pendingWanted \ {o}
          /\ \/ /\ ShouldTerminateEarly(o) /\ stopped' = TRUE /\ pc' = "done" /\ result' = "ok"
             \/ UNCHANGED <<pc, deltas, stopped, result>>
      BY <1>5, <2>7 DEF ReadObject, EndReading, Return
    <3>2. Elements(pending) \subseteq objects \cup pendingWanted \/ ~Tracking
      BY <1>0, <2>1 DEF Tracked
    <3>3. e.kind = "plain" => e.base \in objects'
      BY <3>1
    <3> HIDE DEF o
    <3>4. CASE ShouldTerminateEarly(o) /\ stopped' = TRUE /\ pc' = "done" /\ result' = "ok"
      <4>1. Elements(pending) \subseteq objects'
        BY <3>1, <3>2, <3>4 DEF ShouldTerminateEarly
      <4>2. Elements(want) \subseteq objects'
        BY <2>3, <3>1, <4>1
      <4> QED
        BY <2>1, <3>4, <4>1, <4>2 DEF LookedUp, Tracked, ReadSoFar, ResolvedSoFar, Served, StopsComplete, Elements
    <3>5. CASE UNCHANGED <<pc, deltas, stopped, result>>
      <4>1. LookedUp' /\ StopsComplete' /\ Served'
        BY <1>0, <2>1, <2>3, <3>1, <3>5 DEF LookedUp, StopsComplete, Served, Elements
      <4>2. Tracked'
        BY <2>1, <2>4, <3>1, <3>2, <3>5 DEF Tracked, Elements
      <4>3. \A i \in 1 .. count : Held(pack[i]) /\ (IsDelta(pack[i]) => pack[i] \in Elements(deltas))
        BY <1>0, <2>1 DEF ReadSoFar
      <4>4. \A i \in 1 .. count' : i \in 1 .. count \/ pack[i] = e
        BY <2>1, <2>2, <3>1
      <4> HIDE DEF e
      <4>5. \A i \in 1 .. count' : /\ pack[i].kind = "plain" => pack[i].base \in objects'
                                   /\ IsDelta(pack[i]) => pack[i] \in Elements(deltas)
        BY <2>1, <2>7, <3>1, <3>3, <4>3, <4>4 DEF Held
      <4>6. pack' = pack /\ deltas' = deltas /\ Elements(deltas') = Elements(deltas)
        BY <2>1, <3>5
      <4>7. ReadSoFar'
        BY <2>1, <3>5, <4>5, <4>6 DEF ReadSoFar, Held, IsDelta, Elements
      <4> QED
        BY <2>1, <3>5, <4>1, <4>2, <4>7 DEF ResolvedSoFar
    <3> QED
      BY <3>1, <3>4, <3>5
  <2> QED
    BY <2>5, <2>6, <2>7
<1>6. CASE ReadTrailer
  <2>1. /\ UNCHANGED <<want, pending, objects, pack, deltas, stopped>>
        /\ pc = "read" /\ count = Len(pack)
    BY <1>6 DEF ReadTrailer, call, response, reading
  <2>2. \A e \in Entries : Held(e) /\ (IsDelta(e) => e \in Elements(deltas))
    <3>1. \A e \in Entries : \E i \in 1 .. count : e = pack[i]
      BY <1>0, <2>1 DEF Types, Reading, Entries, Elements
    <3> QED
      BY <1>0, <2>1, <3>1 DEF ReadSoFar
  <2>3. Entries' = Entries
    BY <2>1 DEF Entries, Elements
  <2>4. LookedUp' /\ StopsComplete' /\ pc' \in {"done", "resolve"}
    BY <1>0, <1>6, <2>1 DEF ReadTrailer, EndReading, Return, LookedUp, StopsComplete, Elements
  <2>5. CASE deltas = <<>>
    <3>1. pc' = "done" /\ result' = "ok"
      BY <1>6, <2>5 DEF ReadTrailer, EndReading, Return
    <3>2. Elements(deltas) = {}
      BY <2>5 DEF Elements
    <3>3. Served'
      BY <2>1, <2>2, <2>3, <3>1, <3>2 DEF Served, Held
    <3> QED
      BY <2>4, <3>1, <3>3 DEF Tracked, ReadSoFar, ResolvedSoFar
  <2>6. CASE deltas # <<>>
    <3>1. pc' = "resolve" /\ remaining' = deltas /\ cursor' = 0 /\ result' = result
      BY <1>6, <2>6 DEF ReadTrailer, EndReading
    <3>2. Elements(deltas) = ToCome'
      <4>1. deltas \in Seq(Entries)
        BY <1>0 DEF Types, Reading
      <4>2. DOMAIN deltas = 1 .. Len(deltas) /\ Len(deltas) \in Nat
        BY <4>1
      <4>3. ToCome' = {deltas[i] : i \in 0 + 1 .. Len(deltas)}
        BY <3>1 DEF ToCome
      <4> QED
        BY <4>2, <4>3 DEF Elements
    <3>3. ResolvedSoFar'
      BY <2>1, <2>2, <2>3, <3>2 DEF ResolvedSoFar, Held
    <3>4. Served'
      BY <1>0, <2>1, <3>1 DEF Served
    <3> QED
      BY <2>4, <3>1, <3>3, <3>4 DEF Tracked, ReadSoFar
  <2> QED
    BY <2>5, <2>6
<1>7. CASE ReadFails
  <2>1. /\ UNCHANGED <<want, pending, objects, pack, stopped>> /\ pc = "read" /\ pc' = "done"
        /\ (result' = "ok" /\ Tracking /\ pendingWanted = {}) \/ result' = "error"
    BY <1>7 DEF ReadFails, call, response, reading, Return
  <2>2. LookedUp' /\ StopsComplete'
    BY <1>0, <2>1 DEF LookedUp, StopsComplete, Elements
  <2>3. Tracking /\ pendingWanted = {} => Elements(want) \subseteq objects
    BY <1>0, <2>1 DEF Tracked, LookedUp
  <2>4. Served'
    BY <2>1, <2>3 DEF Served, Elements
  <2> QED
    BY <2>1, <2>2, <2>4 DEF Tracked, ReadSoFar, ResolvedSoFar
<1>8. CASE ResolveDelta
  <2> DEFINE d == remaining[cursor + 1]
  <2>1. /\ UNCHANGED <<pc, want, pending, pack, deltas, remaining, stopped, result>>
        /\ pc = "resolve" /\ cursor < Len(remaining) /\ cursor' = cursor + 1
    BY <1>8 DEF ResolveDelta, call, response, reading
  <2>2. \/ objects' = objects \cup {Resolved(d)} /\ stillPending' = stillPending
        \/ objects' = objects /\ stillPending' = Append(stillPending, d)
    BY <1>8 DEF ResolveDelta
  <2>3. /\ cursor \in Nat /\ Len(remaining) \in Nat /\ stillPending \in Seq(Entries)
        /\ d \in Entries /\ Entries' = Entries
    BY <1>0, <2>1 DEF Types, Resolving, Entries, Elements
  <2>4. LookedUp' /\ StopsComplete' /\ Served'
    BY <1>0, <2>1, <2>2 DEF LookedUp, StopsComplete, Served, Elements
  <2>5. Elements(Append(stillPending, d)) = Elements(stillPending) \cup {d}
    BY <2>3, Appended
  <2>6. \A x \in ToCome : x = d \/ x \in ToCome'
    <3>1. \A i \in cursor + 1 .. Len(remaining) : i = cursor + 1 \/ i \in cursor' + 1 .. Len(remaining)
      BY <2>1, <2>3
    <3> QED
      BY <2>1, <3>1 DEF ToCome
  <2> HIDE DEF d
  <2>7. objects \subseteq objects' /\ \A x \in Entries :
            (\/ Resolved(x) \in objects \/ x \in Elements(stillPending) \cup ToCome)
                => (\/ Resolved(x) \in objects' \/ x \in Elements(stillPending') \cup ToCome')
    BY <2>2, <2>5, <2>6
  <2>8. \A x \in Entries : Held(x) /\ (IsDelta(x) => \/ Resolved(x) \in objects
                                                   \/ x \in Elements(stillPending) \cup ToCome)
    BY <1>0, <2>1 DEF ResolvedSoFar
  <2>9. \A x \in Entries : (x.kind = "plain" => x.base \in objects')
    BY <2>7, <2>8 DEF Held
  <2>10. ResolvedSoFar'
    BY <2>3, <2>7, <2>8, <2>9 DEF ResolvedSoFar, Held
  <2> QED
    BY <2>1, <2>4, <2>10 DEF Tracked, ReadSoFar
<1>9. CASE EndIteration
  <2>1. /\ UNCHANGED <<want, pending, objects, pack, deltas, stopped>>
        /\ pc = "resolve" /\ cursor = Len(remaining)
        /\ remaining' = stillPending /\ stillPending' = <<>> /\ cursor' = 0
    BY <1>9 DEF EndIteration, call, response, reading
  <2>2. \/ pc' = "done" /\ result' = "ok" /\ stillPending = <<>>
        \/ pc' = "done" /\ result' \in {"missing", "iterations"}
        \/ pc' = "resolve" /\ result' = result
    BY <1>9, <2>1 DEF EndIteration, Return
  <2>3. Entries' = Entries /\ stillPending \in Seq(Entries) /\ Len(remaining) \in Nat
    BY <1>0, <2>1 DEF Types, Resolving, Entries, Elements
  <2>4. ToCome = {}
    <3>1. cursor + 1 .. Len(remaining) = {}
      BY <2>1, <2>3
    <3> QED
      BY <3>1 DEF ToCome
  <2>5. ToCome' = Elements(stillPending)
    <3>1. DOMAIN stillPending = 1 .. Len(stillPending) /\ Len(stillPending) \in Nat
      BY <2>3
    <3>2. ToCome' = {stillPending[i] : i \in 0 + 1 .. Len(stillPending)}
      BY <2>1 DEF ToCome
    <3> QED
      BY <3>1, <3>2 DEF Elements
  <2>6. \A x \in Entries : Held(x) /\ (IsDelta(x) => Resolved(x) \in objects \/ x \in Elements(stillPending))
    BY <1>0, <2>1, <2>4 DEF ResolvedSoFar
  <2>7. stillPending = <<>> => Elements(stillPending) = {}
    BY DEF Elements
  <2>8. LookedUp' /\ StopsComplete'
    BY <1>0, <2>1, <2>2 DEF LookedUp, StopsComplete, Elements
  <2>9. Served'
    BY <1>0, <2>1, <2>2, <2>3, <2>6, <2>7 DEF Served, Held
  <2>10. ResolvedSoFar'
    BY <2>1, <2>3, <2>5, <2>6 DEF ResolvedSoFar, Held
  <2> QED
    BY <2>2, <2>8, <2>9, <2>10 DEF Tracked, ReadSoFar
<1> QED
  BY <1>1, <1>2, <1>3, <1>4, <1>5, <1>6, <1>7, <1>8, <1>9 DEF Next, Step

\* A call that succeeds returns every wanted object that the sender sent or the cache had, whether
\* it comes as it is or as a delta, however the pack is ordered, wherever the call stops reading
\* or the pack is cut, and whatever others do to the storage meanwhile; but for a response that
\* broke off before its pack.
THEOREM WantedAreServed == Spec => []WantedServed
<1>1. Init => pack \in Packs
  BY DEF Init
<1>2. pack \in Packs /\ [Next]_vars => (pack \in Packs)'
  <2> SUFFICES ASSUME [Next]_vars PROVE pack' = pack
    OBVIOUS
  <2> QED
    BY DEF Next, Step, vars, response, CheckCache, SkipCache, SendFetchRequest, Packet, PacketsEnd,
           ReadObject, ReadTrailer, ReadFails, ResolveDelta, EndIteration, Foreign
<1>3. ServedInv /\ pack \in Packs => WantedServed
  <2> SUFFICES ASSUME ServedInv, pack \in Packs, result = "ok", ended # "early",
                      \A w \in Elements(pending) :
                          \E e \in Elements(pack) : AsItShouldBe(e) /\ Meant(e) = w
               PROVE  Elements(want) \subseteq objects
    BY DEF WantedServed
  <2>1. CASE ~(Elements(want) \subseteq objects)
    <3>1. \A e \in Entries : Held(e) /\ (IsDelta(e) => Resolved(e) \in objects)
      BY <2>1 DEF ServedInv, Served
    <3>2. \A e \in Entries : AsItShouldBe(e) => Meant(e) \in objects
      <4> SUFFICES ASSUME NEW e \in Entries, AsItShouldBe(e) PROVE Meant(e) \in objects
        OBVIOUS
      <4>1. CASE IsDelta(e)
        <5>1. Resolved(e) = Meant(e)
          BY <4>1, DeltasAreRight DEF Entries
        <5> QED
          BY <3>1, <4>1, <5>1
      <4>2. CASE ~IsDelta(e)
        <5>1. e.kind = "plain"
          BY <4>2 DEF AsItShouldBe
        <5> QED
          BY <3>1, <4>2, <5>1 DEF Held, Meant
      <4> QED
        BY <4>1, <4>2
    <3>3. Elements(pending) \subseteq objects
      BY <3>2 DEF Entries
    <3>4. Elements(want) \subseteq objects \cup Elements(pending)
      BY DEF ServedInv, LookedUp, Served
    <3> QED
      BY <3>3, <3>4
  <2> QED
    BY <2>1
<1>4. Init => ServedInv
  BY InitServed
<1>5. ServedInv /\ [Next]_vars => ServedInv'
  BY NextServed
<1> QED
  BY <1>1, <1>2, <1>3, <1>4, <1>5, PTL DEF Spec

\* A call that stops before the end of the pack has all it was asked for, for any pack.
THEOREM EarlyStopComplete == Spec => []StopsComplete
<1>1. ServedInv => StopsComplete
  BY DEF ServedInv
<1> QED
  BY <1>1, InitServed, NextServed, PTL DEF Spec

-----------------------------------------------------------------------------
(* What resolveDeltas makes of a pack.                                     *)
Sound == \A e \in Entries : AsItShouldBe(e)

\* What waits to be resolved are deltas.
AreDeltas(s) == \A e \in Elements(s) : IsDelta(e)
DeltasOnly == AreDeltas(deltas) /\ AreDeltas(remaining) /\ AreDeltas(stillPending)

\* Nothing is among the results that was not asked for or sent.
NoneElse == Sound => objects \subseteq AllMeant \cup Elements(want)

\* A pack that was read to its end is all there.
Complete == (result = "ok" /\ ~stopped /\ count = Len(pack)) =>
                \A e \in Entries : Held(e) /\ (IsDelta(e) => Resolved(e) \in objects)

\* As long as a round resolves nothing, what it left has no base among the results.
Stuck == (pc = "resolve" /\ resolvedCount = 0 /\ Sound) =>
             \A e \in Elements(stillPending) : e.base \notin objects

\* A call gives up only where a base is missing.
GivesUpRightly == (result = "missing" /\ Sound) => ~(Bases \subseteq Reachable)

ResolveInv == /\ ServedInv /\ pack \in Packs /\ (result # "none" => pc = "done")
              /\ DeltasOnly /\ NoneElse /\ Complete /\ Stuck /\ GivesUpRightly

LEMMA InitResolve == Init => ResolveInv
<1> SUFFICES ASSUME Init PROVE ResolveInv
  OBVIOUS
<1>1. ServedInv
  BY InitServed
<1>2. pack \in Packs /\ result = "none" /\ objects = {} /\ pc = "cache"
      /\ deltas = <<>> /\ remaining = <<>> /\ stillPending = <<>>
  BY DEF Init
<1>3. DeltasOnly
  BY <1>2 DEF DeltasOnly, AreDeltas, Elements
<1>4. NoneElse /\ Complete /\ Stuck /\ GivesUpRightly
  BY <1>2 DEF NoneElse, Complete, Stuck, GivesUpRightly
<1> QED
  BY <1>1, <1>2, <1>3, <1>4 DEF ResolveInv

\* The pack and what was asked for do not change.
LEMMA SamePack ==
    ASSUME [Next]_vars
    PROVE  pack' = pack /\ want' = want
BY DEF Next, Step, vars, call, response, CheckCache, SkipCache, SendFetchRequest, Packet, PacketsEnd,
       ReadObject, ReadTrailer, ReadFails, ResolveDelta, EndIteration, Foreign

LEMMA SameSets ==
    ASSUME pack' = pack, want' = want
    PROVE  /\ Entries' = Entries /\ Sound' = Sound /\ AllMeant' = AllMeant /\ Bases' = Bases
           /\ Reachable' = Reachable /\ Elements(want)' = Elements(want)
<1>1. Entries' = Entries /\ AllMeant' = AllMeant /\ Bases' = Bases /\ Elements(want)' = Elements(want)
  BY DEF Entries, AllMeant, Bases, Elements
<1>2. Sound' = Sound
  BY <1>1 DEF Sound
<1>3. Reachable' = Reachable
  BY <1>1 DEF Reachable, Elements
<1> QED
  BY <1>1, <1>2, <1>3

\* The deltas that wait.
LEMMA NextDeltasOnly ==
    ASSUME Types, DeltasOnly, [Next]_vars
    PROVE  DeltasOnly'
<1>1. CASE ReadObject
  <2>1. UNCHANGED <<remaining, stillPending>> \/ (remaining' = <<>> /\ stillPending' = <<>>)
    BY <1>1 DEF ReadObject, resolving, EndReading, Return
  <2>2. count < Len(pack)
    BY <1>1 DEF ReadObject
  <2>3. \/ deltas' \in {deltas, <<>>}
        \/ IsDelta(NextEntry) /\ deltas' = Append(deltas, NextEntry)
    BY <1>1 DEF ReadObject, reading
  <2>4. deltas \in Seq(Entries) /\ NextEntry \in Entries
    BY <2>2 DEF Types, Reading, NextEntry, Entries, Elements
  <2>5. Elements(<<>>) = {}
    BY DEF Elements
  <2>6. Elements(Append(deltas, NextEntry)) = Elements(deltas) \cup {NextEntry}
    BY <2>4, Appended
  <2>7. AreDeltas(deltas')
    BY <2>3, <2>5, <2>6 DEF DeltasOnly, AreDeltas
  <2> QED
    BY <2>1, <2>5, <2>7 DEF DeltasOnly, AreDeltas
<1>2. CASE ReadTrailer
  <2>1. /\ deltas' = deltas
        /\ UNCHANGED <<remaining, stillPending>> \/ (remaining' = deltas /\ stillPending' = <<>>)
    BY <1>2 DEF ReadTrailer, reading, resolving, EndReading, Return
  <2>2. Elements(<<>>) = {}
    BY DEF Elements
  <2> QED
    BY <2>1, <2>2 DEF DeltasOnly, AreDeltas
<1>3. CASE ResolveDelta
  <2> DEFINE d == remaining[cursor + 1]
  <2>1. UNCHANGED <<deltas, remaining>> /\ cursor < Len(remaining)
    BY <1>3 DEF ResolveDelta, reading
  <2>2. stillPending' = stillPending \/ stillPending' = Append(stillPending, d)
    BY <1>3 DEF ResolveDelta
  <2>3. stillPending \in Seq(Entries) /\ d \in Entries /\ d \in Elements(remaining)
    BY <2>1 DEF Types, Resolving, Elements
  <2> HIDE DEF d
  <2>4. Elements(Append(stillPending, d)) = Elements(stillPending) \cup {d}
    BY <2>3, Appended
  <2>5. AreDeltas(stillPending')
    BY <2>2, <2>3, <2>4 DEF DeltasOnly, AreDeltas
  <2> QED
    BY <2>1, <2>5 DEF DeltasOnly, AreDeltas
<1>4. CASE EndIteration
  <2>1. deltas' = deltas /\ remaining' = stillPending /\ stillPending' = <<>>
    BY <1>4 DEF EndIteration, reading
  <2>2. Elements(<<>>) = {}
    BY DEF Elements
  <2> QED
    BY <2>1, <2>2 DEF DeltasOnly, AreDeltas
<1>5. CASE \/ CheckCache \/ SkipCache \/ SendFetchRequest \/ ReadFails \/ Foreign \/ UNCHANGED vars
           \/ \E k \in 1 .. 2 * Len(pack) : Packet(k)
           \/ \E how \in {"cut", "fatal", "invalid", "tooLarge"} : PacketsEnd(how)
  <2>1. UNCHANGED <<deltas, remaining, stillPending>>
    BY <1>5 DEF CheckCache, SkipCache, SendFetchRequest, ReadFails, Foreign, vars, Packet, PacketsEnd,
           reading, resolving
  <2> QED
    BY <2>1 DEF DeltasOnly, AreDeltas, Elements
<1> QED
  BY <1>1, <1>2, <1>3, <1>4, <1>5 DEF Next, Step

\* Each result was asked for, sent, or made of a delta of the pack.
LEMMA NextNoneElse ==
    ASSUME ResolveInv, [Next]_vars
    PROVE  NoneElse'
<1> SUFFICES ASSUME Sound' PROVE objects' \subseteq AllMeant' \cup Elements(want)'
  BY DEF NoneElse
<1>0. Types /\ DeltasOnly /\ pack \in Packs /\ LookedUp
  BY DEF ResolveInv, ServedInv
<1>1. Sound /\ AllMeant' = AllMeant /\ Elements(want)' = Elements(want) /\ Entries' = Entries
  BY SamePack, SameSets
<1>2. objects \subseteq AllMeant \cup Elements(want)
  BY <1>1 DEF ResolveInv, NoneElse
<1>3. CASE objects' = objects
  BY <1>1, <1>2, <1>3
<1>4. CASE CheckCache
  <2>1. \/ objects' = objects
        \/ asked < Len(want) /\ objects' = objects \cup {want[asked + 1]}
    BY <1>4 DEF CheckCache
  <2>2. asked < Len(want) => want[asked + 1] \in Elements(want)
    BY <1>0 DEF Types, Asking, Elements
  <2> QED
    BY <1>1, <1>2, <2>1, <2>2
<1>5. CASE ReadObject
  <2>1. count < Len(pack) /\ (objects' = objects \/ (~IsDelta(NextEntry) /\ objects' = objects \cup {NextEntry.base}))
    BY <1>5 DEF ReadObject
  <2>2. NextEntry \in Entries
    BY <1>0, <2>1 DEF Types, Reading, NextEntry, Entries, Elements
  <2>3. ~IsDelta(NextEntry) => NextEntry.base = Meant(NextEntry)
    BY DEF Meant
  <2>4. Meant(NextEntry) \in AllMeant
    BY <2>2 DEF AllMeant, Entries
  <2> QED
    BY <1>1, <1>2, <2>1, <2>3, <2>4
<1>6. CASE ResolveDelta
  <2> DEFINE d == remaining[cursor + 1]
  <2>1. cursor < Len(remaining) /\ (objects' = objects \/ objects' = objects \cup {Resolved(d)})
    BY <1>6 DEF ResolveDelta
  <2>2. d \in Entries /\ d \in Elements(remaining)
    BY <1>0, <2>1 DEF Types, Resolving, Elements
  <2> HIDE DEF d
  <2>3. IsDelta(d) /\ AsItShouldBe(d)
    BY <1>0, <1>1, <2>2 DEF DeltasOnly, AreDeltas, Sound
  <2>4. Resolved(d) = Meant(d)
    BY <1>0, <2>2, <2>3, DeltasAreRight DEF Entries
  <2>5. Meant(d) \in AllMeant
    BY <2>2 DEF AllMeant, Entries
  <2> QED
    BY <1>1, <1>2, <2>1, <2>4, <2>5
<1>7. CASE \/ SkipCache \/ SendFetchRequest \/ ReadTrailer \/ ReadFails \/ EndIteration \/ Foreign \/ UNCHANGED vars
           \/ \E k \in 1 .. 2 * Len(pack) : Packet(k)
           \/ \E how \in {"cut", "fatal", "invalid", "tooLarge"} : PacketsEnd(how)
  <2>1. objects' = objects
    BY <1>7 DEF SkipCache, SendFetchRequest, ReadTrailer, ReadFails, EndIteration, Foreign, vars, Packet, PacketsEnd
  <2> QED
    BY <1>3, <2>1
<1> QED
  BY <1>4, <1>5, <1>6, <1>7 DEF Next, Step

\* A call ends once.
LEMMA NextEnds ==
    ASSUME result # "none" => pc = "done", [Next]_vars
    PROVE  result' # "none" => pc' = "done"
<1>1. CASE \/ CheckCache \/ SkipCache \/ SendFetchRequest \/ ReadTrailer \/ ReadFails
  BY <1>1 DEF CheckCache, SkipCache, SendFetchRequest, ReadTrailer, ReadFails, EndReading, Return
<1>2. CASE ReadObject
  BY <1>2 DEF ReadObject, EndReading, Return
<1>3. CASE ResolveDelta \/ EndIteration
  BY <1>3 DEF ResolveDelta, EndIteration, Return
<1>4. CASE \/ \E k \in 1 .. 2 * Len(pack) : Packet(k)
           \/ \E how \in {"cut", "fatal", "invalid", "tooLarge"} : PacketsEnd(how)
           \/ Foreign \/ UNCHANGED vars
  BY <1>4 DEF Packet, PacketsEnd, Foreign, vars
<1> QED
  BY <1>1, <1>2, <1>3, <1>4 DEF Next, Step

\* A pack that was read to its end is all there, once its deltas are resolved.
LEMMA NextComplete ==
    ASSUME ResolveInv, [Next]_vars
    PROVE  Complete'
<1>0. /\ Types /\ Unread /\ ReadSoFar /\ ResolvedSoFar /\ Complete /\ (result # "none" => pc = "done")
      /\ pack' = pack /\ Entries' = Entries
  BY SamePack, SameSets DEF ResolveInv, ServedInv
<1> DEFINE All == \A e \in Entries : Held(e) /\ (IsDelta(e) => Resolved(e) \in objects)
<1>1. CASE result' # "ok" \/ stopped' \/ count' # Len(pack)
  BY <1>0, <1>1 DEF Complete
<1>2. CASE All /\ objects' = objects
  BY <1>0, <1>2 DEF Complete, Held
<1>3. CASE Len(pack) = 0
  <2>1. Entries = {}
    BY <1>0, <1>3 DEF Types, Reading, Entries, Elements
  <2> QED
    BY <1>0, <2>1 DEF Complete
<1>4. CASE UNCHANGED <<result, stopped, count, objects>>
  BY <1>0, <1>4 DEF Complete, Held
<1>5. CASE CheckCache
  <2>1. pc = "cache" /\ count' = count
    BY <1>5 DEF CheckCache, reading
  <2>2. count = 0
    BY <1>0, <2>1 DEF Unread
  <2> QED
    BY <1>1, <1>3, <2>1, <2>2
<1>6. CASE SkipCache
  <2>1. UNCHANGED <<result, stopped, count, objects>>
    BY <1>6 DEF SkipCache, reading
  <2> QED
    BY <1>4, <2>1
<1>7. CASE SendFetchRequest
  <2>1. pc = "send" /\ count' = count
    BY <1>7 DEF SendFetchRequest
  <2>2. count = 0
    BY <1>0, <2>1 DEF Unread
  <2> QED
    BY <1>1, <1>3, <2>1, <2>2
<1>8. CASE \/ \E k \in 1 .. 2 * Len(pack) : Packet(k)
           \/ \E how \in {"cut", "fatal", "invalid", "tooLarge"} : PacketsEnd(how)
           \/ Foreign \/ UNCHANGED vars
  <2>1. UNCHANGED <<result, stopped, count, objects>>
    BY <1>8 DEF Packet, PacketsEnd, Foreign, vars, reading
  <2> QED
    BY <1>4, <2>1
<1>9. CASE ReadObject
  <2>1. pc = "read" /\ result = "none"
    BY <1>0, <1>9 DEF ReadObject
  <2>2. result' = "ok" => stopped'
    BY <1>9, <2>1 DEF ReadObject, EndReading, Return
  <2> QED
    BY <1>1, <2>2
<1>10. CASE ReadTrailer
  <2>1. pc = "read" /\ result = "none" /\ count = Len(pack) /\ objects' = objects
    BY <1>0, <1>10 DEF ReadTrailer
  <2>2. CASE deltas = <<>>
    <3>1. \A e \in Entries : \E i \in 1 .. count : e = pack[i]
      BY <1>0, <2>1 DEF Types, Reading, Entries, Elements
    <3>2. Elements(deltas) = {}
      BY <2>2 DEF Elements
    <3>3. All
      BY <1>0, <2>1, <3>1, <3>2 DEF ReadSoFar
    <3> QED
      BY <1>2, <2>1, <3>3
  <2>3. CASE deltas # <<>>
    <3>1. result' = result
      BY <1>10, <2>3 DEF ReadTrailer, EndReading
    <3> QED
      BY <1>1, <2>1, <3>1
  <2> QED
    BY <2>2, <2>3
<1>11. CASE ReadFails
  <2>1. count < Len(pack) /\ count' = count
    BY <1>11 DEF ReadFails, reading
  <2>2. count' # Len(pack)
    BY <1>0, <2>1 DEF Types, Reading
  <2> QED
    BY <1>1, <2>2
<1>12. CASE ResolveDelta
  <2>1. result' = result /\ pc = "resolve"
    BY <1>12 DEF ResolveDelta
  <2> QED
    BY <1>0, <1>1, <2>1
<1>13. CASE EndIteration
  <2>1. pc = "resolve" /\ result = "none" /\ cursor = Len(remaining) /\ objects' = objects
    BY <1>0, <1>13 DEF EndIteration
  <2>2. CASE stillPending = <<>>
    <3>1. cursor + 1 .. Len(remaining) = {}
      BY <1>0, <2>1 DEF Types, Resolving
    <3>2. ToCome = {} /\ Elements(stillPending) = {}
      BY <2>2, <3>1 DEF ToCome, Elements
    <3>3. All
      BY <1>0, <2>1, <3>2 DEF ResolvedSoFar
    <3> QED
      BY <1>2, <2>1, <3>3
  <2>3. CASE stillPending # <<>>
    <3>1. result' \in {result, "missing", "iterations"}
      BY <1>13, <2>3 DEF EndIteration, Return
    <3> QED
      BY <1>1, <2>1, <3>1
  <2> QED
    BY <2>2, <2>3
<1> QED
  BY <1>5, <1>6, <1>7, <1>8, <1>9, <1>10, <1>11, <1>12, <1>13 DEF Next, Step

\* A delta that is left had no base, and as nothing is resolved there is still none.
LEMMA NextStuck ==
    ASSUME ResolveInv, [Next]_vars
    PROVE  Stuck'
<1>0. /\ Types /\ DeltasOnly /\ pack \in Packs /\ Stuck
      /\ Sound' = Sound /\ Entries' = Entries
  BY SamePack, SameSets DEF ResolveInv, ServedInv
<1>1. Elements(<<>>) = {}
  BY DEF Elements
<1>2. CASE pc' # "resolve" \/ stillPending' = <<>>
  BY <1>1, <1>2 DEF Stuck
<1>3. CASE ReadObject \/ ReadTrailer
  <2>1. pc = "read" /\ (pc' = "resolve" => stillPending' = <<>>)
    BY <1>3 DEF ReadObject, ReadTrailer, EndReading, Return
  <2> QED
    BY <1>2, <2>1
<1>4. CASE ResolveDelta
  <2> DEFINE d == remaining[cursor + 1]
             o == Resolved(d)
  <2>1. pc = "resolve" /\ pc' = pc /\ cursor < Len(remaining)
    BY <1>4 DEF ResolveDelta
  <2>2. d \in Entries /\ d \in Elements(remaining) /\ stillPending \in Seq(Entries)
    BY <1>0, <2>1 DEF Types, Resolving, Elements
  <2>3. \/ resolvedCount' = resolvedCount + 1
        \/ /\ resolvedCount' = resolvedCount /\ objects' = objects
           /\ stillPending' = Append(stillPending, d)
           /\ ~(Found(d.base) /\ Applies(d.base.data, ParseDelta(d.payload)))
    BY <1>4 DEF ResolveDelta
  <2> HIDE DEF d, o
  <2>4. Elements(Append(stillPending, d)) = Elements(stillPending) \cup {d}
    BY <2>2, Appended
  <2>5. CASE resolvedCount' = resolvedCount + 1
    <3>1. resolvedCount' # 0
      BY <1>0, <2>5 DEF Types, Resolving
    <3> QED
      BY <3>1 DEF Stuck
  <2>6. CASE /\ resolvedCount' = resolvedCount /\ objects' = objects
             /\ stillPending' = Append(stillPending, d)
             /\ ~(Found(d.base) /\ Applies(d.base.data, ParseDelta(d.payload)))
    <3> SUFFICES ASSUME resolvedCount = 0, Sound
                 PROVE  \A e \in Elements(stillPending') : e.base \notin objects'
      BY <1>0, <2>6 DEF Stuck
    <3>1. IsDelta(d) /\ AsItShouldBe(d)
      BY <1>0, <2>2 DEF DeltasOnly, AreDeltas, Sound
    <3>2. Applies(d.base.data, ParseDelta(d.payload))
      BY <1>0, <2>2, <3>1, DeltasAreRight DEF Entries
    <3>3. d.base \notin objects
      BY <2>6, <3>2 DEF Found
    <3>4. \A e \in Elements(stillPending) : e.base \notin objects
      BY <1>0, <2>1 DEF Stuck
    <3> QED
      BY <2>4, <2>6, <3>3, <3>4
  <2> QED
    BY <2>3, <2>5, <2>6
<1>5. CASE EndIteration
  <2>1. stillPending' = <<>>
    BY <1>5 DEF EndIteration
  <2> QED
    BY <1>2, <2>1
<1>6. CASE CheckCache \/ SkipCache \/ SendFetchRequest \/ ReadFails
  <2>1. pc' # "resolve"
    BY <1>6 DEF CheckCache, SkipCache, SendFetchRequest, ReadFails, Return
  <2> QED
    BY <1>2, <2>1
<1>7. CASE \/ \E k \in 1 .. 2 * Len(pack) : Packet(k)
           \/ \E how \in {"cut", "fatal", "invalid", "tooLarge"} : PacketsEnd(how)
           \/ Foreign \/ UNCHANGED vars
  <2>1. UNCHANGED <<pc, resolvedCount, stillPending, objects>>
    BY <1>7 DEF Packet, PacketsEnd, Foreign, vars, resolving
  <2>2. Elements(stillPending)' = Elements(stillPending)
    BY <2>1 DEF Elements
  <2> QED
    BY <1>0, <2>1, <2>2 DEF Stuck
<1> QED
  BY <1>3, <1>4, <1>5, <1>6, <1>7 DEF Next, Step

\* Where a round resolves nothing, the results hold all that can be made, and a base is not among it.
LEMMA NextGivesUp ==
    ASSUME ResolveInv, [Next]_vars
    PROVE  GivesUpRightly'
<1>0. /\ Types /\ ResolvedSoFar /\ DeltasOnly /\ pack \in Packs /\ Stuck /\ GivesUpRightly
      /\ Sound' = Sound /\ Bases' = Bases /\ Reachable' = Reachable
  BY SamePack, SameSets DEF ResolveInv, ServedInv
<1>1. CASE result' # "missing" \/ result' = result
  BY <1>0, <1>1 DEF GivesUpRightly
<1>2. CASE EndIteration /\ GivesUp /\ Sound
  <2>1. pc = "resolve" /\ cursor = Len(remaining) /\ resolvedCount = 0 /\ stillPending # <<>>
    BY <1>2 DEF EndIteration, GivesUp
  <2>2. \A e \in Elements(stillPending) : e.base \notin objects
    BY <1>0, <1>2, <2>1 DEF Stuck
  <2>3. ToCome = {}
    <3>1. cursor + 1 .. Len(remaining) = {}
      BY <1>0, <2>1 DEF Types, Resolving
    <3> QED
      BY <3>1 DEF ToCome
  <2>4. \A e \in Entries : Held(e) /\ (IsDelta(e) => Resolved(e) \in objects \/ e \in Elements(stillPending))
    BY <1>0, <2>1, <2>3 DEF ResolvedSoFar
  <2>5. PICK d \in Elements(stillPending) : d \in Entries
    <3>1. stillPending \in Seq(Entries) /\ stillPending # <<>>
      BY <1>0, <2>1 DEF Types, Resolving
    <3>2. 1 \in DOMAIN stillPending /\ stillPending[1] \in Entries
      BY <3>1
    <3> QED
      BY <3>2 DEF Elements
  <2>6. d.base \in Bases /\ d.base \notin objects
    BY <2>2, <2>5 DEF Bases, Entries
  <2> DEFINE S == objects \cap (Bases \cup AllMeant)
  <2>7. ASSUME NEW e \in Elements(pack), e.kind = "plain" \/ e.base \in S
        PROVE  Meant(e) \in S
    <3>1. e \in Entries /\ Meant(e) \in AllMeant /\ AsItShouldBe(e)
      BY <1>2 DEF Entries, AllMeant, Sound
    <3>2. CASE IsDelta(e)
      <4>1. e.base \in objects
        BY <2>7, <3>2 DEF IsDelta
      <4>2. Resolved(e) \in objects
        BY <2>2, <2>4, <3>1, <3>2, <4>1
      <4>3. Resolved(e) = Meant(e)
        BY <1>0, <3>1, <3>2, DeltasAreRight
      <4> QED
        BY <3>1, <4>2, <4>3
    <3>3. CASE ~IsDelta(e)
      <4>1. e.kind = "plain" /\ Meant(e) = e.base
        BY <3>1, <3>3 DEF AsItShouldBe, Meant
      <4> QED
        BY <2>4, <3>1, <4>1 DEF Held
    <3> QED
      BY <3>2, <3>3
  <2>8. S \in SUBSET (Bases \cup AllMeant)
    OBVIOUS
  <2> HIDE DEF S
  <2>9. Reachable \subseteq S
    BY <2>7, <2>8 DEF Reachable
  <2>10. d.base \notin S
    BY <2>6 DEF S
  <2> QED
    BY <1>0, <2>6, <2>9, <2>10 DEF GivesUpRightly
<1>3. CASE ~Sound
  BY <1>0, <1>3 DEF GivesUpRightly
<1>4. CASE EndIteration /\ ~GivesUp
  <2>1. result' \in {result, "ok", "iterations"}
    BY <1>4 DEF EndIteration, Return
  <2> QED
    BY <1>1, <2>1
<1>5. CASE CheckCache \/ SkipCache \/ SendFetchRequest \/ ReadObject \/ ReadTrailer \/ ReadFails \/ ResolveDelta
  <2>1. result' \in {result, "ok", "error"}
    BY <1>5 DEF CheckCache, SkipCache, SendFetchRequest, ReadObject, ReadTrailer, ReadFails, ResolveDelta,
           EndReading, Return
  <2> QED
    BY <1>1, <2>1
<1>6. CASE \/ \E k \in 1 .. 2 * Len(pack) : Packet(k)
           \/ \E how \in {"cut", "fatal", "invalid", "tooLarge"} : PacketsEnd(how)
           \/ Foreign \/ UNCHANGED vars
  <2>1. result' = result
    BY <1>6 DEF Packet, PacketsEnd, Foreign, vars
  <2> QED
    BY <1>1, <2>1
<1> QED
  BY <1>2, <1>3, <1>4, <1>5, <1>6 DEF Next, Step

LEMMA NextResolve == ResolveInv /\ [Next]_vars => ResolveInv'
<1> SUFFICES ASSUME ResolveInv, [Next]_vars PROVE ResolveInv'
  OBVIOUS
<1>1. ServedInv' /\ (pack \in Packs)'
  BY NextServed, SamePack DEF ResolveInv
<1>2. (result # "none" => pc = "done")'
  BY NextEnds DEF ResolveInv
<1>3. DeltasOnly'
  BY NextDeltasOnly DEF ResolveInv, ServedInv
<1>4. NoneElse' /\ Complete' /\ Stuck' /\ GivesUpRightly'
  BY NextNoneElse, NextComplete, NextStuck, NextGivesUp
<1> QED
  BY <1>1, <1>2, <1>3, <1>4 DEF ResolveInv

\* A pack that is as it should be gives the objects it holds and no others, each with the data its
\* delta was made from; and a call gives up only where the pack has a delta whose base
\* nothing in it makes, whatever the order of deltas and bases and the length of the chains.
THEOREM PacksAreResolved == Spec => []PackResolved
<1>1. ResolveInv /\ IterationsSuffice => PackResolved
  <2> SUFFICES ASSUME ResolveInv, IterationsSuffice, \A e \in Elements(pack) : AsItShouldBe(e)
               PROVE  /\ (result = "ok" /\ ~stopped /\ count = Len(pack)) =>
                             AllMeant \subseteq objects /\ objects \subseteq AllMeant \cup Elements(want)
                      /\ result \in {"missing", "iterations"} => ~(Bases \subseteq Reachable)
    BY DEF PackResolved
  <2>1. Sound /\ NoneElse /\ Complete /\ GivesUpRightly /\ pack \in Packs
    BY DEF Sound, Entries, ResolveInv
  <2>2. ASSUME result = "ok", ~stopped, count = Len(pack), NEW e \in Elements(pack)
        PROVE  Meant(e) \in objects
    <3>1. Held(e) /\ (IsDelta(e) => Resolved(e) \in objects)
      BY <2>1, <2>2 DEF Complete, Entries
    <3>2. IsDelta(e) => Resolved(e) = Meant(e)
      BY <2>1, DeltasAreRight DEF Sound, Entries
    <3>3. ~IsDelta(e) => e.kind = "plain" /\ Meant(e) = e.base
      BY <2>1 DEF Sound, Entries, AsItShouldBe, Meant
    <3> QED
      BY <3>1, <3>2, <3>3 DEF Held
  <2>3. (result = "ok" /\ ~stopped /\ count = Len(pack)) => AllMeant \subseteq objects
    BY <2>2 DEF AllMeant
  <2>4. objects \subseteq AllMeant \cup Elements(want)
    BY <2>1 DEF NoneElse
  <2>5. result \in {"missing", "iterations"} => ~(Bases \subseteq Reachable)
    BY <2>1 DEF GivesUpRightly, IterationsSuffice
  <2> QED
    BY <2>3, <2>4, <2>5
<1> QED
  BY <1>1, InitResolve, NextResolve, IterationsEnough, PTL DEF Spec
=============================================================================
