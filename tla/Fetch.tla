---------------------------------- MODULE Fetch ----------------------------------
(***************************************************************************)
(* One call of Fetch (protocol/client/fetch.go): the cache, the request,   *)
(* the pack that arrives through the multiplexed reader (model.go) and the *)
(* packfile reader (packfile.go), the early stop, and the resolution of    *)
(* deltas (fetch.go, delta.go), with a storage that others use as well.    *)
(*                                                                         *)
(* Data abstraction.  An object is its type and its data, and is its own   *)
(* hash.  A pack is a sequence of entries of two cells each, what tells    *)
(* the reader its type and size, and the rest; a packet of channel 1       *)
(* carries any number of cells.  Compression is left out: data that does   *)
(* not inflate to its size is an entry that cannot be read.                *)
(***************************************************************************)
EXTENDS Deltas, FiniteSets

CONSTANTS
    Packs,        \* the packs a server may send: sequences of entries
    Wants,        \* sequences of hashes that callers ask for
    Cached,       \* the sets of objects that may be in the storage
    Others,       \* objects that other operations store
    Faults,       \* "http": the request fails; "refused": the answer is an error
                  \* "cut": the response breaks off, before its pack or in it
                  \* "fatal", "invalid", "tooLarge": how else the pack may end
    MaxForeign    \* bound: changes of the storage by others

VARIABLES
    pc,
    want, noCache, noExtraObjects, withStorage,   \* the call
    storage, foreign,
    asked,           \* how many of the wants checkCacheForObjects has looked up
    pending,         \* those that are not in the cache
    objects,         \* what Fetch returns, so far
    \* the response
    pack, avail, ended,
    \* processPackfileResponse
    count, pendingWanted, deltas,
    stopped,         \* history: has it stopped early?
    \* resolveDeltas
    iteration, remaining, cursor, stillPending, resolvedCount,
    result

call     == <<want, noCache, noExtraObjects, withStorage>>
response == <<pack, avail, ended>>
reading  == <<count, pendingWanted, deltas, stopped>>
resolving == <<iteration, remaining, cursor, stillPending, resolvedCount>>
vars == <<pc, call, storage, foreign, asked, pending, objects, response, reading, resolving,
          result>>

ASSUME BoundAssumption == MaxForeign \in Nat

\* The elements of a list.
Elements(s) == {s[i] : i \in DOMAIN s}
ASSUME ListsAssumption ==
    (\A p \in Packs : p \in Seq(Elements(p))) /\ (\A w \in Wants : w \in Seq(Elements(w)))

-----------------------------------------------------------------------------
\* An entry of a pack: an object, a delta for the object base, or one that
\* cannot be read ("unsupported" or too large by its first cell, "garbled" after).
IsDelta(e) == e.kind = "delta"
Cells(e)   == IF e.kind = "unsupported" THEN 1 ELSE 2
Readable(e) ==
    \/ e.kind = "plain"
    \/ e.kind = "delta" /\ ~ParseDelta(e.payload).err
ASSUME PayloadsAssumption ==
    \A p \in Packs : \A e \in Elements(p) :
        IsDelta(e) => e.base.data \in Seq(Elements(e.base.data)) /\ IsPayload(e.payload)

\* What a delta makes of its base.
Resolved(e) ==
    [type |-> e.base.type, data |-> ApplyDelta(e.base.data, ParseDelta(e.payload))]

Init ==
    /\ pc = "cache"
    /\ want \in Wants /\ noCache \in BOOLEAN /\ noExtraObjects \in BOOLEAN
    /\ withStorage \in BOOLEAN /\ storage \in Cached /\ (~withStorage => storage = {})
    /\ pack \in Packs /\ avail = 0 /\ ended = "more"
    /\ foreign = 0 /\ asked = 0 /\ pending = <<>> /\ objects = {}
    /\ count = 0 /\ pendingWanted = {} /\ deltas = <<>> /\ stopped = FALSE
    /\ iteration = 0 /\ remaining = <<>> /\ cursor = 0 /\ stillPending = <<>>
    /\ resolvedCount = 0
    /\ result = "none"

Return(r) == pc' = "done" /\ result' = r

\* checkCacheForObjects, one want after the other.
CheckCache ==
    /\ pc = "cache" /\ withStorage /\ ~noCache
    /\ IF asked < Len(want)
       THEN LET w == want[asked + 1]
            IN  /\ IF w \in storage
                   THEN objects' = objects \cup {w} /\ UNCHANGED pending
                   ELSE pending' = Append(pending, w) /\ UNCHANGED objects
                /\ asked' = asked + 1
                /\ UNCHANGED <<pc, result>>
       ELSE /\ IF Cardinality(objects) = Len(want) THEN Return("ok") ELSE pc' = "send" /\ UNCHANGED result
            /\ UNCHANGED <<asked, pending, objects>>
    /\ UNCHANGED <<call, storage, foreign, response, reading, resolving>>

SkipCache ==
    /\ pc = "cache" /\ (~withStorage \/ noCache)
    /\ pending' = want /\ pc' = "send"
    /\ UNCHANGED <<call, storage, foreign, asked, objects, response, reading, resolving, result>>

\* The wanted hashes to look out for: none unless the caller wants nothing else.
Tracking == noExtraObjects /\ pending # <<>>

\* sendFetchRequest and ParseFetchResponse: a request that fails, or an answer that is
\* an error, or that ends in the header of the pack; one without the section "packfile",
\* because the server sent none or because the response broke off before it, which the
\* code does not tell apart: there is no PackfileReader, and nothing to read is the end;
\* and one with a pack and its header.
SendFetchRequest ==
    /\ pc = "send"
    /\ \/ /\ Faults \cap {"http", "refused", "cut"} # {}
          /\ Return("error") /\ UNCHANGED <<pendingWanted, ended>>
       \/ pack = <<>> /\ Return("ok") /\ UNCHANGED <<pendingWanted, ended>>
       \/ "cut" \in Faults /\ ended' = "early" /\ Return("ok") /\ UNCHANGED pendingWanted
       \/ /\ pc' = "read"
          /\ pendingWanted' = IF Tracking THEN Elements(pending) ELSE {}
          /\ UNCHANGED <<result, ended>>
    /\ UNCHANGED <<call, storage, foreign, asked, pending, objects, pack, avail, count,
                   deltas, stopped, resolving>>

-----------------------------------------------------------------------------
(* MultiplexedReader.Read: the packets of the pack, which the packfile     *)
(* reader asks for when its buffer does not hold what it needs.            *)
Sent   == 2 * Len(pack)
Used   == 2 * count
NextEntry == pack[count + 1]
Hungry == pc = "read" /\ count < Len(pack) /\ avail < Used + Cells(NextEntry) /\ ended = "more"

\* A packet of channel 1.  Packets of channel 2 and empty ones change nothing.
Packet(k) ==
    /\ Hungry /\ avail + k <= Sent
    /\ avail' = avail + k
    /\ UNCHANGED <<pc, call, storage, foreign, asked, pending, objects, pack, ended, reading,
                   resolving, result>>

\* The stream ends early, channel 3, a channel there is not, the limit.  The reader keeps
\* the error for every later Read.
PacketsEnd(how) ==
    /\ Hungry /\ how \in Faults
    /\ ended' = how
    /\ UNCHANGED <<pc, call, storage, foreign, asked, pending, objects, pack, avail, reading,
                   resolving, result>>

-----------------------------------------------------------------------------
(* processPackfileResponse: ReadObject and what becomes of the object.     *)
EndReading(ds) ==
    /\ IF ds = <<>>
       THEN Return("ok") /\ UNCHANGED resolving
       ELSE /\ pc' = "resolve"
            /\ iteration' = 1 /\ remaining' = ds /\ cursor' = 0
            /\ stillPending' = <<>> /\ resolvedCount' = 0
            /\ UNCHANGED result

\* shouldTerminateEarly.  (Mutant: the first wanted object is enough.)
StopsAtFirst(o) == Tracking /\ o \in pendingWanted
ShouldTerminateEarly(o) == Tracking /\ pendingWanted = {o}

ReadObject ==
    LET e == NextEntry
        o == e.base
    IN  /\ pc = "read" /\ count < Len(pack) /\ avail >= Used + Cells(e)
        /\ IF ~Readable(e)
           THEN /\ Return("error")
                /\ UNCHANGED <<storage, objects, reading, resolving>>
           ELSE /\ count' = count + 1
                /\ IF IsDelta(e)
                   THEN /\ deltas' = Append(deltas, e)
                        /\ UNCHANGED <<pc, storage, objects, pendingWanted, stopped, resolving, result>>
                   ELSE /\ storage' = IF withStorage THEN storage \cup {o} ELSE storage
                        /\ objects' = objects \cup {o}
                        /\ pendingWanted' = pendingWanted \ {o}
                        /\ IF ShouldTerminateEarly(o)
                           THEN /\ stopped' = TRUE
                                /\ deltas' = <<>>
                                /\ EndReading(<<>>)
                           ELSE UNCHANGED <<pc, deltas, stopped, resolving, result>>
        /\ UNCHANGED <<call, foreign, asked, pending, response>>

\* The trailer, which comes after as many entries as the header names.
ReadTrailer ==
    /\ pc = "read" /\ count = Len(pack)
    /\ EndReading(deltas)
    /\ UNCHANGED <<call, storage, foreign, asked, pending, objects, response, reading>>

\* classifyReadObjectErr: a response that is too large is forgiven once everything that
\* was wanted has been read.
ReadFails ==
    /\ pc = "read" /\ count < Len(pack)
    /\ ended # "more" /\ avail < Used + Cells(NextEntry)
    /\ IF ended = "tooLarge" /\ Tracking /\ pendingWanted = {}
       THEN Return("ok") ELSE Return("error")
    /\ UNCHANGED <<call, storage, foreign, asked, pending, objects, response, reading, resolving>>

-----------------------------------------------------------------------------
(* resolveDeltas.                                                          *)
\* (Mutant: one less than there are deltas.)
MaxIterationsShort == Len(deltas) - 1
MaxIterations == Len(deltas) + 1

\* findBaseObject
Found(h) == h \in objects \/ (withStorage /\ h \in storage)

\* One delta of resolveDeltaIteration.
ResolveDelta ==
    LET d == remaining[cursor + 1]
        o == Resolved(d)
    IN  /\ pc = "resolve" /\ cursor < Len(remaining)
        /\ cursor' = cursor + 1
        /\ IF Found(d.base) /\ Applies(d.base.data, ParseDelta(d.payload))
           THEN /\ objects' = objects \cup {o}
                /\ storage' = IF withStorage THEN storage \cup {o} ELSE storage
                /\ resolvedCount' = resolvedCount + 1
                /\ UNCHANGED stillPending
           ELSE /\ stillPending' = Append(stillPending, d)
                /\ UNCHANGED <<objects, storage, resolvedCount>>
        /\ UNCHANGED <<pc, call, foreign, asked, pending, response, reading, iteration,
                       remaining, result>>

\* The end of an iteration.  (Mutant: one iteration has to be enough.)
GivesUpAfterOne == stillPending # <<>>
GivesUp == resolvedCount = 0 /\ stillPending # <<>>
EndIteration ==
    /\ pc = "resolve" /\ cursor = Len(remaining)
    /\ IF GivesUp THEN Return("missing")
       ELSE IF stillPending = <<>> THEN Return("ok")
       ELSE IF iteration = MaxIterations THEN Return("iterations")
       ELSE UNCHANGED <<pc, result>>
    /\ remaining' = stillPending /\ stillPending' = <<>>
    /\ cursor' = 0 /\ resolvedCount' = 0 /\ iteration' = iteration + 1
    /\ UNCHANGED <<call, storage, foreign, asked, pending, objects, response, reading>>

-----------------------------------------------------------------------------
\* Another operation stores an object, or the storage evicts one.
Foreign ==
    /\ pc # "done" /\ withStorage /\ foreign < MaxForeign
    /\ foreign' = foreign + 1
    /\ \/ \E o \in Others : storage' = storage \cup {o}
       \/ \E o \in storage : storage' = storage \ {o}
    /\ UNCHANGED <<pc, call, asked, pending, objects, response, reading, resolving, result>>

Step ==
    \/ CheckCache \/ SkipCache \/ SendFetchRequest
    \/ \E k \in 1 .. 2 * Len(pack) : Packet(k)
    \/ \E how \in {"cut", "fatal", "invalid", "tooLarge"} : PacketsEnd(how)
    \/ ReadObject \/ ReadTrailer \/ ReadFails
    \/ ResolveDelta \/ EndIteration
Next == Step \/ Foreign
Spec == Init /\ [][Next]_vars

-----------------------------------------------------------------------------
(* Properties.                                                             *)
TypeOK ==
    /\ pc \in {"cache", "send", "read", "resolve", "done"}
    /\ want \in Wants /\ {noCache, noExtraObjects, withStorage, stopped} \subseteq BOOLEAN
    /\ pack \in Packs /\ count \in 0 .. Len(pack) /\ avail \in 0 .. Sent
    /\ ended \in {"more", "early", "cut", "fatal", "invalid", "tooLarge"}
    /\ pendingWanted \subseteq Elements(pending)
    /\ cursor \in 0 .. Len(remaining)
    /\ {asked, foreign, iteration, resolvedCount} \subseteq Nat
    /\ result \in {"none", "ok", "error", "missing", "iterations"}

\* The object that the sender meant an entry to be.
Meant(e) ==
    IF IsDelta(e) THEN [type |-> e.base.type, data |-> Made(e.base.data, e.payload)]
    ELSE e.base
AsItShouldBe(e) == e.kind = "plain" \/ (IsDelta(e) /\ WellFormed(e.base.data, e.payload))

\* Every wanted object that the server sends, or that is in the cache, is among the results
\* of a call that succeeds: also if it comes as a delta, twice, or after others, where the
\* call stops before the end of the pack (shouldTerminateEarly), and where the pack is cut.
\* The exception is a response that broke off before its pack: it passes for one without,
\* and what was sent in vain is missing from the results of a call that succeeds.
WantedServed ==
    /\ result = "ok" /\ ended # "early"
    /\ \A w \in Elements(pending) : \E e \in Elements(pack) : AsItShouldBe(e) /\ Meant(e) = w
    => Elements(want) \subseteq objects

\* Once nothing else is wanted, the call stops only when it has all it was asked for.
StopsComplete == stopped => Elements(want) \subseteq objects

\* The objects that the pack makes from those it holds: they are in every set that has
\* these and what the deltas make of its own objects.
Bases == {e.base : e \in Elements(pack)}
AllMeant == {Meant(e) : e \in Elements(pack)}
Reachable ==
    {o \in Bases \cup AllMeant :
        \A S \in SUBSET (Bases \cup AllMeant) :
            (\A e \in Elements(pack) : (e.kind = "plain" \/ e.base \in S) => Meant(e) \in S) => o \in S}

\* A pack that is as it should be gives the objects it holds, no more and no fewer, each
\* with the data its delta was made from; and if it holds the bases of its deltas they
\* are all found, in whatever order deltas and bases come and however long the chains are
\* (resolveDeltas, parseDelta, ApplyDelta).
PackResolved ==
    (\A e \in Elements(pack) : AsItShouldBe(e)) =>
        /\ (result = "ok" /\ ~stopped /\ count = Len(pack)) =>
               AllMeant \subseteq objects /\ objects \subseteq AllMeant \cup Elements(want)
        /\ result \in {"missing", "iterations"} => ~(Bases \subseteq Reachable)

\* The bound on the iterations of resolveDeltas is never what ends them.
IterationsSuffice == result # "iterations"
=============================================================================
