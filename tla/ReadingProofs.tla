----------------------------- MODULE ReadingProofs -----------------------------
(***************************************************************************)
(* What TLAPS proves of CommitHistory, whose operators have the prefix H   *)
(* here, for all repositories, calls, sizes of pages and faults; and in    *)
(* the second half of TreeCollection, for all repositories, batch sizes,   *)
(* limits and faults.                                                      *)
(***************************************************************************)
EXTENDS TreeCollection, History, SequenceTheorems, FiniteSetTheorems, WellFoundedInduction, TLAPS

\* What CommitHistory has that TreeCollection and History have not.
CONSTANTS Reads, DefaultPerPage, MaxPerPage, ReadFaults
VARIABLES storage, page, queue, visited, current, commitObjs, objects, at, rest, goroutine, channel

H == INSTANCE CommitHistory WITH Calls <- Reads, Faults <- ReadFaults


\* A set of numbers that is not empty has a least element.
LEMMA LeastNat ==
    ASSUME NEW T, T \subseteq Nat, T # {}
    PROVE  \E x \in T : \A y \in T : ~ (y < x)
<1>1. PICK x \in T : \A y \in T : ~ (<<y, x>> \in OpToRel(<, Nat))
  BY WFMin, NatLessThanWellFounded
<1>2. \A y \in T : <<y, x>> \in Nat \X Nat
  OBVIOUS
<1>3. ASSUME NEW y \in T, y < x PROVE FALSE
  <2>1. <<y, x>> \in OpToRel(<, Nat)
    BY <1>2, <1>3 DEF OpToRel
  <2> QED
    BY <1>1, <2>1
<1> QED
  BY <1>3

\* The values of a function on a finite set are finitely many.
LEMMA Images ==
    ASSUME NEW S, IsFiniteSet(S), NEW f
    PROVE  IsFiniteSet({f[x] : x \in S})
<1> DEFINE g == [x \in S |-> f[x]]
<1>1. g \in Surjection(S, {f[x] : x \in S})
  BY DEF Surjection
<1> QED
  BY <1>1, FS_Surjection

-----------------------------------------------------------------------------
(***************************************************************************)
(* Sorting.                                                                *)
(***************************************************************************)
Placed(S) == \A c \in S : c.path \in ToSet(PathOrder)
Distinct(S) == \A c, d \in S : c.path = d.path => c = d

LEMMA Ranks ==
    ASSUME NEW p \in ToSet(PathOrder)
    PROVE  Rank(p) \in 1 .. Len(PathOrder) /\ Rank(p) \in Nat /\ PathOrder[Rank(p)] = p
<1>1. PathOrder \in Seq(Seq(STRING))
  BY OrderAssumption DEF OrderAssumption
<1>2. \E i \in DOMAIN PathOrder : PathOrder[i] = p
  BY DEF ToSet
<1>3. Rank(p) \in DOMAIN PathOrder /\ PathOrder[Rank(p)] = p
  BY <1>2 DEF Rank
<1> QED
  BY <1>1, <1>3

\* The foremost change is one of them, and no other has a path before its.
LEMMA ForemostIs ==
    ASSUME NEW S, S # {}, Placed(S)
    PROVE  Foremost(S) \in S /\ \A d \in S : Rank(Foremost(S).path) <= Rank(d.path)
<1> DEFINE T == {Rank(c.path) : c \in S}
<1>1. \A c \in S : Rank(c.path) \in Nat
  BY Ranks DEF Placed
<1>2. T \subseteq Nat
  BY <1>1
<1>3. T # {}
  OBVIOUS
<1>4. \E x \in T : \A y \in T : ~ (y < x)
  <2> HIDE DEF T
  <2> QED
    BY <1>2, <1>3, LeastNat
<1>5. PICK c \in S : \A d \in S : ~ (Rank(d.path) < Rank(c.path))
  BY <1>4
<1>6. \A d \in S : Rank(c.path) <= Rank(d.path)
  BY <1>1, <1>5
<1> QED
  BY <1>6 DEF Foremost

\* What the recursion of Sorted asks of a function, on the sets of fewer than n changes.
Smaller(T, n) == {S \in SUBSET T : Cardinality(S) < n}
SortOf(f, S) == IF S = {} THEN <<>> ELSE <<Foremost(S)>> \o f[S \ {Foremost(S)}]
Sorts(T, n, f) == f = [S \in Smaller(T, n) |-> SortOf(f, S)]

LEMMA SortOneMore ==
    ASSUME NEW T, IsFiniteSet(T), Placed(T), NEW n \in Nat, NEW f, Sorts(T, n, f)
    PROVE  Sorts(T, n + 1, [S \in Smaller(T, n + 1) |-> SortOf(f, S)])
<1> DEFINE g == [S \in Smaller(T, n + 1) |-> SortOf(f, S)]
<1>1. ASSUME NEW S \in Smaller(T, n + 1), S # {}
      PROVE  S \ {Foremost(S)} \in Smaller(T, n) /\ S \ {Foremost(S)} \in Smaller(T, n + 1)
  <2>1. S \subseteq T /\ IsFiniteSet(S)
    BY FS_Subset DEF Smaller
  <2>2. Placed(S)
    BY <2>1 DEF Placed
  <2>3. Foremost(S) \in S
    BY <1>1, <2>2, ForemostIs
  <2>4. Cardinality(S \ {Foremost(S)}) = Cardinality(S) - 1 /\ Cardinality(S) \in Nat
    BY <2>1, <2>3, FS_RemoveElement, FS_CardinalityType
  <2> QED
    BY <2>1, <2>4 DEF Smaller
<1>2. \A S \in Smaller(T, n) : f[S] = SortOf(f, S)
  BY DEF Sorts
<1>3. \A S \in Smaller(T, n) : S \in Smaller(T, n + 1)
  <2>1. \A S \in SUBSET T : Cardinality(S) \in Nat
    BY FS_Subset, FS_CardinalityType
  <2> QED
    BY <2>1 DEF Smaller
<1>4. \A S \in Smaller(T, n) : g[S] = f[S]
  BY <1>2, <1>3
<1>5. ASSUME NEW S \in Smaller(T, n + 1) PROVE SortOf(g, S) = SortOf(f, S)
  <2>1. S # {} => g[S \ {Foremost(S)}] = f[S \ {Foremost(S)}]
    BY <1>1, <1>4
  <2> HIDE DEF g
  <2> QED
    BY <2>1 DEF SortOf
<1>6. g = [S \in Smaller(T, n + 1) |-> SortOf(g, S)]
  BY <1>5
<1> QED
  BY <1>6 DEF Sorts

LEMMA SortsExist ==
    ASSUME NEW T, IsFiniteSet(T), Placed(T), NEW n \in Nat
    PROVE  \E f : Sorts(T, n, f)
<1> DEFINE B == {k \in Nat : ~ \E f : Sorts(T, k, f)}
<1>1. B \subseteq Nat
  OBVIOUS
<1>2. ASSUME B # {} PROVE FALSE
  <2> HIDE DEF B
  <2>1. PICK k \in B : \A m \in B : ~ (m < k)
    BY <1>1, <1>2, LeastNat
  <2>2. k \in Nat /\ ~ \E f : Sorts(T, k, f)
    BY <2>1 DEF B
  <2>3. k # 0
    <3>1. ASSUME NEW S \in SUBSET T PROVE ~ (Cardinality(S) < 0)
      BY FS_Subset, FS_CardinalityType
    <3>2. Smaller(T, 0) = {}
      BY <3>1 DEF Smaller
    <3>3. Sorts(T, 0, [S \in {} |-> <<>>])
      BY <3>2 DEF Sorts
    <3> QED
      BY <2>2, <3>3
  <2>4. k - 1 \in Nat /\ k - 1 < k /\ k - 1 + 1 = k
    BY <2>2, <2>3
  <2>5. PICK f : Sorts(T, k - 1, f)
    BY <2>1, <2>4 DEF B
  <2>6. Sorts(T, k - 1 + 1, [S \in Smaller(T, k - 1 + 1) |-> SortOf(f, S)])
    BY <2>4, <2>5, SortOneMore
  <2> QED
    BY <2>2, <2>4, <2>6
<1> QED
  BY <1>2

\* The changes, each once, by path.
SortedAs(S, s) ==
    /\ s \in Seq(S) /\ {s[i] : i \in DOMAIN s} = S
    /\ \A i, j \in DOMAIN s : i < j => Rank(s[i].path) < Rank(s[j].path)

\* One before the others.
LEMMA SortPrepend ==
    ASSUME NEW S, Placed(S), Distinct(S), NEW c \in S,
           \A d \in S : Rank(c.path) <= Rank(d.path),
           NEW s, SortedAs(S \ {c}, s)
    PROVE  SortedAs(S, <<c>> \o s)
<1> DEFINE t == <<c>> \o s
<1>1. s \in Seq(S) /\ s \in Seq(S \ {c}) /\ <<c>> \in Seq(S)
  BY DEF SortedAs
<1>2. /\ t \in Seq(S) /\ Len(t) = Len(s) + 1 /\ t[1] = c /\ Len(s) \in Nat
      /\ \A i \in 1 .. Len(t) : i # 1 => i - 1 \in 1 .. Len(s) /\ t[i] = s[i - 1]
  BY <1>1
<1>3. \A i \in 1 .. Len(s) : i + 1 \in 1 .. Len(t) /\ t[i + 1] = s[i]
  BY <1>1, <1>2
<1> HIDE DEF t
<1>4. {t[i] : i \in DOMAIN t} = S
  <2>1. \A i \in DOMAIN t : t[i] \in S
    BY <1>2
  <2>2. ASSUME NEW d \in S PROVE \E i \in DOMAIN t : t[i] = d
    <3>1. CASE d = c
      BY <1>2, <3>1
    <3>2. CASE d # c
      <4>1. PICK i \in DOMAIN s : s[i] = d
        BY <3>2 DEF SortedAs
      <4>2. i \in 1 .. Len(s) /\ DOMAIN t = 1 .. Len(t)
        BY <1>1, <1>2
      <4> QED
        BY <1>3, <4>1, <4>2
    <3> QED
      BY <3>1, <3>2
  <2> QED
    BY <2>1, <2>2
<1>5. ASSUME NEW i \in DOMAIN t, NEW j \in DOMAIN t, i < j
      PROVE  Rank(t[i].path) < Rank(t[j].path)
  <2>1. i \in 1 .. Len(t) /\ j \in 1 .. Len(t) /\ j # 1 /\ j - 1 \in DOMAIN s /\ t[j] = s[j - 1]
    BY <1>1, <1>2, <1>5
  <2>2. CASE i = 1
    <3>1. t[j] \in S /\ t[j] # c
      BY <1>1, <2>1
    <3>2. t[j].path # c.path
      BY <3>1 DEF Distinct
    <3>3. Rank(t[j].path) # Rank(c.path) /\ Rank(t[j].path) \in Nat /\ Rank(c.path) \in Nat
      BY <3>1, <3>2, Ranks DEF Placed
    <3> QED
      BY <1>2, <2>2, <3>1, <3>3
  <2>3. CASE i # 1
    <3>1. i - 1 \in DOMAIN s /\ t[i] = s[i - 1] /\ i - 1 < j - 1
      BY <1>1, <1>2, <1>5, <2>1, <2>3
    <3> QED
      BY <2>1, <3>1 DEF SortedAs
  <2> QED
    BY <2>2, <2>3
<1>6. SortedAs(S, t)
  BY <1>2, <1>4, <1>5 DEF SortedAs
<1> QED
  BY <1>6 DEF t

LEMMA SortedIs ==
    ASSUME NEW T, IsFiniteSet(T), Placed(T), Distinct(T)
    PROVE  SortedAs(T, Sorted(T))
<1> DEFINE all == Cardinality(T) + 1
           sort == CHOOSE f : f = [S \in SUBSET T |-> SortOf(f, S)]
<1>1. Cardinality(T) \in Nat
  BY FS_CardinalityType
<1>2. Smaller(T, all) = SUBSET T
  <2>1. \A S \in SUBSET T : Cardinality(S) \in Nat /\ Cardinality(S) <= Cardinality(T)
    BY FS_Subset, FS_CardinalityType
  <2> QED
    BY <1>1, <2>1 DEF Smaller
<1>3. \E f : f = [S \in SUBSET T |-> SortOf(f, S)]
  <2>1. \E f : Sorts(T, all, f)
    BY <1>1, SortsExist
  <2> QED
    BY <1>2, <2>1 DEF Sorts
<1>4. sort = [S \in SUBSET T |-> SortOf(sort, S)]
  BY <1>3
<1>5. Sorted(T) = sort[T]
  BY DEF Sorted, SortOf
<1> HIDE DEF sort
<1>6. \A S \in SUBSET T : sort[S] = SortOf(sort, S)
  BY <1>4
<1> DEFINE Bad(S) == ~ SortedAs(S, sort[S])
           B == {Cardinality(S) : S \in {S \in SUBSET T : Bad(S)}}
<1>7. B \subseteq Nat
  BY FS_Subset, FS_CardinalityType
<1>8. ASSUME B # {} PROVE FALSE
  <2>1. \E n \in B : \A m \in B : ~ (m < n)
    <3> HIDE DEF B
    <3> QED
      BY <1>7, <1>8, LeastNat
  <2>2. PICK S \in SUBSET T : Bad(S) /\ \A R \in SUBSET T : Bad(R) => ~ (Cardinality(R) < Cardinality(S))
    BY <2>1
  <2>3. IsFiniteSet(S) /\ Placed(S) /\ Distinct(S) /\ Cardinality(S) \in Nat
    BY FS_Subset, FS_CardinalityType DEF Placed, Distinct
  <2>4. sort[S] = SortOf(sort, S)
    BY <1>6
  <2>5. CASE S = {}
    <3>1. sort[S] = <<>>
      BY <2>4, <2>5 DEF SortOf
    <3>2. SortedAs(S, <<>>)
      BY <2>5 DEF SortedAs
    <3> QED
      BY <2>2, <3>1, <3>2
  <2>6. CASE S # {}
    <3> DEFINE c == Foremost(S)
    <3>1. c \in S /\ \A d \in S : Rank(c.path) <= Rank(d.path)
      BY <2>3, <2>6, ForemostIs
    <3>2. sort[S] = <<c>> \o sort[S \ {c}]
      BY <2>4, <2>6 DEF SortOf
    <3> HIDE DEF c
    <3>3. Cardinality(S \ {c}) < Cardinality(S) /\ S \ {c} \in SUBSET T
      <4>1. Cardinality(S \ {c}) = Cardinality(S) - 1
        BY <2>3, <3>1, FS_RemoveElement
      <4> QED
        BY <2>3, <4>1
    <3>4. SortedAs(S \ {c}, sort[S \ {c}])
      BY <2>2, <3>3
    <3>5. SortedAs(S, <<c>> \o sort[S \ {c}])
      BY <2>3, <3>1, <3>4, SortPrepend
    <3> QED
      BY <2>2, <3>2, <3>5
  <2> QED
    BY <2>5, <2>6
<1>9. ~ Bad(T)
  BY <1>8
<1> QED
  BY <1>5, <1>9

-----------------------------------------------------------------------------
(***************************************************************************)
(* The comparison of two trees.                                            *)
(***************************************************************************)
\* Of a good tree, what the comparison needs; and of two, that a hash names a file or a
\* directory and not both.
Sound(tree) ==
    /\ IsFiniteSet(tree) /\ PathsOf(tree) \subseteq ToSet(PathOrder)
    /\ \A e, f \in Entries(tree) : e.path = f.path => e = f
Alike(base, head) ==
    \A e \in Entries(base), f \in Entries(head) : e.hash = f.hash => (e.type = "tree" <=> f.type = "tree")

LEMMA GoodIsSound == ASSUME NEW tree, GoodTree(tree) PROVE Sound(tree)
  BY DEF GoodTree, Sound, PathsOf, Entries

LEMMA EntryIs ==
    ASSUME NEW tree, Sound(tree)
    PROVE  /\ \A e \in Entries(tree) : EntryAt(tree, e.path) = e /\ e.path \in PathsOf(tree)
           /\ \A p \in PathsOf(tree) : \E e \in Entries(tree) : e.path = p
           /\ \A p \in PathsOf(tree) : p \in ToSet(PathOrder)
           /\ IsFiniteSet(Entries(tree))
<1>1. \A p \in PathsOf(tree) : \E e \in Entries(tree) : e.path = p
  BY DEF PathsOf
<1>2. \A e \in Entries(tree) : e.path \in PathsOf(tree)
  BY DEF PathsOf
<1>3. \A e \in Entries(tree) : EntryAt(tree, e.path) = e
  BY DEF EntryAt, Sound
<1>4. IsFiniteSet(Entries(tree))
  BY FS_Subset DEF Sound, Entries
<1> QED
  BY <1>1, <1>2, <1>3, <1>4 DEF Sound

\* The changes before renames are looked for.
Changes(base, head) == Added(base, head) \cup Modified(base, head) \cup Deleted(base, head)

\* What is said of each: a change is an entry of one of the trees, or of both.
LEMMA ChangeIs ==
    ASSUME NEW base, NEW head, Sound(base), Sound(head), NEW c \in Changes(base, head)
    PROVE  /\ c.status \in {"added", "modified", "deleted"}
           /\ c.status = "added" => c.path \notin PathsOf(base)
           /\ c.status \in {"added", "modified"} =>
                \E e \in Entries(head) :
                    e.path = c.path /\ e.hash = c.hash /\ e.mode = c.mode /\ e.type = c.type
           /\ c.status = "modified" =>
                /\ c.path \in PathsOf(base) /\ c.type # "tree"
                /\ EntryAt(base, c.path).hash # c.hash
           /\ c.status = "deleted" =>
                /\ c.path \notin PathsOf(head)
                /\ \E e \in Entries(base) : e.path = c.path /\ e.hash = c.hash /\ e.type = c.type
<1>1. CASE c \in Added(base, head)
  BY <1>1 DEF Added, CommitFile
<1>2. CASE c \in Modified(base, head)
  BY <1>2 DEF Modified, CommitFile
<1>3. CASE c \in Deleted(base, head)
  BY <1>3 DEF Deleted, CommitFile
<1> QED
  BY <1>1, <1>2, <1>3 DEF Changes

\* And every entry that has to be there is.
LEMMA ChangesCover ==
    ASSUME NEW base, NEW head, Sound(base), Sound(head)
    PROVE  /\ \A e \in Entries(head) : e.path \notin PathsOf(base) =>
                \E c \in Changes(base, head) :
                    /\ c.status = "added" /\ c.path = e.path
                    /\ c.hash = e.hash /\ c.mode = e.mode /\ c.type = e.type
           /\ \A e \in Entries(head) :
                e.path \in PathsOf(base) /\ EntryAt(base, e.path).hash # e.hash /\ e.type # "tree" =>
                \E c \in Changes(base, head) :
                    /\ c.status = "modified" /\ c.path = e.path
                    /\ c.hash = e.hash /\ c.mode = e.mode /\ c.type = e.type
           /\ \A e \in Entries(base) : e.path \notin PathsOf(head) =>
                \E c \in Changes(base, head) :
                    c.status = "deleted" /\ c.path = e.path /\ c.hash = e.hash /\ c.type = e.type
<1>1. ASSUME NEW e \in Entries(head), e.path \notin PathsOf(base)
      PROVE  \E c \in Changes(base, head) :
                /\ c.status = "added" /\ c.path = e.path
                /\ c.hash = e.hash /\ c.mode = e.mode /\ c.type = e.type
  <2> DEFINE c == CommitFile("added", e.path, e, "none", Nothing)
  <2>1. c \in Added(base, head)
    BY <1>1 DEF Added
  <2>2. /\ c.status = "added" /\ c.path = e.path
        /\ c.hash = e.hash /\ c.mode = e.mode /\ c.type = e.type
    BY DEF CommitFile
  <2> QED
    BY <2>1, <2>2 DEF Changes
<1>2. ASSUME NEW e \in Entries(head), e.path \in PathsOf(base),
             EntryAt(base, e.path).hash # e.hash, e.type # "tree"
      PROVE  \E c \in Changes(base, head) :
                /\ c.status = "modified" /\ c.path = e.path
                /\ c.hash = e.hash /\ c.mode = e.mode /\ c.type = e.type
  <2> DEFINE c == CommitFile("modified", e.path, e, "none", EntryAt(base, e.path))
  <2>1. c \in Modified(base, head)
    BY <1>2 DEF Modified
  <2>2. /\ c.status = "modified" /\ c.path = e.path
        /\ c.hash = e.hash /\ c.mode = e.mode /\ c.type = e.type
    BY DEF CommitFile
  <2> QED
    BY <2>1, <2>2 DEF Changes
<1>3. ASSUME NEW e \in Entries(base), e.path \notin PathsOf(head)
      PROVE  \E c \in Changes(base, head) :
                c.status = "deleted" /\ c.path = e.path /\ c.hash = e.hash /\ c.type = e.type
  <2> DEFINE c == CommitFile("deleted", e.path, e, "none",
                             [Nothing EXCEPT !.hash = e.hash, !.type = e.type])
  <2>1. c \in Deleted(base, head)
    BY <1>3 DEF Deleted
  <2>2. c.status = "deleted" /\ c.path = e.path /\ c.hash = e.hash /\ c.type = e.type
    BY DEF CommitFile
  <2> QED
    BY <2>1, <2>2 DEF Changes
<1> QED
  BY <1>1, <1>2, <1>3

\* They are finitely many, at places of the order, one for each path.
LEMMA ChangesSort ==
    ASSUME NEW base, NEW head, Sound(base), Sound(head)
    PROVE  LET changed == Changes(base, head)
           IN  IsFiniteSet(changed) /\ Placed(changed) /\ Distinct(changed)
<1> DEFINE changed == Changes(base, head)
<1>1. IsFiniteSet(changed)
  <2>1. IsFiniteSet(Entries(base)) /\ IsFiniteSet(Entries(head))
    BY EntryIs
  <2>2. IsFiniteSet({e \in Entries(head) : e.path \notin PathsOf(base)})
    BY <2>1, FS_Subset
  <2>3. IsFiniteSet({e \in Entries(head) : /\ e.path \in PathsOf(base)
                                          /\ EntryAt(base, e.path).hash # e.hash
                                          /\ e.type # "tree"})
    BY <2>1, FS_Subset
  <2>4. IsFiniteSet({e \in Entries(base) : e.path \notin PathsOf(head)})
    BY <2>1, FS_Subset
  <2>5. IsFiniteSet(Added(base, head))
    <3> DEFINE S == {e \in Entries(head) : e.path \notin PathsOf(base)}
               f == [e \in S |-> CommitFile("added", e.path, e, "none", Nothing)]
    <3>1. IsFiniteSet({f[e] : e \in S})
      BY <2>2, Images
    <3>2. Added(base, head) = {f[e] : e \in S}
      BY DEF Added
    <3> QED
      BY <3>1, <3>2
  <2>6. IsFiniteSet(Modified(base, head))
    <3> DEFINE S == {e \in Entries(head) : e.path \in PathsOf(base) /\ EntryAt(base, e.path).hash # e.hash /\ e.type # "tree"}
               f == [e \in S |-> CommitFile("modified", e.path, e, "none", EntryAt(base, e.path))]
    <3>1. IsFiniteSet({f[e] : e \in S})
      BY <2>3, Images
    <3>2. Modified(base, head) = {f[e] : e \in S}
      BY DEF Modified
    <3> QED
      BY <3>1, <3>2
  <2>7. IsFiniteSet(Deleted(base, head))
    <3> DEFINE S == {e \in Entries(base) : e.path \notin PathsOf(head)}
               f == [e \in S |-> CommitFile("deleted", e.path, e, "none", [Nothing EXCEPT !.hash = e.hash, !.type = e.type])]
    <3>1. IsFiniteSet({f[e] : e \in S})
      BY <2>4, Images
    <3>2. Deleted(base, head) = {f[e] : e \in S}
      BY DEF Deleted
    <3> QED
      BY <3>1, <3>2
  <2> QED
    BY <2>5, <2>6, <2>7, FS_Union DEF Changes
<1>2. Placed(changed)
  <2>1. ASSUME NEW c \in changed PROVE c.path \in ToSet(PathOrder)
    <3>1. c.path \in PathsOf(base) \cup PathsOf(head)
      BY ChangeIs, EntryIs
    <3> QED
      BY <3>1, EntryIs
  <2> QED
    BY <2>1 DEF Placed
<1>3. ASSUME NEW c \in changed, NEW d \in changed, c.path = d.path PROVE c = d
  <2>1. CASE c \in Added(base, head)
    <3>1. PICK e \in Entries(head) : e.path \notin PathsOf(base) /\ c = CommitFile("added", e.path, e, "none", Nothing)
      BY <2>1 DEF Added
    <3>2. c.path = e.path /\ e.path \in PathsOf(head)
      BY <3>1, EntryIs DEF CommitFile
    <3>3. d \in Added(base, head)
      <4>1. d.status = "added"
        BY <1>3, <3>1, <3>2, ChangeIs, EntryIs
      <4> QED
        BY <4>1 DEF Changes, Added, Modified, Deleted, CommitFile
    <3>4. PICK f \in Entries(head) : d = CommitFile("added", f.path, f, "none", Nothing)
      BY <3>3 DEF Added
    <3>5. d.path = f.path
      BY <3>4 DEF CommitFile
    <3>6. e = f
      BY <1>3, <3>2, <3>5 DEF Sound
    <3> QED
      BY <3>1, <3>4, <3>6
  <2>2. CASE c \in Modified(base, head)
    <3>1. PICK e \in Entries(head) :
              e.path \in PathsOf(base) /\ c = CommitFile("modified", e.path, e, "none", EntryAt(base, e.path))
      BY <2>2 DEF Modified
    <3>2. c.path = e.path /\ e.path \in PathsOf(head)
      BY <3>1, EntryIs DEF CommitFile
    <3>3. d \in Modified(base, head)
      <4>1. d.status = "modified"
        BY <1>3, <3>1, <3>2, ChangeIs, EntryIs
      <4> QED
        BY <4>1 DEF Changes, Added, Modified, Deleted, CommitFile
    <3>4. PICK f \in Entries(head) : d = CommitFile("modified", f.path, f, "none", EntryAt(base, f.path))
      BY <3>3 DEF Modified
    <3>5. d.path = f.path
      BY <3>4 DEF CommitFile
    <3>6. e = f
      BY <1>3, <3>2, <3>5 DEF Sound
    <3> QED
      BY <3>1, <3>4, <3>6
  <2>3. CASE c \in Deleted(base, head)
    <3>1. PICK e \in Entries(base) :
              e.path \notin PathsOf(head)
              /\ c = CommitFile("deleted", e.path, e, "none", [Nothing EXCEPT !.hash = e.hash, !.type = e.type])
      BY <2>3 DEF Deleted
    <3>2. c.path = e.path /\ e.path \in PathsOf(base)
      BY <3>1, EntryIs DEF CommitFile
    <3>3. d \in Deleted(base, head)
      <4>1. d.status = "deleted"
        BY <1>3, <3>1, <3>2, ChangeIs, EntryIs
      <4> QED
        BY <4>1 DEF Changes, Added, Modified, Deleted, CommitFile
    <3>4. PICK f \in Entries(base) :
              d = CommitFile("deleted", f.path, f, "none", [Nothing EXCEPT !.hash = f.hash, !.type = f.type])
      BY <3>3 DEF Deleted
    <3>5. d.path = f.path
      BY <3>4 DEF CommitFile
    <3>6. e = f
      BY <1>3, <3>2, <3>5 DEF Sound
    <3> QED
      BY <3>1, <3>4, <3>6
  <2> QED
    BY <2>1, <2>2, <2>3 DEF Changes
<1>4. Distinct(changed)
  BY <1>3 DEF Distinct
<1> QED
  BY <1>1, <1>2, <1>4

-----------------------------------------------------------------------------
(***************************************************************************)
(* Renames, among changes of which each has a path of its own.             *)
(***************************************************************************)
Listable(changed) == IsFiniteSet(changed) /\ Placed(changed) /\ Distinct(changed)
Renames(changed) == UNION {Pairs(changed, h) : h \in {c.hash : c \in changed}}

LEMMA SubsetListable ==
    ASSUME NEW changed, Listable(changed), NEW S \in SUBSET changed
    PROVE  Listable(S)
BY FS_Subset DEF Listable, Placed, Distinct

\* A deletion and an addition of one hash, at one place of their lists.
Matched(changed, d, a) ==
    LET deleted == With(changed, "deleted", a.hash)
        added   == With(changed, "added", a.hash)
    IN  /\ d \in changed /\ a \in changed
        /\ d.status = "deleted" /\ a.status = "added" /\ d.hash = a.hash
        /\ \E i \in DOMAIN deleted \cap DOMAIN added : d = deleted[i] /\ a = added[i]

LEMMA WithIs ==
    ASSUME NEW changed, Listable(changed), NEW status, NEW h
    PROVE  LET s == With(changed, status, h)
           IN  /\ DOMAIN s = 1 .. Len(s) /\ Len(s) \in Nat
               /\ \A i \in DOMAIN s : s[i] \in changed /\ s[i].status = status /\ s[i].hash = h
               /\ \A c \in changed : c.status = status /\ c.hash = h => \E i \in DOMAIN s : s[i] = c
               /\ \A i, j \in DOMAIN s : s[i].path = s[j].path => i = j
<1> DEFINE S == {c \in changed : c.status = status /\ c.hash = h}
           s == With(changed, status, h)
<1>1. Listable(S)
  BY SubsetListable
<1>2. s = Sorted(S)
  BY DEF With
<1>3. \A c \in S : c \in changed /\ c.status = status /\ c.hash = h
  OBVIOUS
<1>4. \A c \in changed : c.status = status /\ c.hash = h => c \in S
  OBVIOUS
<1> HIDE DEF S, s
<1>5. SortedAs(S, s)
  BY <1>1, <1>2, SortedIs DEF Listable
<1>6. DOMAIN s = 1 .. Len(s) /\ Len(s) \in Nat /\ \A i \in DOMAIN s : s[i] \in S
  BY <1>5 DEF SortedAs
<1>7. \A c \in S : \E i \in DOMAIN s : s[i] = c
  BY <1>5 DEF SortedAs
<1>8. ASSUME NEW i \in DOMAIN s, NEW j \in DOMAIN s, s[i].path = s[j].path PROVE i = j
  <2>1. Rank(s[i].path) \in Nat
    BY <1>1, <1>6, Ranks DEF Listable, Placed
  <2>2. ~ (i < j) /\ ~ (j < i)
    BY <1>5, <1>8, <2>1 DEF SortedAs
  <2>3. i \in Nat /\ j \in Nat
    BY <1>6
  <2> QED
    BY <2>2, <2>3
<1> QED
  BY <1>3, <1>4, <1>6, <1>7, <1>8 DEF s

LEMMA RenameIs ==
    ASSUME NEW changed, Listable(changed), NEW r \in Renames(changed)
    PROVE  \E d, a \in changed : Matched(changed, d, a) /\ r = Pair(d, a)
<1>1. PICK h \in {c.hash : c \in changed} : r \in Pairs(changed, h)
  BY DEF Renames
<1> DEFINE deleted == With(changed, "deleted", h)
           added   == With(changed, "added", h)
<1>2. PICK i \in DOMAIN deleted \cap DOMAIN added : r = Pair(deleted[i], added[i])
  BY <1>1 DEF Pairs
<1>3. deleted[i] \in changed /\ deleted[i].status = "deleted" /\ deleted[i].hash = h
  BY WithIs
<1>4. added[i] \in changed /\ added[i].status = "added" /\ added[i].hash = h
  BY WithIs
<1>5. Matched(changed, deleted[i], added[i])
  BY <1>3, <1>4 DEF Matched
<1> QED
  BY <1>2, <1>3, <1>4, <1>5

LEMMA PairIs ==
    ASSUME NEW d, NEW a
    PROVE  LET r == Pair(d, a)
           IN  /\ r.status = "renamed" /\ r.path = a.path /\ r.oldPath = d.path
               /\ r.hash = a.hash /\ r.mode = a.mode /\ r.type = a.type
BY DEF Pair, CommitFile

\* Each deletion and each addition is in one pair at most.
LEMMA MatchedOnce ==
    ASSUME NEW changed, Listable(changed),
           NEW d \in changed, NEW a \in changed, Matched(changed, d, a),
           NEW e \in changed, NEW b \in changed, Matched(changed, e, b),
           d.path = e.path \/ a.path = b.path
    PROVE  d = e /\ a = b
<1>1. d = e \/ a = b
  BY DEF Listable, Distinct
<1>2. a.hash = b.hash
  BY <1>1 DEF Matched
<1> DEFINE deleted == With(changed, "deleted", a.hash)
           added   == With(changed, "added", a.hash)
<1>3. PICK i \in DOMAIN deleted \cap DOMAIN added : d = deleted[i] /\ a = added[i]
  BY DEF Matched
<1>4. PICK j \in DOMAIN deleted \cap DOMAIN added : e = deleted[j] /\ b = added[j]
  BY <1>2 DEF Matched
<1>5. i = j
  <2>1. deleted[i].path = deleted[j].path => i = j
    BY WithIs
  <2>2. added[i].path = added[j].path => i = j
    BY WithIs
  <2> HIDE DEF deleted, added
  <2> QED
    BY <1>1, <1>3, <1>4, <2>1, <2>2
<1> QED
  BY <1>3, <1>4, <1>5

LEMMA RenamedOnce ==
    ASSUME NEW changed, Listable(changed), NEW r \in Renames(changed), NEW q \in Renames(changed),
           r.path = q.path \/ r.oldPath = q.oldPath
    PROVE  r = q
<1>1. PICK d \in changed, a \in changed : Matched(changed, d, a) /\ r = Pair(d, a)
  BY RenameIs
<1>2. PICK e \in changed, b \in changed : Matched(changed, e, b) /\ q = Pair(e, b)
  BY RenameIs
<1>3. d.path = e.path \/ a.path = b.path
  BY <1>1, <1>2, PairIs
<1> QED
  BY <1>1, <1>2, <1>3, MatchedOnce

\* Of a deletion and an addition of one hash, one is in a pair.
LEMMA NoneLeft ==
    ASSUME NEW changed, Listable(changed),
           NEW d \in changed, NEW a \in changed,
           d.status = "deleted", a.status = "added", d.hash = a.hash
    PROVE  \E r \in Renames(changed) : r.oldPath = d.path \/ r.path = a.path
<1> DEFINE deleted == With(changed, "deleted", a.hash)
           added   == With(changed, "added", a.hash)
<1>1. PICK i \in DOMAIN deleted : deleted[i] = d
  BY WithIs
<1>2. PICK j \in DOMAIN added : added[j] = a
  BY WithIs
<1>3. /\ DOMAIN deleted = 1 .. Len(deleted) /\ Len(deleted) \in Nat
      /\ DOMAIN added = 1 .. Len(added) /\ Len(added) \in Nat
  BY WithIs
<1>4. i \in DOMAIN added \/ j \in DOMAIN deleted
  <2> HIDE DEF deleted, added
  <2> QED
    BY <1>3
<1>5. a.hash \in {c.hash : c \in changed}
  OBVIOUS
<1>6. \A k \in DOMAIN deleted \cap DOMAIN added : Pair(deleted[k], added[k]) \in Renames(changed)
  BY <1>5 DEF Renames, Pairs
<1>7. CASE i \in DOMAIN added
  <2>1. Pair(deleted[i], added[i]) \in Renames(changed)
    BY <1>6, <1>7
  <2>2. Pair(deleted[i], added[i]).oldPath = d.path
    BY <1>1, PairIs
  <2> QED
    BY <2>1, <2>2
<1>8. CASE j \in DOMAIN deleted
  <2>1. Pair(deleted[j], added[j]) \in Renames(changed)
    BY <1>6, <1>8
  <2>2. Pair(deleted[j], added[j]).path = a.path
    BY <1>2, PairIs
  <2> QED
    BY <2>1, <2>2
<1> QED
  BY <1>4, <1>7, <1>8

\* What detectRenames returns can be sorted as well.
LEMMA RenamesListable ==
    ASSUME NEW changed, Listable(changed)
    PROVE  Listable(DetectRenames(changed))
<1> DEFINE renames == Renames(changed)
           kept == {c \in changed :
                       /\ c.status = "deleted" => \A r \in renames : r.oldPath # c.path
                       /\ c.status = "added" => \A r \in renames : r.path # c.path}
<1>1. DetectRenames(changed) = renames \cup kept
  BY DEF DetectRenames, Renames
<1>2. \A c \in kept : c \in changed /\ (c.status = "added" => \A r \in renames : r.path # c.path)
  OBVIOUS
<1>3. kept \in SUBSET changed
  OBVIOUS
<1> HIDE DEF kept
<1>4. IsFiniteSet(renames)
  <2> DEFINE f == [p \in changed \X changed |-> Pair(p[1], p[2])]
  <2>1. IsFiniteSet({f[p] : p \in changed \X changed})
    <3>1. IsFiniteSet(changed \X changed)
      BY FS_Product DEF Listable
    <3> HIDE DEF f
    <3> QED
      BY <3>1, Images
  <2>2. ASSUME NEW r \in renames PROVE r \in {f[p] : p \in changed \X changed}
    <3>1. PICK d \in changed, a \in changed : r = Pair(d, a)
      BY RenameIs
    <3>2. <<d, a>> \in changed \X changed /\ f[<<d, a>>] = r
      BY <3>1
    <3> QED
      BY <3>2
  <2> HIDE DEF f
  <2> QED
    BY <2>1, <2>2, FS_Subset
<1>5. IsFiniteSet(kept)
  BY <1>3, FS_Subset DEF Listable
<1>6. ASSUME NEW r \in renames PROVE \E a \in changed : a.path = r.path /\ a.status = "added"
  <2>1. PICK d \in changed, a \in changed : Matched(changed, d, a) /\ r = Pair(d, a)
    BY RenameIs
  <2> QED
    BY <2>1, PairIs DEF Matched
<1>7. Placed(renames \cup kept)
  BY <1>2, <1>6 DEF Listable, Placed
<1>8. ASSUME NEW c \in renames \cup kept, NEW d \in renames \cup kept, c.path = d.path PROVE c = d
  <2>1. CASE c \in renames /\ d \in renames
    BY <1>8, <2>1, RenamedOnce
  <2>2. ASSUME NEW r \in renames, NEW k \in kept PROVE r.path # k.path
    <3>1. PICK a \in changed : a.path = r.path /\ a.status = "added"
      BY <1>6
    <3>2. r.path = k.path => a = k
      BY <1>2, <3>1 DEF Listable, Distinct
    <3> QED
      BY <1>2, <3>1, <3>2
  <2>3. CASE c \in kept /\ d \in kept
    BY <1>2, <1>8, <2>3 DEF Listable, Distinct
  <2> QED
    BY <1>8, <2>1, <2>2, <2>3
<1>9. Distinct(renames \cup kept)
  BY <1>8 DEF Distinct
<1>10. IsFiniteSet(renames \cup kept)
  BY <1>4, <1>5, FS_Union
<1> QED
  BY <1>1, <1>7, <1>9, <1>10 DEF Listable

-----------------------------------------------------------------------------
(***************************************************************************)
(* What the changes make of the files of the base.                         *)
(***************************************************************************)
Gone(cs) ==
    {c.path : c \in {c \in cs : c.type # "tree" /\ c.status \in {"deleted", "modified"}}}
        \cup {c.oldPath : c \in {c \in cs : c.type # "tree" /\ c.status = "renamed"}}
Put(cs) == {<<c.path, c.hash, c.mode>> : c \in {c \in cs : c.type # "tree" /\ c.status # "deleted"}}

LEMMA PatchIs ==
    ASSUME NEW files, NEW s, NEW cs, {s[i] : i \in DOMAIN s} = cs
    PROVE  Patch(files, s) = {f \in files : f[1] \notin Gone(cs)} \cup Put(cs)
<1> DEFINE some == {s[i] : i \in {i \in DOMAIN s : s[i].type # "tree"}}
<1>1. some = {c \in cs : c.type # "tree"}
  OBVIOUS
<1>2. Gone(cs) = {c.path : c \in {c \in some : c.status \in {"deleted", "modified"}}}
                    \cup {c.oldPath : c \in {c \in some : c.status = "renamed"}}
  <2> HIDE DEF some
  <2> QED
    BY <1>1 DEF Gone
<1>3. Put(cs) = {<<c.path, c.hash, c.mode>> : c \in {c \in some : c.status # "deleted"}}
  <2> HIDE DEF some
  <2> QED
    BY <1>1 DEF Put
<1> QED
  BY <1>2, <1>3 DEF Patch

LEMMA FilesAre ==
    ASSUME NEW tree, NEW f
    PROVE  f \in Files(tree) <=> \E e \in Entries(tree) : e.type # "tree" /\ f = <<e.path, e.hash, e.mode>>
BY DEF Files

\* But for the exempt paths, the changes turn the files of the base into those of the head.
LEMMA PatchTurns ==
    ASSUME NEW base, NEW head, Sound(base), Sound(head), Alike(base, head)
    PROVE  LET changed == Changes(base, head)
               patched == {f \in Files(base) : f[1] \notin Gone(changed)} \cup Put(changed)
           IN  Demanded(patched, base, head) = Demanded(Files(head), base, head)
<1> DEFINE changed == Changes(base, head)
           patched == {f \in Files(base) : f[1] \notin Gone(changed)} \cup Put(changed)
           exempt == Exempt(base, head)
<1>1. ASSUME NEW c \in changed PROVE c.status # "renamed"
  BY ChangeIs
<1>2. ASSUME NEW p
      PROVE  p \in Gone(changed) <=>
                \E c \in changed : c.type # "tree" /\ c.status \in {"deleted", "modified"} /\ c.path = p
  <2> HIDE DEF changed
  <2> QED
    BY <1>1 DEF Gone
<1>3. ASSUME NEW f
      PROVE  f \in Put(changed) <=>
                \E c \in changed :
                    c.type # "tree" /\ c.status # "deleted" /\ f = <<c.path, c.hash, c.mode>>
  BY DEF Put
<1>4. ASSUME NEW e \in Entries(base), NEW g \in Entries(head), e.type # "tree", g.path = e.path,
             e.path \notin exempt
      PROVE  g.type # "tree" /\ (g.hash = e.hash => g.mode = e.mode)
  BY <1>4 DEF Exempt
<1> HIDE DEF changed, exempt
<1>5. ASSUME NEW f \in Files(base), f[1] \notin Gone(changed), f[1] \notin exempt
      PROVE  f \in Files(head)
  <2>1. PICK e \in Entries(base) : e.type # "tree" /\ f = <<e.path, e.hash, e.mode>>
    BY FilesAre
  <2>2. f[1] = e.path
    BY <2>1
  <2>3. e.path \in PathsOf(head)
    BY <1>2, <1>5, <2>1, <2>2, ChangesCover DEF changed
  <2>4. PICK g \in Entries(head) : g.path = e.path
    BY <2>3, EntryIs
  <2>5. g.type # "tree" /\ (g.hash = e.hash => g.mode = e.mode)
    BY <1>4, <1>5, <2>1, <2>2, <2>4
  <2>6. EntryAt(base, g.path) = e /\ g.path \in PathsOf(base)
    BY <2>4, EntryIs
  <2>7. e.hash = g.hash
    BY <1>2, <1>5, <2>2, <2>4, <2>5, <2>6, ChangesCover DEF changed
  <2>8. f = <<g.path, g.hash, g.mode>>
    BY <2>1, <2>4, <2>5, <2>7
  <2> QED
    BY <2>5, <2>8, FilesAre
<1>6. ASSUME NEW f \in Put(changed)
      PROVE  f \in Files(head)
  <2>1. PICK c \in changed :
            c.type # "tree" /\ c.status # "deleted" /\ f = <<c.path, c.hash, c.mode>>
    BY <1>3
  <2>2. c.status \in {"added", "modified"}
    BY <2>1, ChangeIs DEF changed
  <2>3. PICK e \in Entries(head) :
            e.path = c.path /\ e.hash = c.hash /\ e.mode = c.mode /\ e.type = c.type
    BY <2>2, ChangeIs DEF changed
  <2> QED
    BY <2>1, <2>3, FilesAre
<1>7. ASSUME NEW f \in Files(head), f[1] \notin exempt
      PROVE  f \in Put(changed) \/ (f \in Files(base) /\ f[1] \notin Gone(changed))
  <2>1. PICK g \in Entries(head) : g.type # "tree" /\ f = <<g.path, g.hash, g.mode>>
    BY FilesAre
  <2>2. CASE g.path \notin PathsOf(base)
    <3>1. PICK c \in changed : /\ c.status = "added" /\ c.path = g.path
                              /\ c.hash = g.hash /\ c.mode = g.mode /\ c.type = g.type
      BY <2>2, ChangesCover DEF changed
    <3> QED
      BY <1>3, <2>1, <3>1
  <2>3. CASE g.path \in PathsOf(base) /\ EntryAt(base, g.path).hash # g.hash
    <3>1. PICK c \in changed : /\ c.status = "modified" /\ c.path = g.path
                              /\ c.hash = g.hash /\ c.mode = g.mode /\ c.type = g.type
      BY <2>1, <2>3, ChangesCover DEF changed
    <3> QED
      BY <1>3, <2>1, <3>1
  <2>4. CASE g.path \in PathsOf(base) /\ EntryAt(base, g.path).hash = g.hash
    <3>1. PICK e \in Entries(base) : e.path = g.path
      BY <2>4, EntryIs
    <3>2. e.hash = g.hash
      BY <2>4, <3>1, EntryIs
    <3>3. e.type # "tree"
      BY <2>1, <3>2 DEF Alike
    <3>4. f[1] = g.path /\ g.mode = e.mode
      <4>1. f[1] = g.path
        BY <2>1
      <4> QED
        BY <1>4, <1>7, <3>1, <3>2, <3>3, <4>1
    <3>5. f \in Files(base)
      BY <2>1, <3>1, <3>2, <3>3, <3>4, FilesAre
    <3>6. ASSUME NEW c \in changed, c.status \in {"deleted", "modified"} PROVE c.path # g.path
      <4>1. CASE c.status = "deleted"
        BY <4>1, ChangeIs, EntryIs DEF changed
      <4>2. CASE c.status = "modified"
        <5>1. PICK h \in Entries(head) : h.path = c.path /\ h.hash = c.hash
          BY <4>2, ChangeIs DEF changed
        <5>2. EntryAt(base, c.path).hash # c.hash
          BY <4>2, ChangeIs DEF changed
        <5>3. c.path = g.path => h = g
          BY <5>1 DEF Sound
        <5> QED
          BY <2>4, <5>1, <5>2, <5>3
      <4> QED
        BY <3>6, <4>1, <4>2
    <3> QED
      BY <1>2, <3>4, <3>5, <3>6
  <2> QED
    BY <2>2, <2>3, <2>4
<1>8. ASSUME NEW f, f[1] \notin exempt PROVE f \in patched <=> f \in Files(head)
  BY <1>5, <1>6, <1>7, <1>8
<1> HIDE DEF patched
<1>9. Demanded(patched, base, head) = Demanded(Files(head), base, head)
  <2>1. \A F : Demanded(F, base, head) = {f \in F : f[1] \notin exempt}
    BY DEF Demanded, exempt
  <2> QED
    BY <1>8, <2>1
<1> QED
  BY <1>9 DEF patched, changed

\* No change is of an entry that both trees have.
LEMMA NoneAlike ==
    ASSUME NEW base, NEW head, Sound(base), Sound(head),
           NEW c \in Changes(base, head), NEW e \in Entries(base) \cap Entries(head)
    PROVE  c.path # e.path
<1>1. e.path \in PathsOf(base) /\ e.path \in PathsOf(head) /\ EntryAt(base, e.path) = e
  BY EntryIs
<1>2. CASE c.status \in {"added", "deleted"}
  BY <1>1, <1>2, ChangeIs
<1>3. CASE c.status = "modified"
  <2>1. PICK h \in Entries(head) : h.path = c.path /\ h.hash = c.hash
    BY <1>3, ChangeIs
  <2>2. EntryAt(base, c.path).hash # c.hash
    BY <1>3, ChangeIs
  <2>3. c.path = e.path => h = e
    BY <2>1 DEF Sound
  <2> QED
    BY <1>1, <2>1, <2>2, <2>3
<1> QED
  BY <1>2, <1>3, ChangeIs

\* Renames say the same as the deletions and additions they stand for.
LEMMA RenamesSaySame ==
    ASSUME NEW changed, Listable(changed),
           \A c \in changed : c.status # "renamed",
           \A d, a \in changed : d.status = "deleted" /\ a.status = "added" /\ d.hash = a.hash
                                   => (d.type = "tree" <=> a.type = "tree")
    PROVE  /\ Gone(DetectRenames(changed)) = Gone(changed)
           /\ Put(DetectRenames(changed)) = Put(changed)
<1> DEFINE all == DetectRenames(changed)
           renames == Renames(changed)
<1>1. \A c : c \in all <=>
          \/ c \in renames
          \/ /\ c \in changed
             /\ c.status = "deleted" => \A r \in renames : r.oldPath # c.path
             /\ c.status = "added" => \A r \in renames : r.path # c.path
  BY DEF DetectRenames, Renames
<1>2. ASSUME NEW r \in renames
      PROVE  \E d, a \in changed :
                /\ d.status = "deleted" /\ a.status = "added"
                /\ r.status = "renamed" /\ r.oldPath = d.path /\ r.path = a.path /\ r.hash = a.hash
                /\ r.mode = a.mode /\ r.type = a.type /\ (d.type = "tree" <=> r.type = "tree")
  <2>1. PICK d \in changed, a \in changed : Matched(changed, d, a) /\ r = Pair(d, a)
    BY RenameIs
  <2>2. d.status = "deleted" /\ a.status = "added" /\ d.hash = a.hash
    BY <2>1 DEF Matched
  <2>3. d.type = "tree" <=> a.type = "tree"
    BY <2>2
  <2> QED
    BY <2>1, <2>2, <2>3, PairIs
<1> HIDE DEF all, renames
<1>3. ASSUME NEW p
      PROVE  p \in Gone(all) <=>
                \E c \in all : /\ c.type # "tree"
                              /\ \/ c.status \in {"deleted", "modified"} /\ c.path = p
                                 \/ c.status = "renamed" /\ c.oldPath = p
  BY DEF Gone
<1>4. ASSUME NEW p
      PROVE  p \in Gone(changed) <=>
                \E c \in changed : c.type # "tree" /\ c.status \in {"deleted", "modified"} /\ c.path = p
  BY DEF Gone
<1>5. ASSUME NEW p \in Gone(changed) PROVE p \in Gone(all)
  <2>1. PICK c \in changed : c.type # "tree" /\ c.status \in {"deleted", "modified"} /\ c.path = p
    BY <1>4
  <2>2. CASE c \in all
    BY <1>3, <2>1, <2>2
  <2>3. CASE c \notin all
    <3>1. c.status = "deleted" /\ \E r \in renames : r.oldPath = c.path
      BY <1>1, <2>1, <2>3
    <3>2. PICK r \in renames : r.oldPath = c.path
      BY <3>1
    <3>3. PICK d \in changed : r.oldPath = d.path /\ r.status = "renamed" /\ (d.type = "tree" <=> r.type = "tree")
      BY <1>2
    <3>4. d = c
      BY <3>2, <3>3 DEF Listable, Distinct
    <3>5. r \in all /\ r.type # "tree" /\ r.status = "renamed" /\ r.oldPath = p
      BY <1>1, <2>1, <3>2, <3>3, <3>4
    <3> QED
      BY <1>3, <3>5
  <2> QED
    BY <2>2, <2>3
<1>6. ASSUME NEW p \in Gone(all) PROVE p \in Gone(changed)
  <2>1. PICK c \in all : /\ c.type # "tree"
                        /\ \/ c.status \in {"deleted", "modified"} /\ c.path = p
                           \/ c.status = "renamed" /\ c.oldPath = p
    BY <1>3
  <2>2. CASE c \in renames
    <3>1. PICK d \in changed : /\ d.status = "deleted" /\ c.status = "renamed" /\ c.oldPath = d.path
                              /\ (d.type = "tree" <=> c.type = "tree")
      BY <1>2, <2>2
    <3> QED
      BY <1>4, <2>1, <3>1
  <2>3. CASE c \in changed
    BY <1>4, <2>1, <2>3
  <2> QED
    BY <1>1, <2>2, <2>3
<1>7. ASSUME NEW f \in Put(changed) PROVE f \in Put(all)
  <2>1. PICK c \in changed : c.type # "tree" /\ c.status # "deleted" /\ f = <<c.path, c.hash, c.mode>>
    BY DEF Put
  <2>2. CASE c \in all
    BY <2>1, <2>2 DEF Put
  <2>3. CASE c \notin all
    <3>1. c.status = "added" /\ \E r \in renames : r.path = c.path
      BY <1>1, <2>1, <2>3
    <3>2. PICK r \in renames : r.path = c.path
      BY <3>1
    <3>3. PICK a \in changed : /\ r.path = a.path /\ r.hash = a.hash /\ r.status = "renamed"
                              /\ r.mode = a.mode /\ r.type = a.type
      BY <1>2
    <3>4. a = c
      BY <3>2, <3>3 DEF Listable, Distinct
    <3>5. r \in all /\ r.type # "tree" /\ r.status # "deleted" /\ f = <<r.path, r.hash, r.mode>>
      BY <1>1, <2>1, <3>2, <3>3, <3>4
    <3> QED
      BY <3>5 DEF Put
  <2> QED
    BY <2>2, <2>3
<1>8. ASSUME NEW f \in Put(all) PROVE f \in Put(changed)
  <2>1. PICK c \in all : c.type # "tree" /\ c.status # "deleted" /\ f = <<c.path, c.hash, c.mode>>
    BY DEF Put
  <2>2. CASE c \in renames
    <3>1. PICK a \in changed : /\ a.status = "added" /\ c.path = a.path
                              /\ c.hash = a.hash /\ c.mode = a.mode /\ c.type = a.type
      BY <1>2, <2>2
    <3>2. a.type # "tree" /\ a.status # "deleted" /\ f = <<a.path, a.hash, a.mode>>
      BY <2>1, <3>1
    <3> QED
      BY <3>2 DEF Put
  <2>3. CASE c \in changed
    BY <2>1, <2>3 DEF Put
  <2> QED
    BY <1>1, <2>2, <2>3
<1>9. Gone(all) = Gone(changed) /\ Put(all) = Put(changed)
  BY <1>5, <1>6, <1>7, <1>8
<1> QED
  BY <1>9 DEF all

\* The changes that compareTrees returns add up, for any two trees in which a hash names a
\* file or a directory and not both.
LEMMA CompareAddsUp ==
    ASSUME NEW base, NEW head, Sound(base), Sound(head), Alike(base, head), NEW detectRenames \in BOOLEAN
    PROVE  AddUp(base, head, detectRenames, CompareTrees(base, head, detectRenames))
<1> DEFINE changed == Changes(base, head)
           all == IF detectRenames THEN DetectRenames(changed) ELSE changed
           s == Sorted(all)
<1>1. Listable(changed)
  BY ChangesSort DEF Listable
<1>2. \A c \in changed : c.status # "renamed"
  BY ChangeIs
<1>3. ASSUME NEW d \in changed, NEW a \in changed, d.status = "deleted", a.status = "added", d.hash = a.hash
      PROVE  d.type = "tree" <=> a.type = "tree"
  <2>1. PICK e \in Entries(base) : e.hash = d.hash /\ e.type = d.type
    BY <1>3, ChangeIs
  <2>2. PICK f \in Entries(head) : f.hash = a.hash /\ f.type = a.type
    BY <1>3, ChangeIs
  <2> QED
    BY <1>3, <2>1, <2>2 DEF Alike
<1>4. CompareTrees(base, head, detectRenames) = s
  BY DEF CompareTrees, Changes
<1>5. Demanded({f \in Files(base) : f[1] \notin Gone(changed)} \cup Put(changed), base, head)
            = Demanded(Files(head), base, head)
  BY PatchTurns
<1>0. \A c \in changed, e \in Entries(base) \cap Entries(head) : c.path # e.path
  BY NoneAlike
<1> HIDE DEF changed
<1>6. Listable(all)
  BY <1>1, RenamesListable
<1>7. Gone(all) = Gone(changed) /\ Put(all) = Put(changed)
  <2>1. \A d, a \in changed : d.status = "deleted" /\ a.status = "added" /\ d.hash = a.hash
                              => (d.type = "tree" <=> a.type = "tree")
    BY <1>3
  <2> QED
    BY <1>1, <1>2, <2>1, RenamesSaySame
<1>8. SortedAs(all, s)
  <2> HIDE DEF all
  <2> QED
    BY <1>6, SortedIs DEF Listable
<1>9. \A i, j \in DOMAIN s : s[i].path = s[j].path => i = j
  <2> SUFFICES ASSUME NEW i \in DOMAIN s, NEW j \in DOMAIN s, s[i].path = s[j].path PROVE i = j
    OBVIOUS
  <2> HIDE DEF all, s
  <2>1. i \in Nat /\ j \in Nat /\ s[i] \in all
    BY <1>8 DEF SortedAs
  <2>2. Rank(s[i].path) \in Nat
    BY <1>6, <2>1, Ranks DEF Listable, Placed
  <2>3. ~ (i < j) /\ ~ (j < i)
    BY <1>8, <2>2 DEF SortedAs
  <2> QED
    BY <2>1, <2>3
<1>10. Demanded(Patch(Files(base), s), base, head) = Demanded(Files(head), base, head)
  <2> HIDE DEF all, s
  <2>1. Patch(Files(base), s) = {f \in Files(base) : f[1] \notin Gone(all)} \cup Put(all)
    BY <1>8, PatchIs DEF SortedAs
  <2> QED
    BY <1>5, <1>7, <2>1
<1>11. \A i, j \in DOMAIN s : i < j => Rank(s[i].path) < Rank(s[j].path)
  BY <1>8 DEF SortedAs
<1>12. ASSUME NEW i \in DOMAIN s, NEW j \in DOMAIN s, s[i].status = "renamed", s[j].status = "renamed",
              s[i].oldPath = s[j].oldPath
       PROVE  i = j
  <2> HIDE DEF s
  <2>1. s[i] \in all /\ s[j] \in all
    BY <1>8 DEF SortedAs
  <2>2. detectRenames /\ s[i] \in Renames(changed) /\ s[j] \in Renames(changed)
    BY <1>2, <1>12, <2>1 DEF DetectRenames, Renames
  <2>3. s[i] = s[j]
    BY <1>1, <1>12, <2>2, RenamedOnce
  <2> QED
    BY <1>9, <2>3
<1>13. ASSUME detectRenames, NEW c \in all, NEW d \in all,
              c.status = "deleted", d.status = "added", c.hash = d.hash
       PROVE  FALSE
  <2>1. \A r \in Renames(changed) : r.status = "renamed"
    BY <1>1, RenameIs, PairIs
  <2>2. /\ c \in changed /\ \A r \in Renames(changed) : r.oldPath # c.path
        /\ d \in changed /\ \A r \in Renames(changed) : r.path # d.path
    BY <1>13, <2>1 DEF DetectRenames, Renames
  <2> QED
    BY <1>1, <1>13, <2>2, NoneLeft
<1>14. {s[i] : i \in DOMAIN s} = all
  BY <1>8 DEF SortedAs
<1>15. ASSUME NEW c \in all, NEW e \in Entries(base) \cap Entries(head)
       PROVE  c.path # e.path /\ (c.status = "renamed" => c.oldPath # e.path)
  <2>1. CASE c \in Renames(changed)
    <3>1. PICK d \in changed, a \in changed : Matched(changed, d, a) /\ c = Pair(d, a)
      BY <1>1, <2>1, RenameIs
    <3>2. c.path = a.path /\ c.oldPath = d.path
      BY <3>1, PairIs
    <3> QED
      BY <1>0, <3>2
  <2>2. CASE c \in changed
    BY <1>0, <1>2, <2>2
  <2> QED
    BY <2>1, <2>2 DEF DetectRenames, Renames
<1> HIDE DEF all, s
<1>16. AddUp(base, head, detectRenames, s)
  <2> DEFINE olds == [i \in {i \in DOMAIN s : s[i].status = "renamed"} |-> s[i].oldPath]
  <2>1. \A i, j \in DOMAIN olds : olds[i] = olds[j] => i = j
    BY <1>12
  <2>2. \A c \in all, e \in Entries(base) \cap Entries(head) :
            c.path # e.path /\ (c.status = "renamed" => c.oldPath # e.path)
    BY <1>15
  <2>3. detectRenames =>
            ~ \E c, d \in all : c.status = "deleted" /\ d.status = "added" /\ c.hash = d.hash
    BY <1>13
  <2> HIDE DEF olds
  <2> QED
    BY <1>10, <1>11, <1>14, <2>1, <2>2, <2>3 DEF AddUp, olds
<1> QED
  BY <1>4, <1>16


-----------------------------------------------------------------------------
(***************************************************************************)
(* Where a call can be.                                                    *)
(***************************************************************************)
\* The operators of CommitHistory are those of History.
LEMMA SameTrees ==
    /\ H!repo = repo /\ H!Commits = Commits /\ H!rootTree = rootTree
    /\ \A t : H!PathsOf(t) = PathsOf(t) /\ H!Entries(t) = Entries(t)
    /\ \A t, p : H!EntryAt(t, p) = EntryAt(t, p)
    /\ \A p : H!HashAt(p) = HashAt(p)
    /\ \A c : H!InTime(c) = InTime(c)
    /\ \A type : H!Wants(type) = Wants(type)
    /\ \A name : H!TrimSpace(name) = TrimSpace(name) /\ H!Name(name) = Name(name)
    /\ \A p : H!Trimmed(p) = Trimmed(p)
<1>1. /\ H!repo = repo /\ H!Commits = Commits /\ H!rootTree = rootTree
      /\ \A t : H!PathsOf(t) = PathsOf(t) /\ H!Entries(t) = Entries(t)
  BY DEF H!repo, repo, H!Commits, Commits, H!rootTree, rootTree, H!PathsOf, PathsOf, H!Entries, Entries
<1>2. \A t, p : H!EntryAt(t, p) = EntryAt(t, p)
  BY <1>1 DEF H!EntryAt, EntryAt
<1>3. \A name : H!TrimSpace(name) = TrimSpace(name)
  BY DEF H!TrimSpace, TrimSpace
<1>7. \A name : H!Name(name) = Name(name)
  BY <1>3 DEF H!Name, Name, H!Wants, Wants
<1>8. \A p : H!Trimmed(p) = Trimmed(p)
  BY <1>3 DEF H!Trimmed, Trimmed
<1>4. \A p : H!HashAt(p) = HashAt(p)
  BY <1>1, <1>2 DEF H!HashAt, HashAt
<1>5. \A c : H!InTime(c) = InTime(c)
  BY <1>1 DEF H!InTime, InTime
<1>6. \A type : H!Wants(type) = Wants(type)
  BY DEF H!Wants, Wants
<1> QED
  BY <1>1, <1>2, <1>3, <1>4, <1>5, <1>6, <1>7, <1>8

LEMMA SameRepositories ==
    ASSUME NEW r
    PROVE  H!GoodRepository(r) <=> GoodRepository(r)
<1>1. \A t, p : H!Under(t, p) = Under(t, p)
  BY DEF H!Under, Under, H!IsPrefix, IsPrefix
<1>2. ASSUME NEW t PROVE H!GoodTree(t) <=> GoodTree(t)
  BY <1>1 DEF H!GoodTree, GoodTree, H!ToSet, ToSet, H!IsFiniteSet, IsFiniteSet
<1>3. H!HashesOfContents(r) <=> HashesOfContents(r)
  BY <1>1 DEF H!HashesOfContents, HashesOfContents
<1>4. H!Acyclic(r) <=> Acyclic(r)
  <2>1. \A S : H!Cardinality(S) = Cardinality(S)
    BY DEF H!Cardinality, Cardinality, H!IsFiniteSet, IsFiniteSet
  <2> QED
    BY <2>1 DEF H!Acyclic, Acyclic
<1> QED
  BY <1>2, <1>3, <1>4 DEF H!GoodRepository, GoodRepository, H!IsFiniteSet, IsFiniteSet

LEMMA SameComparison ==
    ASSUME NEW base, NEW head, NEW d
    PROVE  H!CompareTrees(base, head, d) = CompareTrees(base, head, d)
<1>1. ASSUME NEW S PROVE H!Sorted(S) = Sorted(S)
  BY DEF H!Sorted, Sorted, H!Foremost, Foremost, H!Rank, Rank
<1>2. H!Nothing = Nothing
  BY DEF H!Nothing, Nothing
<1>3. \A s, p, e, o, old : H!CommitFile(s, p, e, o, old) = CommitFile(s, p, e, o, old)
  BY DEF H!CommitFile, CommitFile
<1>4. \A cs, s, h : H!With(cs, s, h) = With(cs, s, h)
  BY <1>1 DEF H!With, With
<1>5. \A x, y : H!Pair(x, y) = Pair(x, y)
  BY <1>3 DEF H!Pair, Pair
<1>6. \A cs, h : H!Pairs(cs, h) = Pairs(cs, h)
  BY <1>4, <1>5 DEF H!Pairs, Pairs
<1>7. \A cs : H!DetectRenames(cs) = DetectRenames(cs)
  BY <1>6 DEF H!DetectRenames, DetectRenames
<1>8. H!Added(base, head) = Added(base, head)
  BY <1>2, <1>3, SameTrees DEF H!Added, Added
<1>9. H!Modified(base, head) = Modified(base, head)
  BY <1>3, SameTrees DEF H!Modified, Modified
<1>10. H!Deleted(base, head) = Deleted(base, head)
  BY <1>2, <1>3, SameTrees DEF H!Deleted, Deleted
<1> QED
  BY <1>1, <1>7, <1>8, <1>9, <1>10 DEF H!CompareTrees, CompareTrees

\* An operation goes through its own steps, and has no result before it ends.
OnCourse ==
    /\ call \in Reads
    /\ pc \in {"get", "scan"} => call.op = "get"
    /\ pc \in {"path", "descend"} => call.op = "path"
    /\ pc \in {"list", "walk", "filter"} => call.op = "list"
    /\ pc \in {"compare", "receive base", "receive head"} => call.op = "compare"
    /\ pc # "done" => result = "none"

LEMMA OnCourseStep ==
    ASSUME H!CallsAssumption, OnCourse, [H!Next]_(H!vars)
    PROVE  OnCourse'
<1> SUFFICES ASSUME H!CallsAssumption, OnCourse, H!Next PROVE OnCourse'
  BY DEF OnCourse, H!vars
<1>1. call.op \in {"get", "path", "list", "compare"}
  BY DEF H!CallsAssumption, OnCourse
<1>2. \/ \E o : H!ScanObject(o)
      \/ \E s : H!GetFlatTree(s) \/ H!Send(s) \/ H!Receive(s)
      \/ H!GetCommit \/ H!EndScan \/ H!ByPathCall \/ H!Descend \/ H!GetObject
      \/ H!ListCommits \/ H!Visit \/ H!Filter \/ H!EndWalk \/ H!CompareCommits \/ H!Evict
  BY DEF H!Next, H!Step
<1>3. CASE H!GetCommit
  BY <1>1, <1>3 DEF H!GetCommit, H!Return, OnCourse
<1>4. CASE \E o : H!ScanObject(o)
  BY <1>1, <1>4 DEF H!ScanObject, H!Return, OnCourse
<1>5. CASE H!EndScan
  BY <1>1, <1>5 DEF H!EndScan, H!Return, OnCourse
<1>6. CASE H!ByPathCall
  BY <1>1, <1>6 DEF H!ByPathCall, H!Return, OnCourse
<1>7. CASE H!Descend
  BY <1>1, <1>7 DEF H!Descend, H!FetchFails, H!Return, OnCourse
<1>8. CASE H!GetObject
  BY <1>1, <1>8 DEF H!GetObject, H!FetchFails, H!Return, OnCourse
<1>9. CASE H!ListCommits
  BY <1>1, <1>9 DEF H!ListCommits, H!Return, OnCourse
<1>10. CASE H!Visit
  BY <1>1, <1>10 DEF H!Visit, H!Return, OnCourse
<1>11. CASE H!Filter
  BY <1>1, <1>11 DEF H!Filter, H!Return, OnCourse
<1>12. CASE H!EndWalk
  BY <1>1, <1>12 DEF H!EndWalk, H!Return, OnCourse
<1>13. CASE H!CompareCommits
  BY <1>1, <1>13 DEF H!CompareCommits, OnCourse
<1>14. CASE H!Evict
  BY <1>14 DEF H!Evict, OnCourse
<1>15. CASE \E s : H!GetFlatTree(s) \/ H!Send(s)
  BY <1>15 DEF H!GetFlatTree, H!Send, OnCourse
<1>16. CASE \E s : H!Receive(s)
  BY <1>1, <1>16 DEF H!Receive, H!Receiver, H!Return, OnCourse
<1> QED
  BY <1>2, <1>3, <1>4, <1>5, <1>6, <1>7, <1>8, <1>9, <1>10, <1>11, <1>12, <1>13, <1>14, <1>15, <1>16

-----------------------------------------------------------------------------
\* Of two commits of a repository, the changes add up.
LEMMA RepositoriesCompare ==
    ASSUME NEW r, GoodRepository(r), NEW b \in DOMAIN r, NEW h \in DOMAIN r, NEW d \in BOOLEAN
    PROVE  AddUp(r[b].tree, r[h].tree, d, CompareTrees(r[b].tree, r[h].tree, d))
<1>1. \A c \in DOMAIN r : Sound(r[c].tree)
  BY GoodIsSound DEF GoodRepository
<1>2. Alike(r[b].tree, r[h].tree)
  BY DEF GoodRepository, HashesOfContents, Alike, Entries
<1> QED
  BY <1>1, <1>2, CompareAddsUp

LEMMA ChangesStep ==
    ASSUME H!CallsAssumption, OnCourse, ChangesAddUp, [H!Next]_(H!vars)
    PROVE  ChangesAddUp'
<1>1. CASE \E s : H!Receive(s)
  <2>1. PICK s : H!Receive(s)
    BY <1>1
  <2>2. call' = call /\ call \in Reads /\ GoodRepository(call.repo)
    BY <2>1, SameRepositories DEF H!Receive, OnCourse, H!CallsAssumption
  <2>3. CASE result' = "ok" /\ call.op = "compare"
    <3>1. changes' = CompareTrees(repo[call.base].tree, repo[call.head].tree, call.detectRenames)
      BY <2>1, <2>3, SameComparison, SameTrees DEF H!Receive, H!Receiver, H!Return, OnCourse
    <3>2. call.base \in DOMAIN repo /\ call.head \in DOMAIN repo /\ call.detectRenames \in BOOLEAN
      BY <2>2, <2>3 DEF H!CallsAssumption, repo
    <3>3. AddUp(repo[call.base].tree, repo[call.head].tree, call.detectRenames, changes')
      BY <2>2, <3>1, <3>2, RepositoriesCompare DEF repo
    <3> QED
      BY <2>2, <3>3 DEF ChangesAddUp, repo
  <2> QED
    BY <2>2, <2>3 DEF ChangesAddUp
<1>2. CASE UNCHANGED <<call, changes>> /\ (result' = result \/ call.op # "compare" \/ result' # "ok")
  BY <1>2 DEF ChangesAddUp, repo
<1>3. CASE UNCHANGED H!vars
  BY <1>2, <1>3 DEF H!vars
<1>4. ASSUME H!Next
      PROVE  \/ \E s : H!Receive(s)
             \/ UNCHANGED <<call, changes>> /\ (result' = result \/ call.op # "compare")
  BY <1>4 DEF H!Next, H!Step, H!GetCommit, H!ScanObject, H!EndScan, H!ByPathCall, H!Descend, H!GetObject,
      H!ListCommits, H!Visit, H!Filter, H!EndWalk, H!CompareCommits, H!GetFlatTree, H!Send, H!Evict,
      OnCourse, H!comparing
<1> QED
  BY <1>1, <1>2, <1>3, <1>4

\* But for the exempt paths, of files that became directories or changed their mode alone, the
\* changes that CompareCommits returns turn the files of the one commit into those of the
\* other, and they name nothing that is alike in both: for any repositories and goroutines.
THEOREM ChangesRight == H!CallsAssumption => (H!Spec => []ChangesAddUp)
<1> SUFFICES ASSUME H!CallsAssumption PROVE H!Spec => []ChangesAddUp
  OBVIOUS
<1>1. H!Init => OnCourse /\ ChangesAddUp
  BY DEF H!Init, OnCourse, ChangesAddUp, H!CallsAssumption
<1>2. OnCourse /\ ChangesAddUp /\ [H!Next]_(H!vars) => (OnCourse /\ ChangesAddUp)'
  BY OnCourseStep, ChangesStep
<1> QED
  BY <1>1, <1>2, PTL DEF H!Spec

(***************************************************************************)
(* The parts of a path that count.                                         *)
(***************************************************************************)
PartsOf(path) == [i \in DOMAIN path |-> Part(path[i])]

LEMMA Singles ==
    ASSUME NEW S
    PROVE  /\ <<>> \in Seq(S) /\ \A x \in S : <<x>> \in Seq(S)
           /\ \A s \in Seq(S) : Len(s) = 0 <=> s = <<>>
OBVIOUS

\* What is left of a name, and of the names of a path.
LEMMA TrimIs ==
    /\ \A name \in STRING : TrimSpace(name) \in STRING /\ Name(name) \in STRING
    /\ \A path \in Seq(STRING) :
           /\ Trimmed(path) \in Seq(STRING) /\ Len(Trimmed(path)) = Len(path)
           /\ \A i \in 1 .. Len(path) : Trimmed(path)[i] = TrimSpace(path[i])
<1>1. \A name \in STRING : TrimSpace(name) \in STRING
  BY PaddedAssumption DEF PaddedAssumption, TrimSpace
<1>2. ASSUME NEW path \in Seq(STRING)
      PROVE  /\ Trimmed(path) \in Seq(STRING) /\ Len(Trimmed(path)) = Len(path)
             /\ \A i \in 1 .. Len(path) : Trimmed(path)[i] = TrimSpace(path[i])
  <2>1. Len(path) \in Nat /\ DOMAIN path = 1 .. Len(path) /\ \A i \in 1 .. Len(path) : path[i] \in STRING
    OBVIOUS
  <2>2. Trimmed(path) = [i \in 1 .. Len(path) |-> TrimSpace(path[i])]
    BY <2>1 DEF Trimmed
  <2>3. \A i \in 1 .. Len(path) : TrimSpace(path[i]) \in STRING
    BY <1>1, <2>1
  <2> QED
    BY <2>1, <2>2, <2>3
<1> QED
  BY <1>1, <1>2 DEF Name

LEMMA PartIs == ASSUME NEW part \in STRING PROVE Part(part) \in Seq(STRING)
<1>1. Part(part) = <<>> \/ Part(part) = <<Name(part)>>
  BY DEF Part
<1>2. <<>> \in Seq(STRING) /\ <<Name(part)>> \in Seq(STRING)
  BY Singles, TrimIs
<1> QED
  BY <1>1, <1>2

\* f[i] is the first i of the parts put together.
Joins(s, f) == [i \in 1 .. Len(s) |-> IF i = 1 THEN s[i] ELSE f[i - 1] \o s[i]]
Joining(s, n, f) == /\ f \in [1 .. n -> Seq(STRING)]
                    /\ \A i \in 1 .. n : f[i] = IF i = 1 THEN s[i] ELSE f[i - 1] \o s[i]

\* There is such an f: the least number of parts that cannot be joined would follow on one that can.
LEMMA JoinsExist ==
    ASSUME NEW s \in Seq(Seq(STRING))
    PROVE  \E f \in [1 .. Len(s) -> Seq(STRING)] : f = Joins(s, f)
<1> DEFINE T == {n \in 0 .. Len(s) : ~ \E f : Joining(s, n, f)}
<1>1. Len(s) \in Nat /\ T \subseteq Nat
  OBVIOUS
<1>2. ASSUME T # {} PROVE FALSE
  <2> HIDE DEF T
  <2>1. PICK n \in T : \A m \in T : ~ (m < n)
    BY <1>1, <1>2, LeastNat
  <2>2. n \in 0 .. Len(s) /\ ~ \E f : Joining(s, n, f)
    BY <2>1 DEF T
  <2>3. n # 0
    <3>1. Joining(s, 0, [i \in 1 .. 0 |-> <<>>])
      BY DEF Joining
    <3> QED
      BY <2>2, <3>1
  <2>4. n - 1 \in 0 .. Len(s) /\ n - 1 < n /\ n \in 1 .. Len(s) /\ s[n] \in Seq(STRING)
    BY <1>1, <2>2, <2>3
  <2>5. PICK f : Joining(s, n - 1, f)
    BY <2>1, <2>4 DEF T
  <2> DEFINE last == IF n = 1 THEN s[n] ELSE f[n - 1] \o s[n]
             g == [i \in 1 .. n |-> IF i = n THEN last ELSE f[i]]
  <2>6. n # 1 => f[n - 1] \in Seq(STRING)
    BY <2>4, <2>5 DEF Joining
  <2>7. last \in Seq(STRING)
    <3>1. CASE n = 1
      BY <2>4, <3>1
    <3>2. CASE n # 1
      <4>1. f[n - 1] \in Seq(STRING) /\ s[n] \in Seq(STRING)
        BY <2>4, <2>6, <3>2
      <4> QED
        BY <3>2, <4>1, ConcatProperties
    <3> QED
      BY <3>1, <3>2
  <2> HIDE DEF last
  <2>8. \A i \in 1 .. n : i = n \/ i \in 1 .. n - 1
    BY <2>4
  <2>9. g \in [1 .. n -> Seq(STRING)]
    BY <2>5, <2>7, <2>8 DEF Joining
  <2>10. ASSUME NEW i \in 1 .. n PROVE g[i] = IF i = 1 THEN s[i] ELSE g[i - 1] \o s[i]
    <3>1. i # 1 => i - 1 \in 1 .. n /\ i - 1 # n /\ g[i - 1] = f[i - 1]
      BY <2>4
    <3>2. CASE i = n
      BY <3>1, <3>2 DEF last
    <3>3. CASE i # n
      BY <2>5, <2>8, <3>1, <3>3 DEF Joining
    <3> QED
      BY <3>2, <3>3
  <2> HIDE DEF g
  <2>11. Joining(s, n, g)
    BY <2>9, <2>10 DEF Joining
  <2> QED
    BY <2>2, <2>11
<1>3. PICK f : Joining(s, Len(s), f)
  BY <1>1, <1>2
<1>4. f = [i \in 1 .. Len(s) |-> f[i]]
  BY <1>3 DEF Joining
<1> QED
  BY <1>3, <1>4 DEF Joining, Joins

\* What counts of the first k parts.
JoinedTo(s, k) == IF k = 0 THEN <<>> ELSE (CHOOSE f : f = Joins(s, f))[k]
KeptParts(path, k) == JoinedTo(PartsOf(path), k)

LEMMA KeptIs ==
    ASSUME NEW path \in Seq(STRING)
    PROVE  /\ FlattenSeq(PartsOf(path)) = KeptParts(path, Len(path))
           /\ \A k \in 0 .. Len(path) : KeptParts(path, k) \in Seq(STRING)
           /\ \A k \in 1 .. Len(path) : KeptParts(path, k) = KeptParts(path, k - 1) \o Part(path[k])
<1> DEFINE s == PartsOf(path)
           g == CHOOSE f : f = Joins(s, f)
<1>0. Len(path) \in Nat /\ DOMAIN path = 1 .. Len(path) /\ \A i \in 1 .. Len(path) : path[i] \in STRING
  OBVIOUS
<1>2. \A i \in 1 .. Len(path) : s[i] = Part(path[i]) /\ s[i] \in Seq(STRING)
  BY <1>0, PartIs DEF PartsOf
<1>1. s \in Seq(Seq(STRING)) /\ Len(s) = Len(path) /\ Len(path) \in Nat
  <2>1. s = [i \in 1 .. Len(path) |-> s[i]]
    BY <1>0 DEF PartsOf
  <2> HIDE DEF s
  <2>2. s \in [1 .. Len(path) -> Seq(STRING)]
    BY <1>2, <2>1
  <2> QED
    BY <1>0, <2>2
<1>3. \E f : f = Joins(s, f)
  BY <1>1, JoinsExist
<1>4. g = Joins(s, g)
  BY <1>3
<1> HIDE DEF g
<1>5. \A k \in 1 .. Len(path) : g[k] = IF k = 1 THEN s[k] ELSE g[k - 1] \o s[k]
  BY <1>1, <1>4 DEF Joins
<1>6. \A k : KeptParts(path, k) = IF k = 0 THEN <<>> ELSE g[k]
  BY DEF KeptParts, JoinedTo, g
<1>7. FlattenSeq(s) = KeptParts(path, Len(path))
  <2>1. CASE Len(path) = 0
    <3>1. s = <<>>
      BY <1>1, <2>1
    <3> QED
      BY <1>6, <2>1, <3>1 DEF FlattenSeq
  <2>2. CASE Len(path) # 0
    <3>1. FlattenSeq(s) = g[Len(s)]
      BY <1>1, <2>2 DEF FlattenSeq, g, Joins
    <3> QED
      BY <1>1, <1>6, <2>2, <3>1
  <2> QED
    BY <2>1, <2>2
<1> HIDE DEF s
<1>8. \A k \in 0 .. Len(path) : KeptParts(path, k) \in Seq(STRING)
  <2> DEFINE T == {k \in 0 .. Len(path) : KeptParts(path, k) \notin Seq(STRING)}
  <2>1. T \subseteq Nat
    BY <1>1
  <2>2. ASSUME T # {} PROVE FALSE
    <3> HIDE DEF T
    <3>1. PICK n \in T : \A m \in T : ~ (m < n)
      BY <2>1, <2>2, LeastNat
    <3>2. n \in 0 .. Len(path) /\ KeptParts(path, n) \notin Seq(STRING)
      BY <3>1 DEF T
    <3>3. n # 0
      <4>1. KeptParts(path, 0) = <<>> /\ <<>> \in Seq(STRING)
        BY <1>6
      <4> QED
        BY <3>2, <4>1
    <3>4. n # 1
      BY <1>1, <1>2, <1>5, <1>6, <3>2, <3>3
    <3>5. n - 1 \in 0 .. Len(path) /\ n - 1 < n /\ n - 1 # 0 /\ n \in 1 .. Len(path)
      BY <1>1, <3>2, <3>3, <3>4
    <3>6. g[n - 1] \in Seq(STRING) /\ s[n] \in Seq(STRING)
      BY <1>2, <1>6, <3>1, <3>5 DEF T
    <3>7. g[n - 1] \o s[n] \in Seq(STRING)
      BY <3>6, ConcatProperties
    <3>8. KeptParts(path, n) = g[n - 1] \o s[n]
      BY <1>5, <1>6, <3>3, <3>4, <3>5
    <3> QED
      BY <3>2, <3>7, <3>8
  <2> QED
    BY <2>2
<1>9. ASSUME NEW k \in 1 .. Len(path)
      PROVE  KeptParts(path, k) = KeptParts(path, k - 1) \o Part(path[k])
  <2>1. k \in Nat /\ k # 0 /\ KeptParts(path, k) = g[k] /\ s[k] = Part(path[k]) /\ s[k] \in Seq(STRING)
    BY <1>1, <1>2, <1>6
  <2>2. CASE k = 1
    <3>1. KeptParts(path, k - 1) = <<>> /\ g[k] = s[k]
      BY <1>5, <1>6, <2>2
    <3>2. <<>> \o s[k] = s[k]
      BY <2>1
    <3> QED
      BY <2>1, <3>1, <3>2
  <2>3. CASE k # 1
    <3>1. k - 1 # 0
      BY <2>1, <2>3
    <3>2. g[k] = g[k - 1] \o s[k]
      BY <1>5, <2>3
    <3> QED
      BY <1>6, <2>1, <3>1, <3>2
  <2> QED
    BY <2>2, <2>3
<1> QED
  BY <1>7, <1>8, <1>9 DEF s

\* What counts of more parts begins with what counts of fewer.
LEMMA KeptGrows ==
    ASSUME NEW path \in Seq(STRING), NEW k \in 0 .. Len(path), NEW n \in k .. Len(path)
    PROVE  /\ Len(KeptParts(path, k)) <= Len(KeptParts(path, n))
           /\ KeptParts(path, k) = SubSeq(KeptParts(path, n), 1, Len(KeptParts(path, k)))
<1> DEFINE Begins(p, q) == Len(p) <= Len(q) /\ p = SubSeq(q, 1, Len(p))
           T == {m \in k .. Len(path) : ~ Begins(KeptParts(path, k), KeptParts(path, m))}
<1>1. Len(path) \in Nat /\ T \subseteq Nat
  OBVIOUS
<1>2. ASSUME T # {} PROVE FALSE
  <2> HIDE DEF T, Begins
  <2>1. PICK m \in T : \A l \in T : ~ (l < m)
    BY <1>1, <1>2, LeastNat
  <2>2. m \in k .. Len(path) /\ ~ Begins(KeptParts(path, k), KeptParts(path, m))
    BY <2>1 DEF T
  <2>3. KeptParts(path, k) \in Seq(STRING)
    BY KeptIs
  <2>4. m # k
    <3>1. Begins(KeptParts(path, k), KeptParts(path, k))
      BY <2>3 DEF Begins
    <3> QED
      BY <2>2, <3>1
  <2>5. m \in 1 .. Len(path) /\ m - 1 \in k .. Len(path) /\ m - 1 < m /\ m - 1 \in 0 .. Len(path)
    BY <1>1, <2>2, <2>4
  <2>6. Begins(KeptParts(path, k), KeptParts(path, m - 1))
    BY <2>1, <2>5 DEF T
  <2>7. KeptParts(path, m) = KeptParts(path, m - 1) \o Part(path[m])
    BY <2>5, KeptIs
  <2>8. KeptParts(path, m - 1) \in Seq(STRING) /\ Part(path[m]) \in Seq(STRING)
    <3>1. path[m] \in STRING
      BY <2>5
    <3> QED
      BY <2>5, <3>1, KeptIs, PartIs
  <2>9. ASSUME NEW p \in Seq(STRING), NEW q \in Seq(STRING), NEW r \in Seq(STRING), Begins(p, q)
        PROVE  Begins(p, q \o r)
    <3>1. q \o r \in Seq(STRING) /\ Len(q \o r) = Len(q) + Len(r)
      BY ConcatProperties
    <3>2. \A i \in 1 .. Len(p) : (q \o r)[i] = q[i] /\ p[i] = q[i]
      BY <2>9 DEF Begins
    <3> HIDE DEF Begins
    <3>3. Len(p) <= Len(q \o r) /\ Len(p) \in Nat /\ Len(q) \in Nat /\ Len(r) \in Nat
      BY <2>9, <3>1 DEF Begins
    <3>4. p = SubSeq(q \o r, 1, Len(p))
      <4>1. SubSeq(q \o r, 1, Len(p)) \in Seq(STRING) /\ Len(SubSeq(q \o r, 1, Len(p))) = Len(p)
        BY <3>1, <3>3
      <4>2. \A i \in 1 .. Len(p) : SubSeq(q \o r, 1, Len(p))[i] = p[i]
        BY <3>1, <3>2, <3>3
      <4> HIDE DEF Begins
      <4> QED
        BY <4>1, <4>2, SeqEqual
    <3> QED
      BY <3>3, <3>4 DEF Begins
  <2> QED
    BY <2>2, <2>3, <2>6, <2>7, <2>8, <2>9
<1> QED
  BY <1>2

\* Of a good tree, a path is there only with all the directories above it.
LEMMA Above ==
    ASSUME NEW tree, GoodTree(tree), NEW e \in tree
    PROVE  /\ e.path \in Seq(STRING)
           /\ \A k \in 1 .. Len(e.path) - 1 : SubSeq(e.path, 1, k) \in PathsOf(tree)
<1>1. e.path \in Seq(STRING)
  <2>1. PICK i \in DOMAIN PathOrder : e.path = PathOrder[i]
    BY DEF GoodTree, ToSet
  <2> QED
    BY <2>1, OrderAssumption DEF OrderAssumption
<1>2. ASSUME NEW k \in 1 .. Len(e.path) - 1
      PROVE  SubSeq(e.path, 1, k) \in PathsOf(tree)
  <2>1. PICK d \in tree : d.path = SubSeq(e.path, 1, k) /\ d.type = "tree"
    BY DEF GoodTree
  <2> QED
    BY <2>1 DEF PathsOf, Entries
<1> QED
  BY <1>1, <1>2

LEMMA PathsClosed ==
    ASSUME NEW tree, GoodTree(tree), NEW p \in PathsOf(tree), NEW k \in 1 .. Len(p)
    PROVE  SubSeq(p, 1, k) \in PathsOf(tree)
<1>1. PICK e \in tree : e.path = p
  BY DEF PathsOf, Entries
<1>2. p \in Seq(STRING) /\ \A i \in 1 .. Len(p) - 1 : SubSeq(p, 1, i) \in PathsOf(tree)
  BY <1>1, Above
<1>3. CASE k # Len(p)
  BY <1>2, <1>3
<1>4. CASE k = Len(p)
  <2>1. SubSeq(p, 1, Len(p)) = p
    BY <1>2
  <2> QED
    BY <1>4, <2>1
<1> QED
  BY <1>3, <1>4

\* The path whose parts a walk goes through, which is in the middle of it.
Way == IF Wants("tree") /\ call.path = <<".">> THEN <<>> ELSE call.path
Through(k) ==
    /\ rest = SubSeq(Way, k + 1, Len(Way)) /\ at = KeptParts(Way, k)
    /\ Wants("tree") => at = SubSeq(Trimmed(Way), 1, k)
    /\ Wants("blob") => Way # <<>> /\ Way[Len(Way)] # ""
    /\ at # <<>> =>
        /\ at \in PathsOf(rootTree)
        /\ EntryAt(rootTree, at).type = IF rest = <<>> THEN call.wants ELSE "tree"
OnTheWay ==
    /\ call.op = "get" => foundObj \in {NoCommit, call.commit}
    /\ pc = "path" => at = <<>>
    /\ pc = "descend" => \E k \in 0 .. Len(Way) : Through(k)

LEMMA SameParts ==
    ASSUME call' = call
    PROVE  \A path, k : KeptParts(path, k)' = KeptParts(path, k)
<1>1. \A part : Part(part)' = Part(part)
  BY DEF Part, Name, Wants
<1>2. \A path : PartsOf(path)' = PartsOf(path)
  BY <1>1 DEF PartsOf
<1> QED
  BY <1>2 DEF KeptParts

\* What a call asks for.
LEMMA AskedPath ==
    ASSUME H!CallsAssumption, OnCourse, call.op = "path"
    PROVE  /\ GoodTree(rootTree) /\ call.path \in Seq(STRING) /\ Way \in Seq(STRING)
           /\ (Wants("blob") /\ ~ Wants("tree")) \/ (Wants("tree") /\ ~ Wants("blob"))
           /\ Meant = KeptParts(Way, Len(Way))
<1>1. call \in Reads /\ GoodRepository(call.repo) /\ call.commit \in DOMAIN call.repo
      /\ call.path \in Seq(STRING) /\ call.wants \in {"blob", "tree"}
  BY SameRepositories DEF OnCourse, H!CallsAssumption
<1>2. GoodTree(rootTree)
  BY <1>1 DEF GoodRepository, rootTree, repo
<1>3. Way \in Seq(STRING)
  BY <1>1, Singles DEF Way
<1>4. Meant = KeptParts(Way, Len(Way))
  <2>1. CASE Wants("tree") /\ call.path = <<".">>
    BY <2>1 DEF Meant, Way, KeptParts, JoinedTo
  <2>2. CASE ~ (Wants("tree") /\ call.path = <<".">>)
    <3>1. Way = call.path /\ Meant = FlattenSeq(PartsOf(call.path))
      BY <2>2 DEF Meant, Way, PartsOf
    <3> QED
      BY <1>1, <3>1, KeptIs
  <2> QED
    BY <2>1, <2>2
<1> QED
  BY <1>1, <1>2, <1>3, <1>4 DEF Wants

\* One part more.
LEMMA OnePartMore ==
    ASSUME NEW k \in 0 .. Len(Way), Way \in Seq(STRING), rest = SubSeq(Way, k + 1, Len(Way)), rest # <<>>
    PROVE  /\ k + 1 \in 0 .. Len(Way) /\ k + 1 \in 1 .. Len(Way)
           /\ Head(rest) = Way[k + 1] /\ Tail(rest) = SubSeq(Way, k + 2, Len(Way))
           /\ Len(rest) = Len(Way) - k
           /\ (Tail(rest) = <<>> <=> Len(rest) = 1) /\ (Len(rest) = 1 <=> k + 1 = Len(Way))
<1>1. Len(Way) \in Nat /\ k \in Nat
  OBVIOUS
<1>2. rest \in Seq(STRING) /\ Len(rest) = Len(Way) - k
  BY <1>1
<1>3. Len(rest) # 0
  BY <1>2
<1>4. k + 1 \in 1 .. Len(Way)
  BY <1>1, <1>2, <1>3
<1>5. rest[1] = Way[k + 1] /\ Head(rest) = rest[1]
  BY <1>1, <1>4
<1>6. Tail(rest) = SubSeq(Way, k + 2, Len(Way))
  <2> DEFINE t == SubSeq(Way, k + 2, Len(Way))
  <2>1. Tail(rest) \in Seq(STRING) /\ Len(Tail(rest)) = Len(rest) - 1
        /\ \A i \in 1 .. Len(Tail(rest)) : Tail(rest)[i] = rest[i + 1]
    BY <1>2, <1>3
  <2>2. t \in Seq(STRING) /\ Len(t) = Len(Way) - k - 1
    BY <1>1, <1>4
  <2>3. \A i \in 1 .. Len(t) : t[i] = Way[k + 1 + i] /\ rest[i + 1] = Way[k + 1 + i]
    BY <1>1, <1>2, <1>4, <2>2
  <2> HIDE DEF t
  <2>4. Tail(rest) = t
    BY <1>1, <1>2, <2>1, <2>2, <2>3, SeqEqual
  <2> QED
    BY <2>4 DEF t
<1>7. Len(Tail(rest)) = Len(rest) - 1 /\ Tail(rest) \in Seq(STRING)
  BY <1>2, <1>3
<1>8. Tail(rest) = <<>> <=> Len(rest) = 1
  BY <1>2, <1>7, Singles
<1> QED
  BY <1>1, <1>2, <1>4, <1>5, <1>6, <1>8

\* A path that is missing keeps away what it leads to.
LEMMA MissingOnTheWay ==
    ASSUME NEW path \in Seq(STRING), NEW tree, GoodTree(tree),
           NEW k \in 0 .. Len(path), KeptParts(path, k) \notin PathsOf(tree), KeptParts(path, k) # <<>>
    PROVE  KeptParts(path, Len(path)) \notin PathsOf(tree)
<1>1. Len(path) \in k .. Len(path) /\ Len(path) \in 0 .. Len(path)
  OBVIOUS
<1>2. KeptParts(path, k) \in Seq(STRING) /\ KeptParts(path, Len(path)) \in Seq(STRING)
  BY <1>1, KeptIs
<1>3. Len(KeptParts(path, k)) <= Len(KeptParts(path, Len(path)))
      /\ KeptParts(path, k) = SubSeq(KeptParts(path, Len(path)), 1, Len(KeptParts(path, k)))
  BY <1>1, KeptGrows
<1>4. Len(KeptParts(path, k)) \in 1 .. Len(KeptParts(path, Len(path)))
  BY <1>2, <1>3
<1> QED
  BY <1>3, <1>4, PathsClosed

LEMMA DescendStep ==
    ASSUME H!CallsAssumption, OnCourse, OnTheWay, H!Descend
    PROVE  OnTheWay' /\ ReadsAreRight'
<1>1. pc = "descend" /\ rest # <<>> /\ UNCHANGED <<call, foundObj>> /\ call.op = "path"
      /\ result = "none"
  BY DEF H!Descend, OnCourse
<1>2. /\ Way' = Way /\ rootTree' = rootTree /\ Meant' = Meant
      /\ \A t : Wants(t)' = Wants(t)
  BY <1>1 DEF Way, rootTree, repo, Meant, Part, Name, Wants
<1>3. /\ GoodTree(rootTree) /\ Way \in Seq(STRING) /\ Meant = KeptParts(Way, Len(Way))
      /\ (Wants("blob") /\ ~ Wants("tree")) \/ (Wants("tree") /\ ~ Wants("blob"))
  BY <1>1, AskedPath
<1>4. PICK k \in 0 .. Len(Way) : Through(k)
  BY <1>1 DEF OnTheWay
<1> DEFINE part  == Name(Head(rest))
           child == Append(at, part)
           type  == IF Wants("blob") /\ Len(rest) = 1 THEN "blob" ELSE "tree"
<1>5. /\ k + 1 \in 0 .. Len(Way) /\ k + 1 \in 1 .. Len(Way) /\ k \in Nat /\ Len(Way) \in Nat
      /\ part = Name(Way[k + 1]) /\ part \in STRING /\ Tail(rest) = SubSeq(Way, k + 2, Len(Way))
      /\ (Tail(rest) = <<>> <=> Len(rest) = 1) /\ (Len(rest) = 1 <=> k + 1 = Len(Way))
  <2>1. rest = SubSeq(Way, k + 1, Len(Way))
    BY <1>4 DEF Through
  <2>2. /\ k + 1 \in 0 .. Len(Way) /\ k + 1 \in 1 .. Len(Way)
        /\ part = Name(Way[k + 1]) /\ Tail(rest) = SubSeq(Way, k + 2, Len(Way))
        /\ (Tail(rest) = <<>> <=> Len(rest) = 1) /\ (Len(rest) = 1 <=> k + 1 = Len(Way))
    BY <1>1, <1>3, <2>1, OnePartMore
  <2>3. Way[k + 1] \in STRING /\ Len(Way) \in Nat
    BY <1>3, <2>2
  <2>4. Name(Way[k + 1]) \in STRING
    BY <2>3, TrimIs
  <2> QED
    BY <2>2, <2>3, <2>4
<1> HIDE DEF part
<1>6. at = KeptParts(Way, k) /\ at \in Seq(STRING) /\ KeptParts(Way, k + 1) = at \o Part(Way[k + 1])
      /\ child \in Seq(STRING) /\ child # <<>>
  <2>1. at = KeptParts(Way, k)
    BY <1>4 DEF Through
  <2>2. at \in Seq(STRING)
    BY <1>3, <2>1, KeptIs
  <2>3. k + 1 - 1 = k
    BY <1>5
  <2>4. KeptParts(Way, k + 1) = at \o Part(Way[k + 1])
    <3>1. KeptParts(Way, k + 1) = KeptParts(Way, k + 1 - 1) \o Part(Way[k + 1])
      BY <1>3, <1>5, KeptIs
    <3>2. KeptParts(Way, k + 1 - 1) = at
      BY <2>1, <2>3
    <3> QED
      BY <3>1, <3>2
  <2>5. child \in Seq(STRING) /\ Len(child) = Len(at) + 1 /\ Len(at) \in Nat
    BY <1>5, <2>2, AppendProperties
  <2>6. Len(child) # 0
    BY <2>5
  <2> QED
    BY <2>1, <2>2, <2>4, <2>5, <2>6, Singles
<1>7. part # "" => KeptParts(Way, k + 1) = child
  <2>1. part # "" => Part(Way[k + 1]) = <<part>>
    BY <1>5 DEF Part
  <2>2. child = at \o <<part>>
    BY <1>5, <1>6
  <2> QED
    BY <1>6, <2>1, <2>2
<1>8. part = "" => KeptParts(Way, k + 1) = at
  <2>1. part = "" => Part(Way[k + 1]) = <<>>
    BY <1>5 DEF Part
  <2>2. at \o <<>> = at
    BY <1>6
  <2> QED
    BY <1>6, <2>1, <2>2
<1>9. CASE pc' = "done"
  <2>1. result' = "path not found" => child \notin PathsOf(rootTree) /\ part # ""
    BY <1>9, <1>1, SameTrees DEF H!Descend, H!Return, H!FetchFails, part
  <2>2. result' # "ok"
    BY <1>9, <1>1 DEF H!Descend, H!Return, H!FetchFails, part
  <2>3. result' = "path not found" => Meant \notin PathsOf(rootTree)
    BY <1>3, <1>5, <1>6, <1>7, <2>1, MissingOnTheWay
  <2>4. OnTheWay'
    BY <1>1, <1>9 DEF OnTheWay
  <2>5. PathsOf(rootTree)' = PathsOf(rootTree)
    BY <1>2 DEF PathsOf
  <2> QED
    BY <1>1, <1>2, <2>2, <2>3, <2>4, <2>5 DEF ReadsAreRight
<1>10. CASE pc' = pc
  <2>1. result' = "none"
    BY <1>1, <1>10 DEF H!Descend, H!Return, H!FetchFails, part
  <2>2. \/ part = "" /\ Wants("blob") /\ rest' = Tail(rest) /\ at' = at
        \/ /\ part # "" /\ child \in PathsOf(rootTree) /\ EntryAt(rootTree, child).type = type
           /\ at' = child /\ rest' = Tail(rest)
    <3> HIDE DEF part, child, type
    <3>1. pc # "done"
      BY <1>1
    <3> QED
      BY <1>1, <1>10, <3>1, SameTrees DEF H!Descend, H!Return, H!FetchFails, H!Entered, part, child, type
  <2>3. at' = KeptParts(Way, k + 1) /\ rest' = SubSeq(Way, k + 1 + 1, Len(Way))
    <3>1. k + 1 + 1 = k + 2
      BY <1>5
    <3> QED
      BY <1>5, <1>7, <1>8, <2>2, <3>1
  <2>4. Wants("tree") => at' = SubSeq(Trimmed(Way), 1, k + 1)
    <3>1. ASSUME Wants("tree") PROVE at' = SubSeq(Trimmed(Way), 1, k + 1)
      <4> DEFINE names == Trimmed(Way)
      <4>1. names \in Seq(STRING) /\ Len(names) = Len(Way) /\ names[k + 1] = part
        BY <1>3, <1>5, <3>1, TrimIs DEF Name
      <4>2. at' = Append(SubSeq(names, 1, k), names[k + 1])
        BY <1>3, <1>4, <2>2, <3>1, <4>1 DEF Through
      <4> HIDE DEF names
      <4>3. SubSeq(names, 1, k + 1) = Append(SubSeq(names, 1, k), names[k + 1])
        BY <1>5, <4>1
      <4> QED
        BY <4>2, <4>3 DEF names
    <3> QED
      BY <3>1
  <2>5. at' # <<>> =>
            /\ at' \in PathsOf(rootTree)
            /\ EntryAt(rootTree, at').type = IF rest' = <<>> THEN call.wants ELSE "tree"
    <3>1. CASE part = ""
      <4>1. Way[Len(Way)] # "" /\ rest' # <<>>
        BY <1>3, <1>4, <1>5, <2>2, <3>1 DEF Through, Name
      <4> QED
        BY <1>1, <1>4, <2>2, <3>1, <4>1 DEF Through
    <3>2. CASE part # ""
      <4>1. rest' = <<>> <=> Len(rest) = 1
        BY <1>5, <2>2
      <4>2. at' = child /\ child \in PathsOf(rootTree) /\ EntryAt(rootTree, child).type = type
        BY <2>2, <3>2
      <4>3. type = IF rest' = <<>> THEN call.wants ELSE "tree"
        BY <1>3, <4>1 DEF Wants
      <4> QED
        BY <4>2, <4>3
    <3> QED
      BY <3>1, <3>2
  <2>6. /\ PathsOf(rootTree)' = PathsOf(rootTree)
        /\ EntryAt(rootTree, at)' = EntryAt(rootTree, at')
    BY <1>2 DEF PathsOf, EntryAt, Entries
  <2>7. Through(k + 1)'
    <3>1. PICK j : j = k + 1
      OBVIOUS
    <3>2. Through(j)'
      BY <1>1, <1>2, <1>4, <2>3, <2>4, <2>5, <2>6, <3>1, SameParts DEF Through, Trimmed
    <3> QED
      BY <3>1, <3>2
  <2>8. OnTheWay'
    BY <1>1, <1>2, <1>5, <1>10, <2>7 DEF OnTheWay
  <2> QED
    BY <2>1, <2>8 DEF ReadsAreRight
<1>11. pc' \in {"done", pc}
  BY <1>1 DEF H!Descend, H!Return, H!FetchFails, part
<1> QED
  BY <1>9, <1>10, <1>11

LEMMA ReadStep ==
    ASSUME H!CallsAssumption, OnCourse, OnCourse', OnTheWay, ReadsAreRight, [H!Next]_(H!vars)
    PROVE  OnTheWay' /\ ReadsAreRight'
<1>1. CASE H!GetCommit
  <2>1. pc = "get" /\ UNCHANGED <<call, foundObj>> /\ result' # "ok" /\ result' # "path not found"
        /\ pc' \in {"scan", "done"}
    BY <1>1 DEF H!GetCommit, H!Return, OnCourse
  <2> QED
    BY <2>1 DEF OnTheWay, ReadsAreRight, OnCourse
<1>2. CASE \E o : H!ScanObject(o)
  <2>1. pc = "scan" /\ UNCHANGED call /\ result' # "ok" /\ result' # "path not found"
        /\ pc' \in {"scan", "done"} /\ foundObj' \in {foundObj, call.commit}
    BY <1>2 DEF H!ScanObject, H!Return, OnCourse
  <2> QED
    BY <2>1 DEF OnTheWay, ReadsAreRight, OnCourse
<1>3. CASE H!EndScan
  <2>1. pc = "scan" /\ UNCHANGED <<call, foundObj>> /\ (result' = "ok" => foundObj # NoCommit)
        /\ result' # "path not found" /\ pc' = "done"
    BY <1>3 DEF H!EndScan, H!Return, H!getting
  <2> QED
    BY <2>1 DEF OnTheWay, ReadsAreRight, OnCourse
<1>4. CASE H!ByPathCall
  <2>1. pc = "path" /\ UNCHANGED <<call, foundObj, at>> /\ at = <<>> /\ call.op = "path"
        /\ result' # "ok" /\ result' # "path not found" /\ pc' \in {"descend", "done"}
    BY <1>4 DEF H!ByPathCall, H!Return, OnCourse, OnTheWay
  <2>2. ReadsAreRight'
    BY <2>1 DEF ReadsAreRight
  <2>3. ASSUME pc' = "descend" PROVE Through(0)'
    <3>1. rest' = Way /\ ~ (Wants("blob") /\ (call.path = <<>> \/ Last(call.path) = ""))
      BY <1>4, <2>3, SameTrees DEF H!ByPathCall, H!Return, Way, H!Last, Last
    <3>2. Way' = Way /\ \A t : Wants(t)' = Wants(t)
      BY <2>1 DEF Way, Wants
    <3>3. Way \in Seq(STRING) /\ ((Wants("blob") /\ ~ Wants("tree")) \/ (Wants("tree") /\ ~ Wants("blob")))
      BY <2>1, AskedPath
    <3>4. Way = SubSeq(Way, 1, Len(Way)) /\ <<>> = SubSeq(Trimmed(Way), 1, 0)
      <4>1. \A s \in Seq(STRING) : s = SubSeq(s, 1, Len(s)) /\ <<>> = SubSeq(s, 1, 0)
        OBVIOUS
      <4> QED
        BY <3>3, <4>1, TrimIs
    <3>5. Wants("blob") => Way # <<>> /\ Way[Len(Way)] # ""
      BY <3>1, <3>3 DEF Way, Last
    <3>6. at' = <<>> /\ KeptParts(Way, 0) = <<>>
      BY <2>1 DEF KeptParts, JoinedTo
    <3>7. 0 + 1 = 1
      OBVIOUS
    <3> QED
      BY <2>1, <3>1, <3>2, <3>4, <3>5, <3>6, <3>7, SameParts DEF Through, Trimmed
  <2>4. Way' = Way /\ (call.op = "path" => 0 \in 0 .. Len(Way))
    <3>1. Way' = Way
      BY <2>1 DEF Way, Wants
    <3>2. Way \in Seq(STRING)
      BY <2>1, AskedPath
    <3>3. Len(Way) \in Nat
      BY <3>2
    <3> QED
      BY <3>1, <3>3
  <2> QED
    BY <2>1, <2>2, <2>3, <2>4 DEF OnTheWay
<1>5. CASE H!Descend
  BY <1>5, DescendStep
<1>6. CASE H!GetObject
  <2>1. pc = "descend" /\ rest = <<>> /\ call.op = "path" /\ pc' = "done" /\ UNCHANGED call
        /\ result' # "path not found" /\ (result' = "ok" => foundObj' = HashAt(at))
    BY <1>6, SameTrees DEF H!GetObject, H!FetchFails, H!Return, OnCourse
  <2>2. OnTheWay'
    BY <2>1 DEF OnTheWay
  <2>3. PICK k \in 0 .. Len(Way) : Through(k)
    BY <2>1 DEF OnTheWay
  <2>4. Way \in Seq(STRING) /\ Meant = KeptParts(Way, Len(Way))
    BY <2>1, AskedPath
  <2>5. k = Len(Way)
    <3>1. rest = SubSeq(Way, k + 1, Len(Way))
      BY <2>3 DEF Through
    <3>2. Len(rest) = 0
      BY <2>1
    <3>3. Len(Way) \in Nat /\ k \in Nat /\ k <= Len(Way)
      BY <2>3, <2>4
    <3>4. k < Len(Way) => Len(rest) = Len(Way) - k
      BY <2>4, <3>1, <3>3
    <3> QED
      BY <3>2, <3>3, <3>4
  <2>6. at = Meant /\ (Wants("tree") => at = Trimmed(Way))
    <3>1. at = KeptParts(Way, k) /\ (Wants("tree") => at = SubSeq(Trimmed(Way), 1, k))
      BY <2>3 DEF Through
    <3>2. \A s \in Seq(STRING) : SubSeq(s, 1, Len(s)) = s
      OBVIOUS
    <3>3. SubSeq(Trimmed(Way), 1, Len(Way)) = Trimmed(Way)
      BY <2>4, <3>2, TrimIs
    <3> QED
      BY <2>4, <2>5, <3>1, <3>3
  <2>7. Wants("tree") => Meant \in {<<>>, Trimmed(call.path)}
    <3>1. Trimmed(<<>>) = <<>>
      BY TrimIs, Singles
    <3> QED
      BY <2>6, <3>1 DEF Way
  <2>8. Meant # <<>> =>
            Meant \in PathsOf(rootTree) /\ EntryAt(rootTree, Meant).type = call.wants
    BY <2>1, <2>3, <2>6 DEF Through
  <2>9. /\ Meant' = Meant /\ HashAt(Meant)' = HashAt(Meant)
        /\ EntryAt(rootTree, Meant)' = EntryAt(rootTree, Meant) /\ Wants("tree")' = Wants("tree")
        /\ PathsOf(rootTree)' = PathsOf(rootTree) /\ Trimmed(call.path)' = Trimmed(call.path)
    <3>1. call' = call
      BY <2>1
    <3>2. Meant' = Meant /\ Wants("tree")' = Wants("tree") /\ rootTree' = rootTree
      BY <3>1 DEF Meant, Part, Name, Wants, rootTree, repo
    <3>3. /\ EntryAt(rootTree, Meant)' = EntryAt(rootTree, Meant)
          /\ PathsOf(rootTree)' = PathsOf(rootTree) /\ Trimmed(call.path)' = Trimmed(call.path)
      BY <3>1, <3>2 DEF EntryAt, PathsOf, Entries, Trimmed
    <3> QED
      BY <3>2, <3>3 DEF HashAt
  <2>10. ReadsAreRight'
    BY <2>1, <2>6, <2>7, <2>8, <2>9 DEF ReadsAreRight
  <2> QED
    BY <2>2, <2>10
<1>7. CASE /\ UNCHANGED <<call, foundObj>> /\ pc' \notin {"path", "descend"}
           /\ call.op \notin {"get", "path"}
  BY <1>7 DEF OnTheWay, ReadsAreRight
<1>8. CASE UNCHANGED <<pc, call, foundObj, at, rest, result>>
  <2>1. /\ Way' = Way /\ \A k : Through(k)' <=> Through(k)
    BY <1>8, SameParts DEF Way, Through, Wants, Trimmed, rootTree, repo, PathsOf, EntryAt, Entries
  <2>2. /\ Meant' = Meant /\ HashAt(Meant)' = HashAt(Meant) /\ PathsOf(rootTree)' = PathsOf(rootTree)
        /\ EntryAt(rootTree, Meant)' = EntryAt(rootTree, Meant) /\ Wants("tree")' = Wants("tree")
        /\ Trimmed(call.path)' = Trimmed(call.path)
    BY <1>8 DEF Meant, Part, Name, Trimmed, Wants, HashAt, EntryAt, Entries, PathsOf, rootTree, repo
  <2> QED
    BY <1>8, <2>1, <2>2 DEF OnTheWay, ReadsAreRight
<1>9. ASSUME H!Next
      PROVE  \/ \E o : H!ScanObject(o)
             \/ H!GetCommit \/ H!EndScan \/ H!ByPathCall \/ H!Descend \/ H!GetObject
             \/ /\ UNCHANGED <<call, foundObj>> /\ pc' \notin {"path", "descend"}
                /\ call.op \notin {"get", "path"}
             \/ UNCHANGED <<pc, call, foundObj, at, rest, result>>
  BY <1>9 DEF H!Next, H!Step, H!ListCommits, H!Visit, H!Filter, H!EndWalk, H!CompareCommits, H!GetFlatTree,
      H!Send, H!Receive, H!Receiver, H!Return, H!Evict, OnCourse, H!getting
<1> QED
  BY <1>1, <1>2, <1>3, <1>4, <1>5, <1>6, <1>7, <1>8, <1>9 DEF H!vars

\* What a read returns is what was asked for, and it says that nothing is there only if no
\* file and no directory is, by the names that are left without blanks where the code takes
\* them away: for any repositories, submodules included, paths, and failures of fetches.
THEOREM ReadsRight == H!CallsAssumption => (H!Spec => []ReadsAreRight)
<1> SUFFICES ASSUME H!CallsAssumption PROVE H!Spec => []ReadsAreRight
  OBVIOUS
<1> DEFINE I == OnCourse /\ OnTheWay /\ ReadsAreRight
<1>1. H!Init => I
  BY DEF H!Init, OnCourse, OnTheWay, ReadsAreRight, H!CallsAssumption
<1>2. I /\ [H!Next]_(H!vars) => I'
  BY OnCourseStep, ReadStep
<1>3. I => ReadsAreRight
  OBVIOUS
<1> QED
  BY <1>1, <1>2, <1>3, PTL DEF H!Spec

(***************************************************************************)
(* The log.                                                                *)
(***************************************************************************)
AgeOf(r) == CHOOSE age \in [DOMAIN r -> 1 .. Cardinality(DOMAIN r)] :
                \A c \in DOMAIN r : r[c].parent # NoCommit => age[r[c].parent] < age[c]
Parent(c) == repo[c].parent
Own(c) == IF Listed(c) THEN <<c>> ELSE <<>>
LogFrom(f, c) == Own(c) \o (IF Parent(c) = NoCommit THEN <<>> ELSE f[Parent(c)])
LogFunction == CHOOSE f : f = [c \in Commits |-> LogFrom(f, c)]
LogAfter(c) == IF c = NoCommit THEN <<>> ELSE LogFunction[c]

\* A parent is a commit, and its age is less than its child's.
LEMMA Ages ==
    ASSUME GoodRepository(repo)
    PROVE  /\ Cardinality(Commits) \in Nat
           /\ \A c \in Commits : AgeOf(repo)[c] \in 1 .. Cardinality(Commits)
           /\ \A c \in Commits : Parent(c) # NoCommit =>
                    Parent(c) \in Commits /\ AgeOf(repo)[Parent(c)] < AgeOf(repo)[c]
           /\ NoCommit \notin Commits
<1> DEFINE Good(age) == \A c \in Commits : repo[c].parent # NoCommit => age[repo[c].parent] < age[c]
<1>1. \E age \in [Commits -> 1 .. Cardinality(Commits)] : Good(age)
  BY DEF GoodRepository, Acyclic, Commits
<1>2. AgeOf(repo) = CHOOSE age \in [Commits -> 1 .. Cardinality(Commits)] : Good(age)
  BY DEF AgeOf, Commits
<1> HIDE DEF Good
<1>3. AgeOf(repo) \in [Commits -> 1 .. Cardinality(Commits)] /\ Good(AgeOf(repo))
  BY <1>1, <1>2
<1>4. Cardinality(Commits) \in Nat
  BY FS_CardinalityType DEF GoodRepository, Commits
<1> QED
  BY <1>3, <1>4 DEF Good, GoodRepository, Commits, Parent

\* The log of each commit whose age is less than n.
Younger(n) == {c \in Commits : AgeOf(repo)[c] < n}
Logs(n, f) == f = [c \in Younger(n) |-> LogFrom(f, c)]

LEMMA LogOneMore ==
    ASSUME GoodRepository(repo), NEW n \in Nat, NEW f, Logs(n, f)
    PROVE  Logs(n + 1, [c \in Younger(n + 1) |-> LogFrom(f, c)])
<1> DEFINE g == [c \in Younger(n + 1) |-> LogFrom(f, c)]
<1>1. ASSUME NEW c \in Younger(n + 1), Parent(c) # NoCommit
      PROVE  Parent(c) \in Younger(n) /\ Parent(c) \in Younger(n + 1)
  <2>1. c \in Commits /\ AgeOf(repo)[c] < n + 1
    BY DEF Younger
  <2>2. Parent(c) \in Commits /\ AgeOf(repo)[Parent(c)] < AgeOf(repo)[c]
        /\ AgeOf(repo)[c] \in Nat /\ AgeOf(repo)[Parent(c)] \in Nat
    BY <1>1, <2>1, Ages
  <2> QED
    BY <2>1, <2>2 DEF Younger
<1>2. ASSUME NEW c \in Younger(n + 1), Parent(c) # NoCommit
      PROVE  g[Parent(c)] = f[Parent(c)]
  <2>1. g[Parent(c)] = LogFrom(f, Parent(c))
    BY <1>1, <1>2
  <2>2. f[Parent(c)] = LogFrom(f, Parent(c))
    BY <1>1, <1>2 DEF Logs
  <2> QED
    BY <2>1, <2>2
<1>3. ASSUME NEW c \in Younger(n + 1) PROVE LogFrom(g, c) = LogFrom(f, c)
  <2> HIDE DEF g
  <2> QED
    BY <1>2 DEF LogFrom
<1>4. g = [c \in Younger(n + 1) |-> LogFrom(g, c)]
  BY <1>3
<1> QED
  BY <1>4 DEF Logs

LEMMA LogsExist ==
    ASSUME GoodRepository(repo), NEW n \in Nat
    PROVE  \E f : Logs(n, f)
<1> DEFINE B == {k \in Nat : ~ \E f : Logs(k, f)}
<1>1. B \subseteq Nat
  OBVIOUS
<1>2. ASSUME B # {} PROVE FALSE
  <2> HIDE DEF B
  <2>1. PICK k \in B : \A m \in B : ~ (m < k)
    BY <1>1, <1>2, LeastNat
  <2>2. k \in Nat /\ ~ \E f : Logs(k, f)
    BY <2>1 DEF B
  <2>3. k # 0
    <3>1. Younger(0) = {}
      BY Ages DEF Younger
    <3>2. Logs(0, [c \in {} |-> <<>>])
      BY <3>1 DEF Logs
    <3> QED
      BY <2>2, <3>2
  <2>4. k - 1 \in Nat /\ k - 1 < k /\ k - 1 + 1 = k
    BY <2>2, <2>3
  <2>5. PICK f : Logs(k - 1, f)
    BY <2>1, <2>4 DEF B
  <2>6. Logs(k - 1 + 1, [c \in Younger(k - 1 + 1) |-> LogFrom(f, c)])
    BY <2>4, <2>5, LogOneMore
  <2> QED
    BY <2>2, <2>4, <2>6
<1> QED
  BY <1>2

\* The log of a commit is the commit, if it is listed, and the log of its parent.
LEMMA LogIs ==
    ASSUME GoodRepository(repo)
    PROVE  /\ Log = LogFunction[call.start]
           /\ \A c \in Commits : LogFunction[c] = Own(c) \o LogAfter(Parent(c))
           /\ \A c \in Commits : LogFunction[c] \in Seq(Commits)
<1>1. Log = LogFunction[call.start]
  BY DEF Log, LogFunction, LogFrom, Own, Parent
<1> DEFINE f == LogFunction
           n == Cardinality(Commits) + 1
<1>2. n \in Nat /\ Younger(n) = Commits
  BY Ages DEF Younger
<1>3. f = [c \in Commits |-> LogFrom(f, c)]
  <2>1. \E g : Logs(n, g)
    BY <1>2, LogsExist
  <2>2. \E g : g = [c \in Commits |-> LogFrom(g, c)]
    BY <1>2, <2>1 DEF Logs
  <2> QED
    BY <2>2 DEF LogFunction
<1> HIDE DEF f, n
<1>4. ASSUME NEW c \in Commits PROVE f[c] = Own(c) \o (IF Parent(c) = NoCommit THEN <<>> ELSE f[Parent(c)])
  BY <1>3 DEF LogFrom
<1>5. \A c \in Commits : f[c] = Own(c) \o LogAfter(Parent(c))
  BY <1>4 DEF LogAfter, f
<1>6. \A c \in Commits : Own(c) \in Seq(Commits)
  BY Singles DEF Own
<1>7. \A c \in Commits : f[c] \in Seq(Commits)
  <2> DEFINE T == {AgeOf(repo)[c] : c \in {c \in Commits : f[c] \notin Seq(Commits)}}
  <2>1. T \subseteq Nat
    BY Ages
  <2>2. ASSUME T # {} PROVE FALSE
    <3>1. PICK a \in T : \A b \in T : ~ (b < a)
      BY <2>1, <2>2, LeastNat
    <3>2. PICK c \in Commits : f[c] \notin Seq(Commits) /\ a = AgeOf(repo)[c]
      BY <3>1
    <3>3. ASSUME Parent(c) # NoCommit PROVE f[Parent(c)] \in Seq(Commits)
      <4>1. Parent(c) \in Commits /\ AgeOf(repo)[Parent(c)] < a
        BY <3>2, <3>3, Ages
      <4> QED
        BY <3>1, <4>1
    <3> DEFINE others == IF Parent(c) = NoCommit THEN <<>> ELSE f[Parent(c)]
    <3>4. others \in Seq(Commits)
      <4>1. <<>> \in Seq(Commits)
        BY Singles
      <4> QED
        BY <3>3, <4>1
    <3>5. f[c] = Own(c) \o others
      BY <1>4
    <3> HIDE DEF others, T
    <3>6. Own(c) \o others \in Seq(Commits)
      BY <1>6, <3>4, ConcatProperties
    <3> QED
      BY <3>2, <3>5, <3>6
  <2> QED
    BY <2>2
<1> QED
  BY <1>1, <1>5, <1>7 DEF f

-----------------------------------------------------------------------------
(***************************************************************************)
(* The filter of a path (commitAffectsPath).                               *)
(***************************************************************************)
LEMMA Beginnings ==
    ASSUME NEW p \in Seq(STRING), NEW q \in Seq(STRING), IsPrefix(p, q), NEW j \in 1 .. Len(p)
    PROVE  j \in 1 .. Len(q) /\ SubSeq(q, 1, j) = SubSeq(p, 1, j)
<1>1. p \in Seq(STRING) /\ q \in Seq(STRING) /\ Len(p) \in Nat /\ Len(q) \in Nat
  OBVIOUS
<1>2. Len(p) <= Len(q) /\ p = SubSeq(q, 1, Len(p))
  BY <1>1 DEF IsPrefix
<1>3. j \in 1 .. Len(q)
  BY <1>1, <1>2
<1>4. \A i \in 1 .. Len(p) : p[i] = q[i]
  <2>1. \A i \in 1 .. Len(p) : SubSeq(q, 1, Len(p))[i] = q[i]
    BY <1>1, <1>2
  <2> QED
    BY <1>2, <2>1
<1> DEFINE a == SubSeq(p, 1, j)
           b == SubSeq(q, 1, j)
<1>5. /\ a \in Seq(STRING) /\ Len(a) = j /\ \A i \in 1 .. j : a[i] = p[i]
      /\ b \in Seq(STRING) /\ Len(b) = j /\ \A i \in 1 .. j : b[i] = q[i]
  BY <1>1, <1>3
<1> HIDE DEF a, b
<1>6. a = b
  BY <1>1, <1>4, <1>5, SeqEqual
<1> QED
  BY <1>3, <1>6 DEF a, b

\* What is under a file is the file, and under a directory there is nothing at its own path.
LEMMA UnderIs ==
    ASSUME NEW tree, GoodTree(tree), NEW e \in tree
    PROVE  /\ e.type # "tree" => Under(tree, e.path) = {<<e.path, e.hash, e.mode>>}
           /\ e.type = "tree" => \A f \in Under(tree, e.path) : f[1] # e.path
<1>1. /\ e.path \in Seq(STRING) /\ Len(e.path) \in Nat /\ Len(e.path) # 0
      /\ SubSeq(e.path, 1, Len(e.path)) = e.path
  <2>1. e.path \in Seq(STRING) /\ e.path # <<>>
    BY Above DEF GoodTree
  <2>2. PICK q \in Seq(STRING) : q = e.path
    BY <2>1
  <2>3. Len(q) \in Nat /\ SubSeq(q, 1, Len(q)) = q /\ (Len(q) = 0 => q = <<>>)
    OBVIOUS
  <2> QED
    BY <2>1, <2>2, <2>3
<1>2. \A g \in tree : g.path = e.path => g = e
  BY DEF GoodTree
<1>3. ASSUME e.type # "tree", NEW g \in tree, IsPrefix(e.path, g.path) PROVE g.path = e.path
  <2>1. g.path \in Seq(STRING) /\ Len(g.path) \in Nat
    BY Above
  <2>2. Len(e.path) <= Len(g.path) /\ e.path = SubSeq(g.path, 1, Len(e.path))
    BY <1>1, <1>3, <2>1 DEF IsPrefix
  <2>3. CASE Len(e.path) = Len(g.path)
    BY <2>1, <2>2, <2>3
  <2>4. CASE Len(e.path) # Len(g.path)
    <3>1. Len(e.path) \in 1 .. Len(g.path) - 1
      BY <1>1, <2>1, <2>2, <2>4
    <3>2. PICK d \in tree : d.path = SubSeq(g.path, 1, Len(e.path)) /\ d.type = "tree"
      BY <3>1 DEF GoodTree
    <3> QED
      BY <1>2, <1>3, <2>2, <3>2
  <2> QED
    BY <2>3, <2>4
<1>4. IsPrefix(e.path, e.path)
  BY <1>1 DEF IsPrefix
<1>5. ASSUME e.type # "tree" PROVE Under(tree, e.path) = {<<e.path, e.hash, e.mode>>}
  <2>1. \A g \in tree : (g.type # "tree" /\ IsPrefix(e.path, g.path)) <=> g = e
    BY <1>2, <1>3, <1>4, <1>5
  <2> QED
    BY <2>1 DEF Under
<1>6. ASSUME e.type = "tree", NEW f \in Under(tree, e.path) PROVE f[1] # e.path
  <2>1. PICK g \in tree : g.type # "tree" /\ f = <<g.path, g.hash, g.mode>>
    BY DEF Under
  <2> QED
    BY <1>2, <1>6, <2>1
<1> QED
  BY <1>5, <1>6

\* The path of a call, where no commit has a submodule there.
NoSubmodule(c, path) == \A e \in EntriesAt(c, path) : e.type # "commit"

\* Where no part of the way is an error, the hash of a path tells whether something is there,
\* and there is something under it just when there is; where one is, it may be refused.
LEMMA HashForPathIs ==
    ASSUME GoodRepository(repo), NEW c \in Commits, NEW path \in Seq(STRING), path # <<>>
    PROVE  \/ \E e \in Entries(repo[c].tree) :
                e.path = Trimmed(path) /\ H!HashForPath(c, path) = e.hash
           \/ /\ H!HashForPath(c, path) = "nothing"
              /\ NoSubmodule(c, Trimmed(path)) => Under(repo[c].tree, Trimmed(path)) = {}
           \/ H!HashForPath(c, path) = "error" /\ Refusable(Trimmed(path))
<1> DEFINE tree == repo[c].tree
           names == Trimmed(path)
           n == Len(path)
           prefix(i) == SubSeq(names, 1, i)
           exists(i) == prefix(i) \in PathsOf(tree)
           ends == {i \in 1 .. n : \/ names[i] = "" \/ ~exists(i) \/ i = n
                                   \/ EntryAt(tree, prefix(i)).type # "tree"}
           j == H!Min(ends)
<1>0. /\ n \in Nat /\ n # 0 /\ names \in Seq(STRING) /\ Len(names) = n
      /\ SubSeq(names, 1, n) = names /\ DOMAIN names = 1 .. n
  <2>1. names \in Seq(STRING) /\ Len(names) = n /\ n # 0 /\ n \in Nat
    BY TrimIs, Singles
  <2> HIDE DEF names
  <2> QED
    BY <2>1
<1>1. n \in ends /\ ends \subseteq Nat
  <2>1. n \in 1 .. n /\ 1 .. n \subseteq Nat
    BY <1>0
  <2> HIDE DEF exists, prefix, tree, names
  <2> QED
    BY <2>1
<1>2. j \in ends
  <2> HIDE DEF ends
  <2>1. ends \subseteq Nat /\ ends # {}
    BY <1>1
  <2>2. PICK x \in ends : \A y \in ends : ~ (y < x)
    BY <2>1, LeastNat
  <2>3. \A y \in ends : x <= y
    BY <2>1, <2>2
  <2> QED
    BY <2>3 DEF H!Min
<1>3. GoodTree(tree) /\ Sound(tree)
  BY GoodIsSound DEF GoodRepository, Commits
<1>4. H!HashForPath(c, path) = IF names[j] = "" THEN "error"
                               ELSE IF ~exists(j) THEN "nothing"
                               ELSE IF j = n THEN EntryAt(tree, names).hash
                               ELSE "error"
  BY SameTrees DEF H!HashForPath
<1>9. names[j] # "" /\ exists(j) /\ j # n => EntryAt(tree, prefix(j)).type # "tree"
  BY <1>2
<1>10. j \in 1 .. n
  BY <1>2
<1> HIDE DEF j, names, n
<1>5. CASE names[j] = ""
  <2>1. j \in DOMAIN names
    BY <1>0, <1>10
  <2> QED
    BY <1>4, <1>5, <2>1 DEF names, Refusable
<1>6. CASE names[j] # "" /\ exists(j) /\ j = n
  <2>1. names \in PathsOf(tree)
    BY <1>0, <1>6
  <2>2. PICK e \in Entries(tree) : e.path = names
    BY <1>3, <2>1, EntryIs
  <2>3. EntryAt(tree, names) = e
    BY <1>3, <2>2, EntryIs
  <2> QED
    BY <1>4, <1>6, <2>2, <2>3 DEF names
<1>7. CASE names[j] # "" /\ ~ exists(j)
  <2>1. ASSUME NoSubmodule(c, names), NEW f \in Under(tree, names) PROVE FALSE
    <3>1. PICK e \in tree : e.type # "tree" /\ IsPrefix(names, e.path)
      BY DEF Under
    <3>2. e.path \in Seq(STRING) /\ \A k \in 1 .. Len(e.path) - 1 : SubSeq(e.path, 1, k) \in PathsOf(tree)
      BY <1>3, Above
    <3>3. PICK q \in Seq(STRING) : q = e.path
      BY <3>2
    <3>4. j \in 1 .. Len(q) /\ SubSeq(q, 1, j) = SubSeq(names, 1, j)
      BY <1>0, <1>10, <3>1, <3>3, Beginnings
    <3>5. CASE j # Len(q)
      <4>1. j \in 1 .. Len(q) - 1
        BY <3>3, <3>4, <3>5
      <4>2. SubSeq(q, 1, j) \in PathsOf(tree)
        BY <3>2, <3>3, <4>1
      <4> QED
        BY <1>7, <3>4, <4>2
    <3>6. CASE j = Len(q)
      <4>1. Len(names) <= Len(q) /\ SubSeq(q, 1, Len(q)) = q
        BY <1>0, <3>1, <3>3 DEF IsPrefix
      <4>2. Len(q) = Len(names)
        BY <1>0, <1>10, <3>6, <4>1
      <4>3. q = names
        BY <1>0, <3>4, <3>6, <4>1, <4>2
      <4>4. e \in EntriesAt(c, names)
        BY <3>3, <4>3 DEF EntriesAt
      <4>5. e.type # "commit"
        BY <2>1, <4>4 DEF NoSubmodule
      <4>6. names \in PathsOf(tree)
        BY <3>3, <4>3, <4>5 DEF PathsOf, Entries
      <4> QED
        BY <1>0, <1>7, <3>6, <4>2, <4>6
    <3> QED
      BY <3>5, <3>6
  <2> QED
    BY <1>4, <1>7, <2>1 DEF names
<1>8. CASE names[j] # "" /\ exists(j) /\ j # n
  <2>1. PICK e \in Entries(tree) : e.path = prefix(j)
    BY <1>3, <1>8, EntryIs
  <2>2. e.type # "tree"
    BY <1>3, <1>8, <1>9, <2>1, EntryIs
  <2>3. e \in EntriesAt(c, SubSeq(names, 1, j))
    BY <2>1 DEF EntriesAt, Entries
  <2>4. j \in 1 .. Len(names) - 1
    <3>1. j # n /\ Len(names) = n /\ n \in Nat
      BY <1>0, <1>8
    <3> QED
      BY <1>10, <3>1
  <2>5. Refusable(names)
    BY <2>2, <2>3, <2>4 DEF Refusable
  <2> QED
    BY <1>4, <1>8, <2>5 DEF names
<1> QED
  BY <1>5, <1>6, <1>7, <1>8

\* An error refuses what may be refused.
LEMMA ErrorIs ==
    ASSUME GoodRepository(repo), NEW c \in Commits, NEW path \in Seq(STRING), path # <<>>,
           H!HashForPath(c, path) = "error"
    PROVE  Refusable(Trimmed(path))
<1>1. \A e \in Entries(repo[c].tree) : e.hash # "error"
  BY DEF GoodRepository, GoodTree, Commits, Entries
<1> QED
  BY <1>1, HashForPathIs

\* Where the filters agree, they let through just the commits that the log lists.
Agree == SameTimes /\ SamePaths

LEMMA MatchesIs ==
    ASSUME Agree, GoodRepository(repo), NEW c \in Commits, call.path \in Seq(STRING),
           InTime(c) /\ call.path # <<>> => \A d \in H!Compared(c) : H!HashForPath(d, call.path) # "error"
    PROVE  H!Matches(c) <=> Listed(c)
<1> DEFINE path == call.path
           names == Trimmed(path)
           p == Parent(c)
           there(d) == \E e \in Entries(repo[d].tree) : e.path = names /\ H!HashForPath(d, path) = e.hash
           below(d) == Under(repo[d].tree, names)
<1>1. ASSUME InTime(c), path # <<>> PROVE H!AffectsPath(c, path) <=> Changed(c, names)
  <2>1. p # NoCommit => p \in Commits
    BY Ages
  <2>2. H!Compared(c) = IF p = NoCommit THEN {c} ELSE {p, c}
    BY SameTrees DEF H!Compared, Parent
  <2>3. ASSUME NEW d \in H!Compared(c)
        PROVE  there(d) \/ (H!HashForPath(d, path) = "nothing" /\ below(d) = {})
    <3>1. d \in Commits
      BY <2>1, <2>2
    <3>2. NoSubmodule(d, names)
      BY <3>1 DEF Agree, SamePaths, NoSubmodule
    <3> QED
      BY <1>1, <3>1, <3>2, HashForPathIs
  <2>4. ASSUME NEW d \in Commits, there(d)
        PROVE  H!HashForPath(d, path) # "nothing" /\ below(d) # {}
    BY <2>4 DEF GoodRepository, GoodTree, Commits, Entries
  <2>5. CASE p = NoCommit
    <3>1. H!AffectsPath(c, path) <=> H!HashForPath(c, path) # "nothing"
      BY <2>5, SameTrees DEF H!AffectsPath, Parent
    <3>2. Changed(c, names) <=> below(c) # {}
      BY <2>5 DEF Changed, Parent
    <3>3. c \in H!Compared(c)
      BY <2>2
    <3> QED
      BY <2>3, <2>4, <3>1, <3>2, <3>3
  <2>6. CASE p # NoCommit
    <3>1. H!AffectsPath(c, path) <=> H!HashForPath(p, path) # H!HashForPath(c, path)
      BY <2>6, SameTrees DEF H!AffectsPath, Parent
    <3>2. Changed(c, names) <=> below(c) # below(p)
      BY <2>6 DEF Changed, Parent
    <3>3. c \in H!Compared(c) /\ p \in H!Compared(c) /\ p \in Commits
      BY <2>1, <2>2, <2>6
    <3>4. ASSUME there(c), there(p)
          PROVE  H!HashForPath(p, path) = H!HashForPath(c, path) <=> below(c) = below(p)
      <4>1. PICK e \in Entries(repo[c].tree) : e.path = names /\ H!HashForPath(c, path) = e.hash
        BY <3>4
      <4>2. PICK f \in Entries(repo[p].tree) : f.path = names /\ H!HashForPath(p, path) = f.hash
        BY <3>4
      <4>3. /\ e \in repo[c].tree /\ f \in repo[p].tree
            /\ GoodTree(repo[c].tree) /\ GoodTree(repo[p].tree)
        BY <3>3 DEF Entries, GoodRepository, Commits
      <4>4. /\ e.type # "tree" => below(c) = {<<names, e.hash, e.mode>>}
            /\ e.type = "tree" => \A g \in below(c) : g[1] # names
            /\ f.type # "tree" => below(p) = {<<names, f.hash, f.mode>>}
            /\ f.type = "tree" => \A g \in below(p) : g[1] # names
        BY <4>1, <4>2, <4>3, UnderIs
      <4>5. e.type = "tree" /\ f.type = "tree" => (e.hash = f.hash <=> below(c) = below(p))
        BY <3>3, <4>1, <4>2, <4>3 DEF GoodRepository, HashesOfContents, Commits
      <4>6. e.hash = f.hash => (e.type = "tree" <=> f.type = "tree")
        BY <3>3, <4>3 DEF GoodRepository, HashesOfContents, Commits
      <4>7. e.type # "tree" /\ f.hash = e.hash => f.mode = e.mode
        <5>1. e \in EntriesAt(c, names) /\ f \in EntriesAt(p, names)
          BY <4>1, <4>2, <4>3 DEF EntriesAt
        <5> QED
          BY <2>6, <5>1 DEF Agree, SamePaths, Parent
      <4>8. <<names, e.hash, e.mode>>[1] = names /\ <<names, f.hash, f.mode>>[1] = names
        OBVIOUS
      <4>9. e.hash = f.hash <=> below(c) = below(p)
        <5> HIDE DEF below, names
        <5>1. CASE e.type = "tree" /\ f.type = "tree"
          BY <4>5, <5>1
        <5>2. CASE e.type # "tree" /\ f.type # "tree"
          <6>1. <<names, e.hash, e.mode>> = <<names, f.hash, f.mode>> <=> e.hash = f.hash
            BY <4>7, <5>2
          <6> QED
            BY <4>4, <5>2, <6>1
        <5>3. CASE e.type = "tree" /\ f.type # "tree"
          <6>1. <<names, f.hash, f.mode>> \notin below(c)
            BY <4>4, <4>8, <5>3
          <6> QED
            BY <4>4, <4>6, <5>3, <6>1
        <5>4. CASE e.type # "tree" /\ f.type = "tree"
          <6>1. <<names, e.hash, e.mode>> \notin below(p)
            BY <4>4, <4>8, <5>4
          <6> QED
            BY <4>4, <4>6, <5>4, <6>1
        <5> QED
          BY <5>1, <5>2, <5>3, <5>4
      <4> HIDE DEF below
      <4> QED
        BY <4>1, <4>2, <4>9
    <3> HIDE DEF there, below
    <3> QED
      BY <2>3, <2>4, <3>1, <3>2, <3>3, <3>4
  <2> QED
    BY <2>5, <2>6
<1>2. InTime(c) <=> CreatedInTime(c)
  BY DEF Agree, SameTimes
<1> QED
  BY <1>1, <1>2, SameTrees DEF H!Matches, Listed

-----------------------------------------------------------------------------
(***************************************************************************)
(* The walk and the pages.                                                 *)
(***************************************************************************)
\* A piece of a sequence, and the next.
LEMMA TwoPieces ==
    ASSUME NEW S, NEW s \in Seq(S), NEW m \in 0 .. Len(s), NEW n \in m .. Len(s)
    PROVE  SubSeq(s, 1, m) \o SubSeq(s, m + 1, n) = SubSeq(s, 1, n)
<1>1. s \in Seq(S) /\ Len(s) \in Nat /\ m \in Nat /\ n \in Nat /\ m <= n /\ n <= Len(s)
  OBVIOUS
<1> DEFINE a == SubSeq(s, 1, m)
           b == SubSeq(s, m + 1, n)
           c == SubSeq(s, 1, n)
<1>2. /\ a \in Seq(S) /\ Len(a) = m /\ \A i \in 1 .. m : a[i] = s[i]
      /\ b \in Seq(S) /\ Len(b) = n - m /\ \A i \in 1 .. n - m : b[i] = s[m + i]
      /\ c \in Seq(S) /\ Len(c) = n /\ \A i \in 1 .. n : c[i] = s[i]
  BY <1>1
<1> HIDE DEF a, b, c
<1>3. a \o b \in Seq(S) /\ Len(a \o b) = n
  <2>1. a \o b \in Seq(S) /\ Len(a \o b) = Len(a) + Len(b)
    BY <1>2, ConcatProperties
  <2>2. m + (n - m) = n
    BY <1>1
  <2> QED
    BY <1>2, <2>1, <2>2
<1>4. ASSUME NEW i \in 1 .. n PROVE (a \o b)[i] = c[i]
  <2>1. CASE i <= m
    BY <1>1, <1>2, <2>1
  <2>2. CASE ~ (i <= m)
    <3>1. i - m \in 1 .. n - m /\ m + (i - m) = i
      BY <1>1, <2>2
    <3>2. (a \o b)[i] = b[i - m]
      BY <1>1, <1>2, <2>2
    <3> QED
      BY <1>2, <3>1, <3>2
  <2> QED
    BY <2>1, <2>2
<1>5. a \o b = c
  BY <1>2, <1>3, <1>4, SeqEqual
<1> QED
  BY <1>5 DEF a, b, c

\* A piece of a beginning is a piece of the whole.
LEMMA PieceOfBoth ==
    ASSUME NEW S, NEW a \in Seq(S), NEW b \in Seq(S),
           NEW m \in 0 .. Len(a), NEW n \in m .. Len(a)
    PROVE  /\ SubSeq(a, m + 1, n) = SubSeq(a \o b, m + 1, n)
           /\ Len(a) <= Len(a \o b)
<1>1. /\ a \in Seq(S) /\ b \in Seq(S) /\ Len(a) \in Nat /\ Len(b) \in Nat /\ m \in Nat /\ n \in Nat
      /\ m <= n /\ n <= Len(a)
  OBVIOUS
<1> DEFINE s == a \o b
           c == SubSeq(a, m + 1, n)
           d == SubSeq(s, m + 1, n)
<1>2. s \in Seq(S) /\ Len(s) = Len(a) + Len(b) /\ \A i \in 1 .. Len(a) : s[i] = a[i]
  BY <1>1, ConcatProperties
<1> HIDE DEF s
<1>3. /\ c \in Seq(S) /\ Len(c) = n - m /\ \A i \in 1 .. n - m : c[i] = a[m + i]
  BY <1>1
<1>4. /\ d \in Seq(S) /\ Len(d) = n - m /\ \A i \in 1 .. n - m : d[i] = s[m + i]
  BY <1>1, <1>2
<1> HIDE DEF c, d
<1>5. \A i \in 1 .. n - m : m + i \in 1 .. Len(a)
  BY <1>1
<1>6. \A i \in 1 .. n - m : c[i] = d[i]
  BY <1>2, <1>3, <1>4, <1>5
<1>7. c = d
  BY <1>3, <1>4, <1>6, SeqEqual
<1>8. Len(a) <= Len(s)
  BY <1>1, <1>2
<1> QED
  BY <1>7, <1>8 DEF c, d, s

Upto(k, s) == IF k <= Len(s) THEN k ELSE Len(s)

\* The next page: what the walk has found beyond those before.
LEMMA NextPage ==
    ASSUME NEW log \in Seq(Commits), NEW ahead \in Seq(Commits), commitObjs \in Seq(Commits),
           commitObjs \o ahead = log, H!Skip \in Nat, H!PerPage \in Nat \ {0},
           Len(commitObjs) >= H!Skip + H!PerPage \/ ahead = <<>>,
           NEW commits,
           commits = IF H!Skip >= Len(commitObjs) THEN <<>>
                     ELSE SubSeq(commitObjs, H!Skip + 1, H!Min({H!Skip + H!PerPage, Len(commitObjs)}))
    PROVE  /\ SubSeq(log, 1, Upto(H!Skip, log)) \o commits = SubSeq(log, 1, Upto(H!Skip + H!PerPage, log))
           /\ commits = <<>> => SubSeq(log, 1, Upto(H!Skip + H!PerPage, log)) = log
<1> DEFINE found == commitObjs
           skip == H!Skip
           size == H!PerPage
           n == Len(found)
           upto(k) == Upto(k, log)
           e == IF skip + size <= n THEN skip + size ELSE n
<1>1. /\ n \in Nat /\ Len(log) \in Nat /\ Len(ahead) \in Nat /\ Len(log) = n + Len(ahead)
      /\ skip \in Nat /\ size \in Nat /\ size # 0
  BY ConcatProperties
<1>2. H!Min({skip + size, n}) = e
  BY <1>1 DEF H!Min
<1>3. SubSeq(log, 1, Len(log)) = log
  OBVIOUS
<1>4. n >= skip + size \/ Len(log) = n
  <2>1. ahead = <<>> => Len(ahead) = 0
    OBVIOUS
  <2> QED
    BY <1>1, <2>1
<1>5. CASE skip >= n
  <2>1. Len(log) = n /\ upto(skip) = Len(log) /\ upto(skip + size) = Len(log)
    BY <1>1, <1>4, <1>5 DEF Upto
  <2>2. commits = <<>> /\ log \o <<>> = log
    BY <1>5
  <2> QED
    BY <1>3, <2>1, <2>2
<1>6. CASE ~ (skip >= n)
  <2>1. upto(skip) = skip /\ skip \in 0 .. n /\ e \in skip .. n /\ e # skip /\ upto(skip + size) = e
    BY <1>1, <1>4, <1>6 DEF Upto
  <2>2. commits = SubSeq(found, skip + 1, e)
    BY <1>2, <1>6
  <2>3. SubSeq(found, skip + 1, e) = SubSeq(log, skip + 1, e)
    BY <2>1, PieceOfBoth
  <2>4. skip \in 0 .. Len(log) /\ e \in skip .. Len(log)
    BY <1>1, <2>1
  <2>5. SubSeq(log, 1, skip) \o SubSeq(log, skip + 1, e) = SubSeq(log, 1, e)
    BY <2>4, TwoPieces
  <2>6. commits # <<>>
    <3>1. Len(SubSeq(found, skip + 1, e)) = e - skip
      BY <1>1, <2>1
    <3>2. e - skip # 0
      BY <1>1, <2>1
    <3>3. Len(commits) # 0
      BY <2>2, <3>1, <3>2
    <3> QED
      BY <3>3
  <2> HIDE DEF e
  <2> QED
    BY <2>1, <2>2, <2>3, <2>5, <2>6
<1> QED
  BY <1>5, <1>6

-----------------------------------------------------------------------------
\* Between two commits the walk has found what is listed before the next one, and knows the
\* children of that one only; a page that is done leaves the first commits of the log.  It is
\* so where the filters agree.
Ahead(c) == Agree => commitObjs \o LogAfter(c) = Log
Walking ==
    call.op = "list" =>
        /\ page \in Nat \ {0}
        /\ Agree => pages = SubSeq(Log, 1, Upto((page - 1) * H!PerPage, Log))
        /\ Agree /\ result = "ok" => pages = Log
        /\ result = "path refused" => Refusable(Trimmed(call.path))
        /\ pc \in {"walk", "filter"} => commitObjs \in Seq(Commits) /\ visited \subseteq Commits
        /\ pc = "walk" =>
            \/ queue = <<>> /\ Ahead(NoCommit)
            \/ \E c \in Commits :
                /\ queue = <<c>> /\ Ahead(c)
                /\ \A v \in visited : AgeOf(repo)[c] < AgeOf(repo)[v]
        /\ pc = "filter" =>
            /\ queue = <<>> /\ current \in Commits /\ Ahead(current)
            /\ \A v \in visited : AgeOf(repo)[current] <= AgeOf(repo)[v]

\* What a caller asks for.
LEMMA Listing ==
    ASSUME H!PageAssumption, H!CallsAssumption, OnCourse, call.op = "list"
    PROVE  /\ GoodRepository(repo) /\ call.start \in Commits /\ call.path \in Seq(STRING)
           /\ H!PerPage \in Nat \ {0} /\ Log \in Seq(Commits)
<1>1. call \in Reads /\ GoodRepository(call.repo) /\ call.start \in DOMAIN call.repo
      /\ call.perPage \in Int /\ call.path \in Seq(STRING)
  BY SameRepositories DEF OnCourse, H!CallsAssumption
<1>2. GoodRepository(repo) /\ call.start \in Commits
  BY <1>1 DEF repo, Commits
<1>3. H!PerPage \in Nat \ {0}
  BY <1>1 DEF H!PerPage, H!PageAssumption
<1>4. Log \in Seq(Commits)
  BY <1>2, LogIs
<1> QED
  BY <1>1, <1>2, <1>3, <1>4

\* The call never changes, and so neither does what it asks for.
LEMMA SameCall ==
    ASSUME call' = call
    PROVE  /\ repo' = repo /\ Commits' = Commits /\ Log' = Log /\ H!PerPage' = H!PerPage
           /\ \A c : LogAfter(c)' = LogAfter(c)
           /\ Agree' = Agree /\ Refusable(Trimmed(call.path))' = Refusable(Trimmed(call.path))
<1>1. repo' = repo /\ Commits' = Commits /\ H!PerPage' = H!PerPage
  BY DEF repo, Commits, H!PerPage
<1>2. \A c : Listed(c)' = Listed(c)
  BY <1>1 DEF Listed, CreatedInTime, Changed, Under, Trimmed
<1>3. \A c : Own(c)' = Own(c) /\ Parent(c)' = Parent(c)
  BY <1>1, <1>2 DEF Own, Parent
<1>4. LogFunction' = LogFunction
  BY <1>1, <1>3 DEF LogFunction, LogFrom
<1>5. Log = LogFunction[call.start] /\ Log' = LogFunction'[call'.start]
  BY DEF Log, LogFunction, LogFrom, Own, Parent
<1>6. \A c, p : EntriesAt(c, p)' = EntriesAt(c, p)
  BY <1>1 DEF EntriesAt
<1>7. \A c : InTime(c)' = InTime(c) /\ CreatedInTime(c)' = CreatedInTime(c)
  BY <1>1 DEF InTime, CreatedInTime
<1>8. Trimmed(call.path)' = Trimmed(call.path)
  BY DEF Trimmed
<1>9. SameTimes' = SameTimes
  BY <1>1, <1>7 DEF SameTimes
<1>10. SamePaths' = SamePaths
  BY <1>1, <1>6, <1>8 DEF SamePaths
<1>11. Refusable(Trimmed(call.path))' = Refusable(Trimmed(call.path))
  BY <1>1, <1>6, <1>8 DEF Refusable
<1> QED
  BY <1>1, <1>4, <1>5, <1>9, <1>10, <1>11 DEF LogAfter, Agree

LEMMA StartWalking ==
    ASSUME H!PageAssumption, H!CallsAssumption, OnCourse, Walking, H!ListCommits
    PROVE  Walking'
<1>1. /\ pc = "list" /\ pc' = "walk" /\ queue' = <<call.start>> /\ visited' = {} /\ commitObjs' = <<>>
      /\ UNCHANGED <<call, page, pages, result>> /\ call.op = "list" /\ result = "none"
  BY DEF H!ListCommits, H!paging, OnCourse
<1>2. GoodRepository(repo) /\ call.start \in Commits /\ Log \in Seq(Commits)
  BY <1>1, Listing
<1>3. LogAfter(call.start) = Log
  BY <1>2, LogIs, Ages DEF LogAfter
<1>4. /\ repo' = repo /\ Commits' = Commits /\ Log' = Log /\ H!PerPage' = H!PerPage
      /\ \A c : LogAfter(c)' = LogAfter(c)
      /\ Agree' = Agree /\ Refusable(Trimmed(call.path))' = Refusable(Trimmed(call.path))
  BY <1>1, SameCall
<1>5. <<>> \o Log = Log /\ <<>> \in Seq(Commits)
  BY <1>2
<1>6. PICK c \in Commits : c = call.start
  BY <1>2
<1>7. Ahead(c)'
  BY <1>1, <1>3, <1>4, <1>5, <1>6 DEF Ahead
<1> QED
  BY <1>1, <1>4, <1>5, <1>6, <1>7 DEF Walking, Upto

LEMMA VisitNext ==
    ASSUME H!PageAssumption, H!CallsAssumption, OnCourse, Walking, H!Visit
    PROVE  Walking'
<1>1. /\ pc = "walk" /\ queue # <<>> /\ queue' = Tail(queue) /\ call.op = "list"
      /\ UNCHANGED <<call, page, pages, commitObjs>> /\ result = "none"
  BY DEF H!Visit, H!paging, OnCourse
<1>2. GoodRepository(repo)
  BY <1>1, Listing
<1>3. PICK c \in Commits : queue = <<c>> /\ Ahead(c) /\ \A v \in visited : AgeOf(repo)[c] < AgeOf(repo)[v]
  BY <1>1 DEF Walking
<1>4. AgeOf(repo)[c] \in Nat /\ visited \subseteq Commits /\ \A v \in visited : AgeOf(repo)[v] \in Nat
  BY <1>1, <1>2, Ages DEF Walking
<1>5. c \notin visited /\ Head(queue) = c /\ Tail(queue) = <<>>
  BY <1>3, <1>4
<1>6. \/ pc' = "filter" /\ visited' = visited \cup {c} /\ current' = c /\ result' = result
      \/ pc' = "done" /\ result' = "error"
  BY <1>1, <1>5 DEF H!Visit, H!Return
<1>7. /\ repo' = repo /\ Commits' = Commits /\ Log' = Log /\ H!PerPage' = H!PerPage
      /\ \A d : LogAfter(d)' = LogAfter(d)
      /\ Agree' = Agree /\ Refusable(Trimmed(call.path))' = Refusable(Trimmed(call.path))
  BY <1>1, SameCall
<1>8. Ahead(c)'
  BY <1>1, <1>3, <1>7 DEF Ahead
<1>9. CASE pc' = "filter" /\ visited' = visited \cup {c} /\ current' = c /\ result' = result
  <2>1. \A v \in visited' : AgeOf(repo')[c] <= AgeOf(repo')[v]
    <3>1. \A v \in visited : AgeOf(repo)[c] < AgeOf(repo)[v]
      BY <1>3
    <3>2. AgeOf(repo)[c] <= AgeOf(repo)[c]
      BY <1>4
    <3>3. ASSUME NEW v \in visited PROVE AgeOf(repo)[c] <= AgeOf(repo)[v]
      BY <1>4, <3>1
    <3> QED
      BY <1>7, <1>9, <3>2, <3>3
  <2>2. Ahead(current)'
    BY <1>8, <1>9 DEF Ahead
  <2> QED
    BY <1>1, <1>4, <1>5, <1>7, <1>9, <2>1, <2>2 DEF Walking, Upto
<1>10. CASE pc' = "done" /\ result' = "error"
  BY <1>1, <1>7, <1>10 DEF Walking, Upto
<1> QED
  BY <1>6, <1>9, <1>10

LEMMA FilterOne ==
    ASSUME H!PageAssumption, H!CallsAssumption, OnCourse, Walking, H!Filter
    PROVE  Walking'
<1>1. /\ pc = "filter" /\ call.op = "list" /\ result = "none"
      /\ UNCHANGED <<call, page, pages, visited, current>>
  BY DEF H!Filter, H!paging, OnCourse
<1>2. /\ GoodRepository(repo) /\ call.path \in Seq(STRING) /\ Log \in Seq(Commits)
  BY <1>1, Listing
<1>3. /\ queue = <<>> /\ current \in Commits /\ Ahead(current) /\ commitObjs \in Seq(Commits)
      /\ \A v \in visited : AgeOf(repo)[current] <= AgeOf(repo)[v] /\ v \in Commits
  BY <1>1 DEF Walking
<1>4. /\ repo' = repo /\ Commits' = Commits /\ Log' = Log /\ H!PerPage' = H!PerPage
      /\ \A d : LogAfter(d)' = LogAfter(d)
      /\ Agree' = Agree /\ Refusable(Trimmed(call.path))' = Refusable(Trimmed(call.path))
  BY <1>1, SameCall
<1>5. \/ /\ pc' = "done"
         /\ \/ result' = "error"
            \/ /\ result' = "path refused" /\ call.path # <<>>
               /\ \E d \in H!Compared(current) : H!HashForPath(d, call.path) = "error"
      \/ /\ pc' = "walk" /\ UNCHANGED result
         /\ commitObjs' = IF H!Matches(current) THEN Append(commitObjs, current) ELSE commitObjs
         /\ queue' = IF Parent(current) = NoCommit THEN queue ELSE Append(queue, Parent(current))
         /\ InTime(current) /\ call.path # <<>> =>
                \A d \in H!Compared(current) : H!HashForPath(d, call.path) # "error"
  BY SameTrees DEF H!Filter, H!Return, Parent
<1>6. CASE /\ pc' = "done"
           /\ \/ result' = "error"
              \/ /\ result' = "path refused" /\ call.path # <<>>
                 /\ \E d \in H!Compared(current) : H!HashForPath(d, call.path) = "error"
  <2>1. H!Compared(current) \subseteq Commits
    BY <1>2, <1>3, Ages, SameTrees DEF H!Compared, Parent
  <2>2. result' = "path refused" => Refusable(Trimmed(call.path))
    BY <1>2, <1>6, <2>1, ErrorIs
  <2> QED
    BY <1>1, <1>4, <1>6, <2>2 DEF Walking, Upto
<1>7. CASE /\ pc' = "walk" /\ UNCHANGED result
           /\ commitObjs' = IF H!Matches(current) THEN Append(commitObjs, current) ELSE commitObjs
           /\ queue' = IF Parent(current) = NoCommit THEN queue ELSE Append(queue, Parent(current))
           /\ InTime(current) /\ call.path # <<>> =>
                  \A d \in H!Compared(current) : H!HashForPath(d, call.path) # "error"
  <2> DEFINE c == current
             p == Parent(c)
  <2>1. Agree => (H!Matches(c) <=> Listed(c))
    BY <1>2, <1>3, <1>7, MatchesIs
  <2>2. Agree => commitObjs' = commitObjs \o Own(c)
    <3>1. commitObjs \o <<>> = commitObjs /\ Append(commitObjs, c) = commitObjs \o <<c>>
      BY <1>3
    <3> QED
      BY <1>7, <2>1, <3>1 DEF Own
  <2>3. p # NoCommit => p \in Commits /\ AgeOf(repo)[p] < AgeOf(repo)[c]
    BY <1>2, <1>3, Ages
  <2>4. LogAfter(p) \in Seq(Commits) /\ Own(c) \in Seq(Commits)
    <3>1. <<>> \in Seq(Commits) /\ <<c>> \in Seq(Commits)
      BY <1>3, Singles
    <3>2. p # NoCommit => LogFunction[p] \in Seq(Commits)
      BY <1>2, <2>3, LogIs
    <3> HIDE DEF c, p
    <3> QED
      BY <3>1, <3>2 DEF LogAfter, Own
  <2>5. LogAfter(c) = Own(c) \o LogAfter(p)
    <3>1. c # NoCommit
      BY <1>2, <1>3, Ages
    <3> QED
      BY <1>2, <1>3, <3>1, LogIs DEF LogAfter
  <2>6. Agree => (commitObjs \o Own(c)) \o LogAfter(p) = Log
    <3>1. (commitObjs \o Own(c)) \o LogAfter(p) = commitObjs \o (Own(c) \o LogAfter(p))
      BY <1>3, <2>4, ConcatAssociative
    <3> QED
      BY <1>3, <2>5, <3>1 DEF Ahead
  <2>7. commitObjs' \in Seq(Commits)
    BY <1>3, <1>7
  <2>8. PICK q : q = p
    OBVIOUS
  <2>9. Ahead(q)'
    BY <1>4, <2>2, <2>6, <2>8 DEF Ahead
  <2>10. CASE q = NoCommit
    <3>1. queue' = <<>> /\ Ahead(NoCommit)'
      BY <1>3, <1>7, <2>8, <2>9, <2>10 DEF Ahead
    <3> QED
      BY <1>1, <1>3, <1>4, <1>7, <2>7, <3>1 DEF Walking, Upto
  <2>11. CASE q # NoCommit
    <3>1. queue' = <<q>>
      BY <1>3, <1>7, <2>8, <2>11
    <3>2. q \in Commits /\ \A v \in visited : AgeOf(repo)[q] < AgeOf(repo)[v]
      <4>1. q \in Commits /\ AgeOf(repo)[q] < AgeOf(repo)[c]
        BY <2>3, <2>8, <2>11
      <4>2. AgeOf(repo)[c] \in Nat /\ AgeOf(repo)[q] \in Nat
        BY <1>2, <1>3, <4>1, Ages
      <4>3. ASSUME NEW v \in visited PROVE AgeOf(repo)[q] < AgeOf(repo)[v]
        <5>1. AgeOf(repo)[c] <= AgeOf(repo)[v] /\ AgeOf(repo)[v] \in Nat
          BY <1>2, <1>3, Ages
        <5> QED
          BY <4>1, <4>2, <5>1
      <4> QED
        BY <4>1, <4>3
    <3> QED
      BY <1>1, <1>3, <1>4, <1>7, <2>7, <2>9, <3>1, <3>2 DEF Walking, Upto
  <2> QED
    BY <2>10, <2>11
<1> QED
  BY <1>5, <1>6, <1>7

LEMMA TurnPage ==
    ASSUME H!PageAssumption, H!CallsAssumption, OnCourse, Walking, H!EndWalk
    PROVE  Walking'
<1> DEFINE n == Len(commitObjs)
           commits == IF H!Skip >= n THEN <<>>
                      ELSE SubSeq(commitObjs, H!Skip + 1, H!Min({H!Skip + H!PerPage, n}))
<1>1. /\ pc = "walk" /\ call.op = "list" /\ result = "none" /\ UNCHANGED call
      /\ queue = <<>> \/ n >= H!Skip + H!PerPage
      /\ pages' = pages \o commits /\ page' = page + 1
      /\ IF commits = <<>> THEN pc' = "done" /\ result' = "ok" ELSE pc' = "list" /\ UNCHANGED result
  BY DEF H!EndWalk, H!Return, OnCourse
<1>2. /\ GoodRepository(repo) /\ Log \in Seq(Commits) /\ H!PerPage \in Nat \ {0}
  BY <1>1, Listing
<1>3. /\ page \in Nat \ {0} /\ commitObjs \in Seq(Commits)
      /\ Agree => pages = SubSeq(Log, 1, Upto(H!Skip, Log))
  BY <1>1 DEF Walking, H!Skip
<1>4. /\ repo' = repo /\ Commits' = Commits /\ Log' = Log /\ H!PerPage' = H!PerPage
      /\ Agree' = Agree /\ Refusable(Trimmed(call.path))' = Refusable(Trimmed(call.path))
  BY <1>1, SameCall
<1>5. H!Skip \in Nat /\ (page + 1 - 1) * H!PerPage = H!Skip + H!PerPage
  <2>1. page - 1 \in Nat
    BY <1>3
  <2>2. PICK m \in Nat : m = page - 1
    BY <2>1
  <2>3. \A a, b \in Nat : a * b \in Nat /\ (a + 1) * b = a * b + b
    OBVIOUS
  <2>4. page + 1 - 1 = m + 1
    BY <1>3, <2>2
  <2> QED
    BY <1>2, <2>2, <2>3, <2>4 DEF H!Skip
<1>6. Agree => \E ahead \in Seq(Commits) : commitObjs \o ahead = Log /\ (queue = <<>> => ahead = <<>>)
  <2> SUFFICES ASSUME Agree
               PROVE  \E ahead \in Seq(Commits) : commitObjs \o ahead = Log /\ (queue = <<>> => ahead = <<>>)
    OBVIOUS
  <2>1. CASE queue = <<>>
    <3>1. commitObjs \o <<>> = Log
      BY <1>1, <2>1 DEF Walking, Ahead, LogAfter
    <3>2. <<>> \in Seq(Commits)
      BY Singles
    <3> QED
      BY <2>1, <3>1, <3>2
  <2>2. CASE queue # <<>>
    <3>1. PICK c \in Commits : Ahead(c)
      BY <1>1, <2>2 DEF Walking
    <3>2. LogAfter(c) \in Seq(Commits)
      BY <1>2, LogIs, Ages DEF LogAfter
    <3> QED
      BY <2>2, <3>1, <3>2 DEF Ahead
  <2> QED
    BY <2>1, <2>2
<1> HIDE DEF commits
<1>7. ASSUME Agree
      PROVE  /\ pages \o commits = SubSeq(Log, 1, Upto(H!Skip + H!PerPage, Log))
             /\ commits = <<>> => SubSeq(Log, 1, Upto(H!Skip + H!PerPage, Log)) = Log
  <2>0. PICK ahead \in Seq(Commits) : commitObjs \o ahead = Log /\ (queue = <<>> => ahead = <<>>)
    BY <1>6, <1>7
  <2>1. Len(commitObjs) >= H!Skip + H!PerPage \/ ahead = <<>>
    BY <1>1, <2>0
  <2>2. commits = IF H!Skip >= Len(commitObjs) THEN <<>>
                  ELSE SubSeq(commitObjs, H!Skip + 1, H!Min({H!Skip + H!PerPage, Len(commitObjs)}))
    BY DEF commits
  <2> QED
    <3>1. /\ Log \in Seq(Commits) /\ commitObjs \in Seq(Commits) /\ ahead \in Seq(Commits)
          /\ commitObjs \o ahead = Log /\ H!Skip \in Nat /\ H!PerPage \in Nat \ {0}
      BY <1>2, <1>3, <1>5, <2>0
    <3>2. /\ SubSeq(Log, 1, Upto(H!Skip, Log)) \o commits = SubSeq(Log, 1, Upto(H!Skip + H!PerPage, Log))
          /\ commits = <<>> => SubSeq(Log, 1, Upto(H!Skip + H!PerPage, Log)) = Log
      BY <2>1, <2>2, <3>1, NextPage
    <3> QED
      BY <1>3, <1>7, <3>2
<1>8. (Agree => pages' = SubSeq(Log, 1, Upto((page' - 1) * H!PerPage, Log))) /\ page' \in Nat \ {0}
  <2>1. page' = page + 1 /\ page' - 1 = page + 1 - 1 /\ page' \in Nat \ {0}
    BY <1>1, <1>3
  <2>2. (page' - 1) * H!PerPage = H!Skip + H!PerPage
    BY <1>5, <2>1
  <2> QED
    BY <1>1, <1>7, <2>1, <2>2
<1>9. Agree /\ result' = "ok" => pages' = Log
  BY <1>1, <1>7
<1>10. Upto((page - 1) * H!PerPage, Log)' = Upto((page' - 1) * H!PerPage, Log)
  BY <1>4 DEF Upto
<1> QED
  BY <1>1, <1>4, <1>8, <1>9, <1>10 DEF Walking

LEMMA WalkingStep ==
    ASSUME H!PageAssumption, H!CallsAssumption, OnCourse, Walking, [H!Next]_(H!vars)
    PROVE  Walking'
<1>1. CASE H!ListCommits
  BY <1>1, StartWalking
<1>2. CASE H!Visit
  BY <1>2, VisitNext
<1>3. CASE H!Filter
  BY <1>3, FilterOne
<1>4. CASE H!EndWalk
  BY <1>4, TurnPage
<1>5. CASE call' = call /\ call.op # "list"
  BY <1>5 DEF Walking
<1>6. CASE UNCHANGED <<pc, call, page, pages, result, commitObjs, queue, visited, current>>
  <2>1. /\ repo' = repo /\ Commits' = Commits /\ Log' = Log /\ H!PerPage' = H!PerPage
        /\ \A d : LogAfter(d)' = LogAfter(d)
        /\ Agree' = Agree /\ Refusable(Trimmed(call.path))' = Refusable(Trimmed(call.path))
    BY <1>6, SameCall
  <2>2. \A c : Ahead(c)' <=> Ahead(c)
    BY <1>6, <2>1 DEF Ahead
  <2>3. Ahead(current)' <=> Ahead(current)
    BY <1>6, <2>1 DEF Ahead
  <2> QED
    BY <1>6, <2>1, <2>2, <2>3 DEF Walking, Upto
<1>7. ASSUME H!Next
      PROVE  \/ H!ListCommits \/ H!Visit \/ H!Filter \/ H!EndWalk
             \/ call' = call /\ call.op # "list"
             \/ UNCHANGED <<pc, call, page, pages, result, commitObjs, queue, visited, current>>
  BY <1>7 DEF H!Next, H!Step, H!GetCommit, H!ScanObject, H!EndScan, H!ByPathCall, H!Descend, H!GetObject,
      H!CompareCommits, H!GetFlatTree, H!Send, H!Receive, H!Receiver, H!Return, H!Evict, OnCourse,
      H!paging, H!walk
<1> QED
  BY <1>1, <1>2, <1>3, <1>4, <1>5, <1>6, <1>7 DEF H!vars, H!paging, H!walk

\* Where the filters of the code and of the docs agree, the pages are the log: every commit
\* that git log names, once and in order; and a path is refused only for what it is.  It is
\* so for any repositories, sizes of pages, storages that forget and failures of fetches.
THEOREM PagesRight == H!PageAssumption /\ H!CallsAssumption => (H!Spec => []PagesAreTheLog)
<1> SUFFICES ASSUME H!PageAssumption, H!CallsAssumption PROVE H!Spec => []PagesAreTheLog
  OBVIOUS
<1> DEFINE I == OnCourse /\ Walking
<1>1. H!Init => I
  <2> SUFFICES ASSUME H!Init PROVE I
    OBVIOUS
  <2>1. OnCourse
    BY DEF H!Init, OnCourse, H!CallsAssumption
  <2>2. ASSUME call.op = "list" PROVE <<>> = SubSeq(Log, 1, Upto((1 - 1) * H!PerPage, Log))
    <3>1. H!PerPage \in Nat /\ Log \in Seq(Commits)
      BY <2>1, <2>2, Listing
    <3>2. (1 - 1) * H!PerPage = 0 /\ Len(Log) \in Nat
      BY <3>1
    <3>3. Upto(0, Log) = 0
      BY <3>2 DEF Upto
    <3>4. SubSeq(Log, 1, 0) = <<>>
      BY <3>1
    <3> QED
      BY <3>2, <3>3, <3>4
  <2> QED
    BY <2>1, <2>2 DEF H!Init, Walking
<1>2. I /\ [H!Next]_(H!vars) => I'
  BY OnCourseStep, WalkingStep
<1>3. I => PagesAreTheLog
  <2> SUFFICES ASSUME I, call.op = "list", Agree
               PROVE  IsPrefix(pages, Log) /\ (result = "ok" => pages = Log)
    BY DEF PagesAreTheLog, Walking, Agree
  <2>1. Log \in Seq(Commits) /\ H!PerPage \in Nat /\ page \in Nat \ {0}
    BY Listing DEF Walking
  <2>2. PICK k : k = Upto((page - 1) * H!PerPage, Log)
    OBVIOUS
  <2>3. k \in 0 .. Len(Log)
    <3>1. Len(Log) \in Nat /\ (page - 1) * H!PerPage \in Nat
      BY <2>1
    <3> QED
      BY <2>2, <3>1 DEF Upto
  <2>4. pages = SubSeq(Log, 1, k)
    BY <2>2 DEF Walking
  <2>5. Len(pages) = k
    BY <2>1, <2>3, <2>4
  <2>6. SubSeq(pages, 1, Len(pages)) = pages
    BY <2>1, <2>3, <2>4
  <2>7. IsPrefix(pages, Log)
    BY <2>1, <2>3, <2>4, <2>5, <2>6 DEF IsPrefix
  <2> QED
    BY <2>7 DEF Walking
<1> QED
  BY <1>1, <1>2, <1>3, PTL DEF H!Spec

-----------------------------------------------------------------------------
(***************************************************************************)
(* TreeCollection.                                                         *)
(***************************************************************************)
USE TreesAssumption, NumbersAssumption, FaultsAssumption

(***************************************************************************)
(* Sequences, and the trees a walk comes upon.                             *)
(***************************************************************************)
\* An ordering of a finite set is a sequence as long as the set is large, and
\* holds its elements.
LEMMA Orderings ==
    ASSUME NEW S, IsFiniteSet(S), NEW s \in SetToSeqs(S)
    PROVE  /\ s \in Seq(S) /\ Len(s) = Cardinality(S) /\ Cardinality(S) \in Nat
           /\ ToSet(s) \subseteq S
<1>1. Cardinality(S) \in Nat
  BY FS_CardinalityType
<1>2. s \in [1 .. Cardinality(S) -> S]
  BY DEF SetToSeqs
<1>3. s \in Seq(S) /\ Len(s) = Cardinality(S)
  BY <1>1, <1>2
<1> QED
  BY <1>1, <1>3 DEF ToSet

\* A sequence over a set is one over any larger set.
LEMMA Wider ==
    ASSUME NEW S, NEW T, S \subseteq T, NEW s \in Seq(S)
    PROVE  s \in Seq(T)
OBVIOUS

\* An ordering of a finite set misses none of its elements.
LEMMA OrderingsOnto ==
    ASSUME NEW S, IsFiniteSet(S), NEW s \in SetToSeqs(S)
    PROVE  S \subseteq ToSet(s)
<1>1. Cardinality(S) \in Nat
  BY FS_CardinalityType
<1> DEFINE D == 1 .. Cardinality(S)
<1>2. s \in [D -> S] /\ \A i, j \in D : i # j => s[i] # s[j]
  BY DEF SetToSeqs
<1>3. IsFiniteSet(D) /\ Cardinality(D) = Cardinality(S)
  <2>1. 1 \in Int /\ Cardinality(S) \in Int
    BY <1>1
  <2>2. /\ IsFiniteSet(D)
        /\ Cardinality(D) = IF 1 > Cardinality(S) THEN 0 ELSE Cardinality(S) - 1 + 1
    BY <2>1, FS_Interval
  <2> HIDE DEF D
  <2> QED
    BY <1>1, <2>2
<1>4. s \in Injection(D, S)
  BY <1>2 DEF Injection, IsInjective
<1>5. s \in Surjection(D, S)
  BY <1>3, <1>4, FS_Injection
<1>6. \A x \in S : \E i \in D : s[i] = x
  BY <1>5 DEF Surjection
<1>7. DOMAIN s = D
  BY <1>2
<1> QED
  BY <1>6, <1>7, <1>1, <1>2 DEF ToSet

\* What a walk comes upon.
LEMMA ReachedIsClosed ==
    ASSUME NEW from \in SUBSET Trees, NEW known
    PROVE  /\ Reached(from, known) \subseteq Trees
           /\ from \subseteq Reached(from, known)
           /\ Closed(Reached(from, known), known)
<1>1. \A t \in Reached(from, known) \cap known : \A k \in Kids[t] : k \in Reached(from, known)
  BY DEF Reached, Closed
<1> QED
  BY <1>1 DEF Reached, Closed

LEMMA ReachedIsLeast ==
    ASSUME NEW from, NEW known, NEW S \in SUBSET Trees,
           from \subseteq S, Closed(S, known)
    PROVE  Reached(from, known) \subseteq S
BY DEF Reached

\* Where nothing that is come upon is missing, all that can be reached is there.
LEMMA NoGaps ==
    ASSUME Gaps = {}
    PROVE  Reached({Root}, Trees) \subseteq cache
<1> DEFINE S == Reached({Root}, cache)
<1>1. S \subseteq Trees /\ {Root} \subseteq S /\ Closed(S, cache)
  BY ReachedIsClosed
<1>2. S \subseteq cache
  BY DEF Gaps
<1>3. Closed(S, Trees)
  BY <1>1, <1>2 DEF Closed
<1> QED
  BY <1>1, <1>2, <1>3, ReachedIsLeast

\* A batch and what is left of the queue.
LEMMA Batches ==
    ASSUME NEW s \in Seq(Trees)
    PROVE  /\ First(s) \in Seq(Trees) /\ Rest(s) \in Seq(Trees)
           /\ Len(First(s)) + Len(Rest(s)) = Len(s)
           /\ s # <<>> => Len(First(s)) >= 1
           /\ ToSet(First(s)) \subseteq ToSet(s) /\ ToSet(Rest(s)) \subseteq ToSet(s)
           /\ ToSet(s) \subseteq ToSet(First(s)) \cup ToSet(Rest(s))
<1> DEFINE n == IF Len(s) > BatchSize THEN BatchSize ELSE Len(s)
<1>1. /\ n \in 0 .. Len(s) /\ Len(s) \in Nat
      /\ s # <<>> => n >= 1
  OBVIOUS
<1>2. /\ First(s) \in Seq(Trees) /\ Len(First(s)) = n
      /\ \A i \in 1 .. n : First(s)[i] = s[i]
  BY <1>1 DEF First
<1>3. /\ Rest(s) \in Seq(Trees) /\ Len(Rest(s)) = Len(s) - n
      /\ \A i \in 1 .. Len(s) - n : Rest(s)[i] = s[n + i]
  <2>1. Rest(s) = SubSeq(s, n + 1, Len(s))
    BY <1>2 DEF Rest
  <2> HIDE DEF n
  <2> QED
    BY <1>1, <2>1
<1> HIDE DEF n
<1>4. ToSet(First(s)) \subseteq ToSet(s) /\ ToSet(Rest(s)) \subseteq ToSet(s)
  <2>1. \A i \in 1 .. n : i \in 1 .. Len(s)
    BY <1>1
  <2>2. \A i \in 1 .. Len(s) - n : n + i \in 1 .. Len(s)
    BY <1>1
  <2>3. ToSet(First(s)) \subseteq ToSet(s)
    BY <1>2, <2>1 DEF ToSet
  <2>4. ToSet(Rest(s)) \subseteq ToSet(s)
    BY <1>3, <2>2 DEF ToSet
  <2> QED
    BY <2>3, <2>4
<1>5. ASSUME NEW x \in ToSet(s)
      PROVE  x \in ToSet(First(s)) \cup ToSet(Rest(s))
  <2>1. PICK i \in 1 .. Len(s) : s[i] = x
    BY <1>5 DEF ToSet
  <2>2. CASE i <= n
    BY <1>1, <1>2, <2>1, <2>2 DEF ToSet
  <2>3. CASE i > n
    <3>1. i - n \in 1 .. Len(s) - n /\ n + (i - n) = i
      BY <1>1, <2>1, <2>3
    <3>2. Rest(s)[i - n] = x
      BY <3>1, <1>3, <2>1
    <3> QED
      BY <3>1, <3>2, <1>3 DEF ToSet
  <2> QED
    BY <1>1, <2>1, <2>2, <2>3
<1> QED
  BY <1>1, <1>2, <1>3, <1>4, <1>5

\* Elements of sequences put together.
LEMMA Joined ==
    ASSUME NEW S, NEW s \in Seq(S), NEW t \in Seq(S)
    PROVE  /\ s \o t \in Seq(S) /\ Len(s \o t) = Len(s) + Len(t)
           /\ ToSet(s \o t) = ToSet(s) \cup ToSet(t)
<1>1. /\ s \o t \in Seq(S) /\ Len(s \o t) = Len(s) + Len(t)
      /\ Len(s) \in Nat /\ Len(t) \in Nat
      /\ \A i \in 1 .. Len(s) : (s \o t)[i] = s[i]
      /\ \A i \in Len(s) + 1 .. Len(s) + Len(t) : (s \o t)[i] = t[i - Len(s)]
  OBVIOUS
<1>2. ASSUME NEW x \in ToSet(t)
      PROVE  x \in ToSet(s \o t)
  <2>1. PICK i \in 1 .. Len(t) : t[i] = x
    BY <1>2 DEF ToSet
  <2>2. Len(s) + i \in Len(s) + 1 .. Len(s) + Len(t) /\ (Len(s) + i) - Len(s) = i
    BY <1>1, <2>1
  <2>3. (s \o t)[Len(s) + i] = x /\ Len(s) + i \in 1 .. Len(s \o t)
    BY <1>1, <2>1, <2>2
  <2>4. DOMAIN (s \o t) = 1 .. Len(s \o t)
    BY <1>1
  <2> QED
    BY <2>3, <2>4 DEF ToSet
<1>3. ToSet(s) \subseteq ToSet(s \o t)
  BY <1>1 DEF ToSet
<1>4. ASSUME NEW x \in ToSet(s \o t)
      PROVE  x \in ToSet(s) \cup ToSet(t)
  <2>1. PICK i \in 1 .. Len(s) + Len(t) : (s \o t)[i] = x
    BY <1>1, <1>4 DEF ToSet
  <2>2. CASE i <= Len(s)
    BY <1>1, <2>1, <2>2 DEF ToSet
  <2>3. CASE i > Len(s)
    <3>1. i - Len(s) \in 1 .. Len(t) /\ t[i - Len(s)] = x
      BY <1>1, <2>1, <2>3
    <3> QED
      BY <3>1 DEF ToSet
  <2> QED
    BY <1>1, <2>1, <2>2, <2>3
<1> QED
  BY <1>1, <1>2, <1>3, <1>4

\* A tree has finitely many directories, in the repository.
LEMMA KidsAreFinite ==
    ASSUME NEW t \in Trees
    PROVE  Kids[t] \subseteq Trees /\ IsFiniteSet(Kids[t])
<1>1. Kids[t] \subseteq Trees
  OBVIOUS
<1> QED
  BY <1>1, FS_Subset

\* The head of a sequence and the rest.
LEMMA HeadAndTail ==
    ASSUME NEW s \in Seq(Trees), s # <<>>
    PROVE  /\ Head(s) \in Trees /\ Tail(s) \in Seq(Trees)
           /\ Head(s) \in ToSet(s) /\ ToSet(Tail(s)) \subseteq ToSet(s)
<1>1. Len(s) >= 1 /\ Len(s) \in Nat /\ Head(s) = s[1] /\ s[1] \in Trees
  OBVIOUS
<1>2. /\ Tail(s) \in Seq(Trees) /\ Len(Tail(s)) = Len(s) - 1
      /\ \A i \in 1 .. Len(s) - 1 : Tail(s)[i] = s[i + 1]
  OBVIOUS
<1>3. Head(s) \in ToSet(s)
  <2>1. 1 \in 1 .. Len(s)
    BY <1>1
  <2> QED
    BY <1>1, <2>1 DEF ToSet
<1>4. \A i \in 1 .. Len(s) - 1 : i + 1 \in 1 .. Len(s)
  BY <1>1
<1>5. ToSet(Tail(s)) \subseteq ToSet(s)
  BY <1>1, <1>2, <1>4 DEF ToSet
<1> QED
  BY <1>1, <1>2, <1>3, <1>5

\* What a fetch may bring.
LEMMA ResponseTypes ==
    ASSUME NEW want \in SUBSET Objects
    PROVE  /\ Offered(want) \subseteq Objects
           /\ \A R \in Responses(want) : R \subseteq Objects
           /\ \A R \in Responses(want) : Got(want, R) \subseteq Objects
<1>1. \A t \in Trees : Below[t] \subseteq Trees
  BY DEF Below, Reached
<1>2. \A w \in SUBSET Objects : Offered(w) \subseteq Objects
  BY <1>1 DEF Offered, Least, Objects
<1>3. Wanted(want) \subseteq Objects
  BY DEF Wanted
<1>4. \A R \in Responses(want) : R \subseteq Objects
  BY <1>2, <1>3 DEF Responses
<1> QED
  BY <1>2, <1>4 DEF Got

(***************************************************************************)
(* Type correctness.                                                       *)
(***************************************************************************)
LEMMA InitType == Init => TypeOK
<1> SUFFICES ASSUME Init
             PROVE  TypeOK
  OBVIOUS
<1>1. <<>> \in Seq(Trees) /\ 0 \in 0 .. MaxBatches /\ 0 \in 0 .. MaxCalls /\ 0 \in 0 .. MaxForeign
  OBVIOUS
<1>2. retryCount \in [Trees -> Nat]
  BY DEF Init
<1> QED
  BY <1>1, <1>2 DEF Init, TypeOK, Phases

\* Every step keeps the types.
LEMMA TypeStep ==
    ASSUME TypeOK, [Next]_vars
    PROVE  TypeOK'
<1>0. /\ {Root} \subseteq Trees /\ {Commit} \in SUBSET Objects /\ Trees \subseteq Objects
      /\ <<>> \in Seq(Trees)
  BY DEF Objects
<1>1. CASE GetFlatTree
  <2>1. [t \in Trees |-> 0] \in [Trees -> Nat] /\ calls' \in 0 .. MaxCalls
    BY <1>1 DEF GetFlatTree, TypeOK
  <2> QED
    BY <1>0, <1>1, <2>1 DEF GetFlatTree, TypeOK, Phases
<1>2. CASE FetchCommit
  <2>1. start' \subseteq Objects
    BY <1>2 DEF FetchCommit, TypeOK
  <2>2. cache' \subseteq Objects /\ received' \subseteq Trees
    <3>1. {Commit} \in SUBSET Objects /\ Wanted({Commit}) \in SUBSET Objects /\ cache \subseteq Objects
      BY <1>0 DEF Wanted, TypeOK
    <3>2. ASSUME NEW R \in Responses({Commit}), Store({Commit}, R), received' = R \cap Trees \/ received' = {}
          PROVE  cache' \subseteq Objects /\ received' \subseteq Trees
      <4>1. R \subseteq Objects
        BY <3>1, ResponseTypes
      <4> QED
        BY <3>1, <3>2, <4>1 DEF Store
    <3>3. ASSUME Break({Commit}) PROVE cache' \subseteq Objects /\ received' \subseteq Trees
      <4>1. Offered(Wanted({Commit})) \subseteq Objects
        BY <3>1, ResponseTypes
      <4> QED
        BY <3>1, <3>3, <4>1 DEF Break
    <3> QED
      BY <1>2, <3>2, <3>3 DEF FetchCommit
  <2>3. blame' \subseteq {"lean", "omits", "breaks", "evicts", "others"}
    BY <1>2 DEF FetchCommit, Store, Break, Departure, TypeOK
  <2>4. pc' \in Phases
    BY <1>2 DEF FetchCommit, Break, Phases
  <2> QED
    BY <1>2, <2>1, <2>2, <2>3, <2>4 DEF FetchCommit, job, TypeOK
<1>3. CASE FindRoot
  BY <1>3 DEF FindRoot, job, TypeOK, Phases
<1>4. ASSUME NEW t \in Trees, Examine(t)
      PROVE  TypeOK'
  <2>1. Unrequested(Kids[t] \ cache) \subseteq Trees /\ IsFiniteSet(Unrequested(Kids[t] \ cache))
    <3>1. Unrequested(Kids[t] \ cache) \subseteq Trees
      BY DEF Unrequested
    <3> QED
      BY <3>1, FS_Subset
  <2>2. pending' \in Seq(Trees) /\ requestedHashes' \subseteq Trees /\ processedTrees' \subseteq Trees
    <3>1. CASE t \in processedTrees
      BY <1>4, <3>1 DEF Examine, TypeOK
    <3>2. CASE t \notin processedTrees
      <4>1. PICK queued \in SetToSeqs(Unrequested(Kids[t] \ cache)) : pending' = pending \o queued
        BY <1>4, <3>2 DEF Examine
      <4>2. queued \in Seq(Unrequested(Kids[t] \ cache))
        BY <2>1, Orderings
      <4>3. queued \in Seq(Trees)
        BY <2>1, <4>2, Wider
      <4>4. pending' \in Seq(Trees)
        BY <4>1, <4>3, Joined DEF TypeOK
      <4> QED
        BY <1>4, <3>2, <4>4, <2>1 DEF Examine, TypeOK
    <3> QED
      BY <3>1, <3>2
  <2> QED
    BY <1>4, <2>2 DEF Examine, TypeOK
<1>5. CASE SendBatch
  <2> DEFINE batch == IF retries # <<>> THEN First(retries) ELSE First(pending)
             want == ToSet(batch)
  <2>1. want \subseteq Trees /\ batch \in Seq(Trees)
    <3>1. batch \in Seq(Trees)
      BY Batches DEF TypeOK
    <3> QED
      BY <3>1 DEF ToSet
  <2>2. pending' \in Seq(Trees) /\ Rest(retries) \in Seq(Trees)
    BY <1>5, Batches DEF SendBatch, TypeOK
  <2>3. batchNumber' \in 0 .. MaxBatches
    BY <1>5 DEF SendBatch, WithinLimit, TypeOK
  <2>4. CASE Break(want) /\ UNCHANGED <<retries, retryCount, requestedHashes>>
    <3>1. cache' \subseteq Objects
      BY <1>0, <2>1, <2>4, ResponseTypes DEF Break, Wanted, TypeOK
    <3>2. blame' \subseteq {"lean", "omits", "breaks", "evicts", "others"} /\ pc' \in Phases
      BY <2>4 DEF Break, TypeOK, Phases
    <3>3. received' \subseteq Trees /\ UNCHANGED <<retries, retryCount, requestedHashes>>
      BY <2>4 DEF Break
    <3> QED
      BY <1>5, <2>2, <2>3, <3>1, <3>2, <3>3 DEF SendBatch, TypeOK
  <2>5. ASSUME NEW R \in Responses(want),
               Store(want, R),
               retryCount' = [h \in Trees |->
                   IF h \in want \ Got(want, R) THEN retryCount[h] + 1 ELSE retryCount[h]],
               \E again \in SetToSeqs(Unrequested(want \ Got(want, R))) :
                   retries' = Rest(retries) \o again,
               requestedHashes' =
                   requestedHashes \cup (want \ Got(want, R)) \cup ToSet(pending'),
               \/ pc' = "failed" /\ received' = {}
               \/ pc' = pc /\ received' = Got(want, R) \cap Trees
        PROVE  TypeOK'
    <3> DEFINE lost == want \ Got(want, R)
    <3>1. cache' \subseteq Objects
      BY <1>0, <2>1, <2>5, ResponseTypes DEF Store, TypeOK
    <3>2. blame' \subseteq {"lean", "omits", "breaks", "evicts", "others"}
      BY <2>5 DEF Store, Departure, TypeOK
    <3>3. retryCount' \in [Trees -> Nat]
      BY <2>5 DEF TypeOK
    <3>4. retries' \in Seq(Trees)
      <4>1. Unrequested(lost) \subseteq Trees
        BY <2>1 DEF Unrequested
      <4>2. IsFiniteSet(Unrequested(lost))
        BY <4>1, FS_Subset
      <4>3. PICK again \in SetToSeqs(Unrequested(lost)) : retries' = Rest(retries) \o again
        BY <2>5
      <4> HIDE DEF lost
      <4>4. again \in Seq(Unrequested(lost))
        BY <4>2, Orderings
      <4>5. again \in Seq(Trees)
        BY <4>1, <4>4, Wider
      <4> QED
        BY <2>2, <4>3, <4>5, Joined
    <3>5. ToSet(pending') \subseteq Trees
      BY <2>2 DEF ToSet
    <3>6. requestedHashes' \subseteq Trees
      BY <2>1, <2>5, <3>5 DEF TypeOK
    <3>7. pc' \in Phases /\ received' \subseteq Trees
      BY <2>5 DEF TypeOK, Phases
    <3>8. UNCHANGED <<shared, processedTrees, missing, walk, calls, foreign, start>>
      BY <1>5 DEF SendBatch
    <3> HIDE DEF batch, want
    <3> QED
      BY <2>2, <2>3, <3>1, <3>2, <3>3, <3>4, <3>6, <3>7, <3>8 DEF TypeOK
  <2> HIDE DEF batch, want
  <2> QED
    BY <1>5, <2>4, <2>5 DEF SendBatch, batch, want
<1>6. CASE TooManyBatches
  BY <1>6 DEF TooManyBatches, job, TypeOK, Phases
<1>7. ASSUME walk' \in StartWalk
      PROVE  walk' \in Seq(Trees)
  <2>1. Kids[Root] \subseteq Trees /\ IsFiniteSet(Kids[Root])
    BY KidsAreFinite
  <2>2. walk' \in Seq(Kids[Root])
    BY <1>7, <2>1, Orderings DEF StartWalk
  <2> QED
    BY <2>1, <2>2
<1>8. Gaps \subseteq Trees
  BY DEF Gaps, Reached
<1>9. CASE Verify
  <2>1. missing' \subseteq Trees
    BY <1>8, <1>9 DEF Verify
  <2>2. walk' \in Seq(Trees) /\ pc' \in Phases
    BY <1>7, <1>9 DEF Verify, TypeOK, Phases
  <2> QED
    BY <1>9, <2>1, <2>2 DEF Verify, job, TypeOK
<1>10. CASE Complete
  <2>1. PICK want \in SUBSET missing :
            /\ missing' = missing \ want
            /\ \/ \E R \in Responses(want) : Store(want, R) /\ UNCHANGED <<pc, received>>
               \/ Break(want)
    BY <1>10 DEF Complete
  <2>2. want \subseteq Objects
    BY <1>0 DEF TypeOK
  <2>3. cache' \subseteq Objects
    BY <2>1, <2>2, ResponseTypes DEF Store, Break, Wanted, TypeOK
  <2>4. blame' \subseteq {"lean", "omits", "breaks", "evicts", "others"}
    BY <2>1 DEF Store, Break, Departure, TypeOK
  <2>5. pc' \in Phases /\ received' \subseteq Trees /\ missing' \subseteq Trees
    BY <2>1 DEF Break, TypeOK, Phases
  <2> QED
    BY <1>10, <2>3, <2>4, <2>5 DEF Complete, job, TypeOK
<1>11. CASE VerifyAgain
  <2>1. walk' \in Seq(Trees) /\ pc' \in Phases
    BY <1>7, <1>11 DEF VerifyAgain, AfterGaps, TypeOK, Phases
  <2>2. missing' = missing
    BY <1>11 DEF VerifyAgain, AfterGaps
  <2> QED
    BY <1>11, <2>1, <2>2 DEF VerifyAgain, job, TypeOK
<1>12. ASSUME pc = "flatten", walk # <<>>
       PROVE  /\ Head(walk) \in Trees /\ Head(walk) \in ToSet(walk) /\ Tail(walk) \in Seq(Trees)
              /\ \A below \in SetToSeqs(Kids[Head(walk)]) : below \o Tail(walk) \in Seq(Trees)
  <2>1. walk \in Seq(Trees)
    BY DEF TypeOK
  <2>2. Head(walk) \in Trees /\ Head(walk) \in ToSet(walk) /\ Tail(walk) \in Seq(Trees)
    BY <1>12, <2>1, HeadAndTail
  <2>3. Kids[Head(walk)] \subseteq Trees /\ IsFiniteSet(Kids[Head(walk)])
    BY <2>2, KidsAreFinite
  <2>4. ASSUME NEW below \in SetToSeqs(Kids[Head(walk)])
        PROVE  below \o Tail(walk) \in Seq(Trees)
    <3>1. below \in Seq(Kids[Head(walk)])
      BY <2>3, Orderings
    <3>2. below \in Seq(Trees)
      BY <2>3, <3>1, Wider
    <3> QED
      BY <2>2, <3>2, Joined
  <2> QED
    BY <2>2, <2>4
<1>13. CASE Traverse
  <2>1. walk' \in Seq(Trees)
    BY <1>12, <1>13 DEF Traverse
  <2> QED
    BY <1>13, <2>1 DEF Traverse, job, TypeOK
<1>14. CASE FetchMissingTree
  <2> DEFINE t == Head(walk)
  <2>1. /\ pc = "flatten" /\ walk # <<>>
        /\ \/ /\ \E R \in SUBSET Offered({t}) : cache' = cache \cup R
              /\ \/ /\ \E below \in SetToSeqs(Kids[t]) : walk' = below \o Tail(walk)
                    /\ UNCHANGED <<pc, blame>>
                 \/ pc' = "failed" /\ blame' = blame \cup {"omits"} /\ UNCHANGED walk
              /\ UNCHANGED received
           \/ Break({t}) /\ UNCHANGED walk
    BY <1>14 DEF FetchMissingTree
  <2>2. {t} \subseteq Objects
    BY <1>0, <1>12, <2>1
  <2>3. walk' \in Seq(Trees)
    BY <1>12, <2>1 DEF TypeOK
  <2>4. cache' \subseteq Objects
    BY <2>1, <2>2, ResponseTypes DEF Store, Break, Wanted, TypeOK
  <2>5. blame' \subseteq {"lean", "omits", "breaks", "evicts", "others"}
    BY <2>1 DEF Store, Break, Departure, TypeOK
  <2>6. pc' \in Phases /\ received' \subseteq Trees
    BY <2>1 DEF Break, TypeOK, Phases
  <2> QED
    BY <1>14, <2>3, <2>4, <2>5, <2>6 DEF FetchMissingTree, job, TypeOK
<1>15. CASE Flattened
  BY <1>15 DEF Flattened, job, TypeOK, Phases
<1>16. ASSUME NEW o \in Objects, OtherCaches(o)
       PROVE  TypeOK'
  <2>1. foreign' \in 0 .. MaxForeign /\ cache' \subseteq Objects
    BY <1>16 DEF OtherCaches, TypeOK
  <2> QED
    BY <1>16, <2>1 DEF OtherCaches, job, TypeOK
<1>17. ASSUME NEW o \in Objects, Evict(o)
       PROVE  TypeOK'
  <2>1. foreign' \in 0 .. MaxForeign /\ cache' \subseteq Objects
    BY <1>17 DEF Evict, TypeOK
  <2> QED
    BY <1>17, <2>1 DEF Evict, job, TypeOK
<1>18. CASE UNCHANGED vars
  BY <1>18 DEF vars, job, TypeOK
<1> QED
  BY <1>1, <1>2, <1>3, <1>4, <1>5, <1>6, <1>9, <1>10, <1>11, <1>13, <1>14, <1>15, <1>16,
     <1>17, <1>18 DEF Next, Step

\* Every value of every variable is of its kind, and no call sends more than
\* MaxBatches batches.
THEOREM TypeCorrect == Spec => []TypeOK
<1> QED
  BY InitType, TypeStep, PTL DEF Spec

(***************************************************************************)
(* The collection is complete when it is flattened.                        *)
(***************************************************************************)
Whole == Reached({Root}, Trees)

\* flatten stays below the root.
WalkInside == pc = "flatten" => ToSet(walk) \subseteq Whole

LEMMA WholeIsClosed ==
    /\ Whole \subseteq Trees /\ Root \in Whole
    /\ \A t \in Whole : Kids[t] \subseteq Whole
<1>1. {Root} \in SUBSET Trees
  OBVIOUS
<1>2. /\ Whole \subseteq Trees /\ {Root} \subseteq Whole /\ Closed(Whole, Trees)
  BY <1>1, ReachedIsClosed DEF Whole
<1> QED
  BY <1>2 DEF Closed

\* Within a call faults are not forgotten, and the storage forgets nothing but
\* by an eviction.
LEMMA Kept ==
    ASSUME [Next]_vars, ~GetFlatTree
    PROVE  /\ blame \subseteq blame'
           /\ "evicts" \notin blame' => cache \subseteq cache'
<1>1. CASE FetchCommit
  BY <1>1 DEF FetchCommit, Store, Break
<1>2. CASE FindRoot
  BY <1>2 DEF FindRoot
<1>3. ASSUME NEW t \in Trees, Examine(t)
      PROVE  blame \subseteq blame' /\ cache \subseteq cache'
  BY <1>3 DEF Examine
<1>4. CASE SendBatch
  BY <1>4 DEF SendBatch, Store, Break
<1>5. CASE TooManyBatches \/ Verify \/ VerifyAgain \/ Traverse \/ Flattened
  BY <1>5 DEF TooManyBatches, Verify, VerifyAgain, Traverse, Flattened
<1>6. CASE Complete
  BY <1>6 DEF Complete, Store, Break
<1>7. CASE FetchMissingTree
  BY <1>7 DEF FetchMissingTree, Store, Break
<1>8. ASSUME NEW o \in Objects, OtherCaches(o) \/ Evict(o)
      PROVE  blame \subseteq blame' /\ ("evicts" \notin blame' => cache \subseteq cache')
  BY <1>8 DEF OtherCaches, Evict
<1>9. CASE UNCHANGED vars
  BY <1>9 DEF vars
<1> QED
  BY <1>1, <1>2, <1>3, <1>4, <1>5, <1>6, <1>7, <1>8, <1>9 DEF Next, Step

\* The walk starts in the root, and goes from a tree to its directories.
LEMMA WalkStarts ==
    ASSUME walk' \in StartWalk
    PROVE  ToSet(walk') \subseteq Whole
<1>1. Kids[Root] \subseteq Trees /\ IsFiniteSet(Kids[Root])
  BY KidsAreFinite
<1>2. ToSet(walk') \subseteq Kids[Root]
  BY <1>1, Orderings DEF StartWalk
<1> QED
  BY <1>2, WholeIsClosed

LEMMA WalkGoesOn ==
    ASSUME TypeOK, WalkInside, pc = "flatten", walk # <<>>,
           NEW below \in SetToSeqs(Kids[Head(walk)]), walk' = below \o Tail(walk)
    PROVE  Head(walk) \in Whole /\ ToSet(walk') \subseteq Whole
<1>1. walk \in Seq(Trees)
  BY DEF TypeOK
<1>2. /\ Head(walk) \in Trees /\ Tail(walk) \in Seq(Trees)
      /\ Head(walk) \in ToSet(walk) /\ ToSet(Tail(walk)) \subseteq ToSet(walk)
  BY <1>1, HeadAndTail
<1>5. Head(walk) \in Whole /\ ToSet(Tail(walk)) \subseteq Whole
  BY <1>2 DEF WalkInside
<1>6. Kids[Head(walk)] \subseteq Trees /\ IsFiniteSet(Kids[Head(walk)])
  BY <1>2, KidsAreFinite
<1>7. below \in Seq(Kids[Head(walk)]) /\ ToSet(below) \subseteq Kids[Head(walk)]
  BY <1>6, Orderings
<1>8. below \in Seq(Trees)
  BY <1>6, <1>7, Wider
<1>9. ToSet(below \o Tail(walk)) = ToSet(below) \cup ToSet(Tail(walk))
  <2> DEFINE after == Tail(walk)
  <2>1. after \in Seq(Trees)
    BY <1>2
  <2> HIDE DEF after
  <2>2. ToSet(below \o after) = ToSet(below) \cup ToSet(after)
    BY <1>8, <2>1, Joined
  <2> QED
    BY <2>2 DEF after
<1> QED
  BY <1>5, <1>7, <1>9, WholeIsClosed

LEMMA CompleteStep ==
    ASSUME TypeOK, CollectionComplete, WalkInside, [Next]_vars
    PROVE  CollectionComplete' /\ WalkInside'
<1> USE DEF Whole
<1>1. CASE GetFlatTree
  BY <1>1 DEF GetFlatTree, CollectionComplete, WalkInside
<1>2. CASE FetchCommit
  BY <1>2 DEF FetchCommit, Break, CollectionComplete, WalkInside
<1>3. CASE FindRoot
  BY <1>3 DEF FindRoot, CollectionComplete, WalkInside
<1>4. ASSUME NEW t \in Trees, Examine(t)
      PROVE  CollectionComplete' /\ WalkInside'
  BY <1>4 DEF Examine, CollectionComplete, WalkInside
<1>5. CASE SendBatch
  BY <1>5 DEF SendBatch, Break, CollectionComplete, WalkInside
<1>6. CASE TooManyBatches
  BY <1>6 DEF TooManyBatches, CollectionComplete, WalkInside
<1>7. CASE Verify
  <2>1. /\ pc' \in {"flatten", "complete"} /\ cache' = cache
        /\ pc' = "flatten" => Gaps = {} /\ walk' \in StartWalk
    BY <1>7 DEF Verify
  <2> QED
    BY <2>1, NoGaps, WalkStarts DEF CollectionComplete, WalkInside
<1>8. CASE Complete
  BY <1>8 DEF Complete, Break, CollectionComplete, WalkInside
<1>9. CASE VerifyAgain
  <2>1. /\ pc' \in {"flatten", "failed"} /\ cache' = cache
        /\ pc' = "flatten" => Gaps = {} /\ walk' \in StartWalk
    BY <1>9 DEF VerifyAgain, AfterGaps
  <2> QED
    BY <2>1, NoGaps, WalkStarts DEF CollectionComplete, WalkInside
<1>10. CASE Traverse
  <2>1. PICK below \in SetToSeqs(Kids[Head(walk)]) : walk' = below \o Tail(walk)
    BY <1>10 DEF Traverse
  <2>2. pc = "flatten" /\ walk # <<>> /\ UNCHANGED <<pc, cache, blame>>
    BY <1>10 DEF Traverse
  <2> QED
    BY <2>1, <2>2, WalkGoesOn DEF CollectionComplete, WalkInside
<1>11. CASE FetchMissingTree
  <2>1. pc = "flatten" /\ walk # <<>>
    BY <1>11 DEF FetchMissingTree
  <2>2. \/ pc' = "failed"
        \/ /\ pc' = pc
           /\ \E below \in SetToSeqs(Kids[Head(walk)]) : walk' = below \o Tail(walk)
    BY <1>11 DEF FetchMissingTree, Break
  <2>3. WalkInside'
    BY <2>1, <2>2, WalkGoesOn DEF WalkInside
  <2>4. ~GetFlatTree
    BY <2>1 DEF GetFlatTree, Running, Phases
  <2>5. CollectionComplete'
    BY <2>1, <2>2, <2>4, Kept DEF CollectionComplete
  <2> QED
    BY <2>3, <2>5
<1>12. CASE Flattened
  BY <1>12 DEF Flattened, CollectionComplete, WalkInside
<1>13. ASSUME NEW o \in Objects, OtherCaches(o) \/ Evict(o)
       PROVE  CollectionComplete' /\ WalkInside'
  BY <1>13 DEF OtherCaches, Evict, CollectionComplete, WalkInside
<1>14. CASE UNCHANGED vars
  BY <1>14 DEF vars, CollectionComplete, WalkInside
<1> QED
  BY <1>1, <1>2, <1>3, <1>4, <1>5, <1>6, <1>7, <1>8, <1>9, <1>10, <1>11, <1>12, <1>13, <1>14
  DEF Next, Step

LEMMA InitComplete == Init => CollectionComplete /\ WalkInside
BY DEF Init, CollectionComplete, WalkInside

\* Whatever the server sends, a call whose storage loses nothing flattens the
\* tree only when every tree of the commit is in the storage.
THEOREM CompleteWhenFlattened == Spec => []CollectionComplete
<1> DEFINE Inv == TypeOK /\ CollectionComplete /\ WalkInside
<1>1. Init => Inv
  BY InitType, InitComplete
<1>2. Inv /\ [Next]_vars => Inv'
  BY TypeStep, CompleteStep
<1>3. Inv => CollectionComplete
  OBVIOUS
<1> HIDE DEF Inv
<1> QED
  BY <1>1, <1>2, <1>3, PTL DEF Spec

(***************************************************************************)
(* The batches.  What is queued has been marked as requested, so that      *)
(* handleMissingObjects never queues anything again.                       *)
(***************************************************************************)
Bookkeeping ==
    /\ retries = <<>>
    /\ ToSet(pending) \subseteq requestedHashes

LEMMA Cardinalities ==
    ASSUME NEW S \in SUBSET Trees, NEW T \in SUBSET Trees
    PROVE  /\ IsFiniteSet(S) /\ Cardinality(S) \in Nat
           /\ S \subseteq T => Cardinality(S) <= Cardinality(T)
           /\ S \cap T = {} => Cardinality(S \cup T) = Cardinality(S) + Cardinality(T)
<1>1. IsFiniteSet(S) /\ IsFiniteSet(T)
  BY FS_Subset
<1>2. Cardinality(S) \in Nat /\ Cardinality(T) \in Nat
  BY <1>1, FS_CardinalityType
<1>3. S \subseteq T => Cardinality(S) <= Cardinality(T)
  BY <1>1, FS_Subset
<1>4. Cardinality(S \cup T) = Cardinality(S) + Cardinality(T) - Cardinality(S \cap T)
  BY <1>1, FS_Union
<1>5. ASSUME S \cap T = {}
      PROVE  Cardinality(S \cup T) = Cardinality(S) + Cardinality(T)
  <2>1. Cardinality(S \cap T) = 0
    BY <1>5, FS_EmptySet
  <2> QED
    BY <1>2, <1>4, <2>1
<1> QED
  BY <1>1, <1>2, <1>3, <1>5

\* A batch of pending hashes leaves nothing to retry.
LEMMA NothingToRetry ==
    ASSUME NEW lost, lost \subseteq requestedHashes,
           \E again \in SetToSeqs(Unrequested(lost)) : retries' = Rest(<<>>) \o again
    PROVE  retries' = <<>>
<1>1. Unrequested(lost) = {}
  BY DEF Unrequested
<1>2. PICK again \in SetToSeqs({}) : retries' = Rest(<<>>) \o again
  BY <1>1
<1>3. IsFiniteSet({}) /\ Cardinality({}) = 0
  BY FS_EmptySet
<1>4. again \in Seq({}) /\ Len(again) = 0
  BY <1>2, <1>3, Orderings
<1>5. again = <<>>
  BY <1>4
<1>6. <<>> \in Seq(Trees) /\ Len(<<>>) = 0
  OBVIOUS
<1>7. /\ Rest(<<>>) \in Seq(Trees) /\ First(<<>>) \in Seq(Trees)
      /\ Len(First(<<>>)) + Len(Rest(<<>>)) = 0
  BY <1>6, Batches
<1>8. Len(Rest(<<>>)) = 0
  BY <1>7
<1>9. Rest(<<>>) = <<>>
  BY <1>7, <1>8
<1> QED
  BY <1>2, <1>5, <1>9

\* What SendBatch does when there is nothing to retry.
LEMMA BatchSent ==
    ASSUME TypeOK, Bookkeeping, SendBatch
    PROVE  LET want == ToSet(First(pending))
           IN  /\ pc = "batch" /\ received = {} /\ pending # <<>>
               /\ batchNumber' = batchNumber + 1
               /\ pending' = Rest(pending)
               /\ want \subseteq requestedHashes /\ want \subseteq Trees
               /\ retries' = <<>>
               /\ requestedHashes' = requestedHashes
               /\ UNCHANGED <<shared, processedTrees, start>>
               /\ \/ Break(want)
                  \/ \E R \in Responses(want) :
                         /\ Store(want, R)
                         /\ \/ pc' = "failed" /\ received' = {} /\ want \ Got(want, R) # {}
                            \/ pc' = "batch" /\ received' = Got(want, R) \cap Trees
<1> DEFINE want == ToSet(First(pending))
<1>1. retries = <<>> /\ pending \in Seq(Trees)
  BY DEF Bookkeeping, TypeOK
<1>2. /\ pc = "batch" /\ received = {} /\ pending # <<>>
      /\ batchNumber' = batchNumber + 1
      /\ pending' = Rest(pending)
      /\ UNCHANGED <<shared, processedTrees, start>>
  BY <1>1 DEF SendBatch
<1>3. /\ want \subseteq ToSet(pending) /\ ToSet(Rest(pending)) \subseteq ToSet(pending)
      /\ First(pending) \in Seq(Trees)
  BY <1>1, Batches
<1>4. want \subseteq requestedHashes /\ want \subseteq Trees
  BY <1>3 DEF Bookkeeping, TypeOK
<1>5. CASE Break(want) /\ UNCHANGED <<retries, retryCount, requestedHashes>>
  BY <1>1, <1>2, <1>4, <1>5
<1>6. ASSUME NEW R \in Responses(want), Store(want, R),
             \E again \in SetToSeqs(Unrequested(want \ Got(want, R))) :
                 retries' = Rest(retries) \o again,
             requestedHashes' =
                 requestedHashes \cup (want \ Got(want, R)) \cup ToSet(pending'),
             \/ pc' = "failed" /\ received' = {} /\ want \ Got(want, R) # {}
             \/ pc' = pc /\ received' = Got(want, R) \cap Trees
      PROVE  /\ retries' = <<>> /\ requestedHashes' = requestedHashes
             /\ \/ pc' = "failed" /\ received' = {} /\ want \ Got(want, R) # {}
                \/ pc' = "batch" /\ received' = Got(want, R) \cap Trees
  <2>1. want \ Got(want, R) \subseteq requestedHashes
    BY <1>4
  <2>2. retries' = <<>>
    BY <1>1, <1>6, <2>1, NothingToRetry
  <2>3. requestedHashes' = requestedHashes
    BY <1>2, <1>3, <1>6, <2>1 DEF Bookkeeping
  <2> QED
    BY <1>2, <1>6, <2>2, <2>3
<1>7. \/ Break(want) /\ UNCHANGED <<retries, retryCount, requestedHashes>>
      \/ \E R \in Responses(want) :
             /\ Store(want, R)
             /\ \E again \in SetToSeqs(Unrequested(want \ Got(want, R))) :
                    retries' = Rest(retries) \o again
             /\ requestedHashes' =
                    requestedHashes \cup (want \ Got(want, R)) \cup ToSet(pending')
             /\ \/ pc' = "failed" /\ received' = {} /\ want \ Got(want, R) # {}
                \/ pc' = pc /\ received' = Got(want, R) \cap Trees
  BY <1>1 DEF SendBatch
<1> HIDE DEF want
<1>8. \/ Break(want)
      \/ \E R \in Responses(want) :
             /\ Store(want, R)
             /\ \/ pc' = "failed" /\ received' = {} /\ want \ Got(want, R) # {}
                \/ pc' = "batch" /\ received' = Got(want, R) \cap Trees
  BY <1>6, <1>7
<1>9. retries' = <<>> /\ requestedHashes' = requestedHashes
  BY <1>1, <1>6, <1>7
<1> QED
  BY <1>2, <1>4, <1>8, <1>9 DEF want

\* What Examine queues, marks as requested and marks as processed.
LEMMA Examined ==
    ASSUME TypeOK, NEW t \in Trees, Examine(t)
    PROVE  \E fresh \in SUBSET Trees :
               /\ fresh \cap requestedHashes = {}
               /\ requestedHashes' = requestedHashes \cup fresh
               /\ Len(pending') = Len(pending) + Cardinality(fresh)
               /\ ToSet(pending') = ToSet(pending) \cup fresh
               /\ processedTrees' \subseteq processedTrees \cup {t}
               /\ t \in processedTrees \/ Kids[t] \subseteq cache \cup requestedHashes'
<1> DEFINE absent == Kids[t] \ cache
           fresh  == Unrequested(absent)
<1>0. pending \in Seq(Trees)
  BY DEF TypeOK
<1>1. CASE t \in processedTrees
  <2>1. Len(pending) \in Nat /\ Cardinality({}) = 0
    BY <1>0, FS_EmptySet
  <2>2. UNCHANGED <<pending, requestedHashes, processedTrees>>
    BY <1>1 DEF Examine
  <2>3. {} \in SUBSET Trees
    OBVIOUS
  <2> QED
    BY <1>1, <2>1, <2>2, <2>3
<1>2. CASE t \notin processedTrees
  <2>1. fresh \in SUBSET Trees /\ IsFiniteSet(fresh)
    <3>1. fresh \in SUBSET Trees
      BY DEF Unrequested
    <3> QED
      BY <3>1, Cardinalities
  <2>2. fresh \cap requestedHashes = {} /\ absent \subseteq requestedHashes \cup fresh
    BY DEF Unrequested
  <2>3. /\ \E queued \in SetToSeqs(fresh) : pending' = pending \o queued
        /\ requestedHashes' = requestedHashes \cup fresh
        /\ processedTrees' \subseteq processedTrees \cup {t}
    BY <1>2 DEF Examine
  <2>4. Kids[t] \subseteq cache \cup requestedHashes'
    BY <2>2, <2>3
  <2>5. PICK queued \in SetToSeqs(fresh) : pending' = pending \o queued
    BY <2>3
  <2> HIDE DEF fresh
  <2>6. queued \in Seq(fresh) /\ Len(queued) = Cardinality(fresh) /\ ToSet(queued) = fresh
    <3>1. queued \in Seq(fresh) /\ Len(queued) = Cardinality(fresh) /\ ToSet(queued) \subseteq fresh
      BY <2>1, <2>5, Orderings
    <3>2. fresh \subseteq ToSet(queued)
      BY <2>1, <2>5, OrderingsOnto
    <3> QED
      BY <3>1, <3>2
  <2>7. queued \in Seq(Trees)
    BY <2>1, <2>6, Wider
  <2>8. Len(pending') = Len(pending) + Cardinality(fresh)
        /\ ToSet(pending') = ToSet(pending) \cup fresh
    <3>1. /\ Len(pending \o queued) = Len(pending) + Len(queued)
          /\ ToSet(pending \o queued) = ToSet(pending) \cup ToSet(queued)
      BY <1>0, <2>7, Joined
    <3> QED
      BY <2>5, <2>6, <3>1
  <2> QED
    BY <2>1, <2>2, <2>3, <2>4, <2>8
<1> QED
  BY <1>1, <1>2

\* The steps that leave the job alone.
JobKept == UNCHANGED <<pending, retries, requestedHashes, processedTrees, batchNumber>>

LEMMA OtherSteps ==
    ASSUME [Next]_vars,
           ~GetFlatTree, ~\E t \in Trees : Examine(t), ~SendBatch
    PROVE  JobKept
BY DEF Next, Step, JobKept, FetchCommit, FindRoot, TooManyBatches, Verify, Complete,
       VerifyAgain, Traverse, FetchMissingTree, Flattened, OtherCaches, Evict, job, vars

LEMMA BatchesStep ==
    ASSUME TypeOK, Bookkeeping, BatchesProgress, [Next]_vars
    PROVE  Bookkeeping' /\ BatchesProgress'
<1>0. /\ batchNumber \in Nat /\ Len(pending) \in Nat /\ Len(retries) = 0
      /\ pending \in Seq(Trees) /\ requestedHashes \in SUBSET Trees
      /\ Cardinality(requestedHashes) \in Nat
      /\ batchNumber + Len(pending) <= Cardinality(requestedHashes)
  <2>1. pending \in Seq(Trees) /\ requestedHashes \in SUBSET Trees /\ Len(retries) = 0
    BY DEF TypeOK, Bookkeeping
  <2>2. Cardinality(requestedHashes) \in Nat /\ Len(pending) \in Nat
    BY <2>1, Cardinalities
  <2>3. batchNumber \in Nat
    BY DEF TypeOK
  <2> QED
    BY <2>1, <2>2, <2>3 DEF BatchesProgress
<1>1. CASE GetFlatTree
  <2>1. /\ retries' = <<>> /\ pending' = <<>> /\ requestedHashes' = {} /\ batchNumber' = 0
    BY <1>1 DEF GetFlatTree
  <2>2. ToSet(<<>>) = {} /\ Len(<<>>) = 0 /\ Cardinality({}) = 0
    BY FS_EmptySet DEF ToSet
  <2> QED
    BY <2>1, <2>2 DEF Bookkeeping, BatchesProgress
<1>2. ASSUME NEW t \in Trees, Examine(t)
      PROVE  Bookkeeping' /\ BatchesProgress'
  <2>1. PICK fresh \in SUBSET Trees :
            /\ fresh \cap requestedHashes = {}
            /\ requestedHashes' = requestedHashes \cup fresh
            /\ Len(pending') = Len(pending) + Cardinality(fresh)
            /\ ToSet(pending') = ToSet(pending) \cup fresh
    BY <1>2, Examined
  <2>2. Cardinality(requestedHashes') = Cardinality(requestedHashes) + Cardinality(fresh)
        /\ Cardinality(fresh) \in Nat
    BY <1>0, <2>1, Cardinalities
  <2>3. retries' = retries /\ batchNumber' = batchNumber
    BY <1>2 DEF Examine
  <2>4. Bookkeeping'
    BY <2>1, <2>3 DEF Bookkeeping
  <2>5. BatchesProgress'
    BY <1>0, <2>1, <2>2, <2>3 DEF BatchesProgress
  <2> QED
    BY <2>4, <2>5
<1>3. CASE SendBatch
  <2>1. /\ pending # <<>> /\ batchNumber' = batchNumber + 1
        /\ pending' = Rest(pending) /\ retries' = <<>> /\ requestedHashes' = requestedHashes
    BY <1>3, BatchSent
  <2>2. /\ Len(First(pending)) >= 1 /\ Len(First(pending)) + Len(Rest(pending)) = Len(pending)
        /\ First(pending) \in Seq(Trees) /\ Rest(pending) \in Seq(Trees)
        /\ ToSet(Rest(pending)) \subseteq ToSet(pending)
    BY <1>0, <2>1, Batches
  <2>3. Bookkeeping'
    BY <2>1, <2>2 DEF Bookkeeping
  <2>4. Len(Rest(pending)) <= Len(pending) - 1 /\ Len(Rest(pending)) \in Nat /\ Len(<<>>) = 0
    BY <1>0, <2>2
  <2>5. BatchesProgress'
    BY <1>0, <2>1, <2>4 DEF BatchesProgress
  <2> QED
    BY <2>3, <2>5
<1>4. CASE ~GetFlatTree /\ ~(\E t \in Trees : Examine(t)) /\ ~SendBatch
  <2>1. JobKept
    BY <1>4, OtherSteps
  <2> QED
    BY <2>1 DEF JobKept, Bookkeeping, BatchesProgress
<1> QED
  BY <1>1, <1>2, <1>3, <1>4

LEMMA InitBatches == Init => Bookkeeping /\ BatchesProgress
<1>1. ToSet(<<>>) = {} /\ Len(<<>>) = 0 /\ Cardinality({}) = 0
  BY FS_EmptySet DEF ToSet
<1> QED
  BY <1>1 DEF Init, Bookkeeping, BatchesProgress

\* Every batch asks for a tree that no batch before it asked for, so the loop
\* ends after as many batches as the repository has trees.
THEOREM BatchesEnd == Spec => []BatchesProgress
<1> DEFINE Inv == TypeOK /\ Bookkeeping /\ BatchesProgress
<1>1. Init => Inv
  BY InitType, InitBatches
<1>2. Inv /\ [Next]_vars => Inv'
  BY TypeStep, BatchesStep
<1>3. Inv => BatchesProgress
  OBVIOUS
<1> HIDE DEF Inv
<1> QED
  BY <1>1, <1>2, <1>3, PTL DEF Spec

(***************************************************************************)
(* A call fails only for a cause.                                          *)
(***************************************************************************)
Clean == blame \cap {"omits", "breaks", "evicts"} = {}

\* Nobody else meets the storage of a call that has its own.
OwnStorage ==
    ~shared => /\ blame \cap {"evicts", "others"} = {}
               /\ pc = "commit" => cache = {}

RootFound ==
    Clean => /\ pc = "root" => /\ Commit \in cache
                               /\ Root \in cache \/ (Commit \in start /\ Root \notin start)
             /\ pc = "batch" => Root \in cache

\* In such a storage, every directory of a tree that was examined is there or
\* queued.
Frontier ==
    ~shared /\ Clean /\ pc \in {"root", "batch"} =>
        \A t \in cache \cap Trees : t \in received \/ Kids[t] \subseteq cache \cup ToSet(pending)
Asked ==
    ~shared /\ Clean /\ pc \in {"commit", "root", "batch"} =>
        /\ requestedHashes \subseteq cache \cup ToSet(pending)
        /\ \A t \in processedTrees : Kids[t] \subseteq cache \cup requestedHashes
NoCompletion == ~shared /\ Clean => pc # "complete"

\* Completion covers what was missing, if the server sends all that can be
\* reached and nobody else changes the storage.
Completing ==
    Clean /\ blame \cap {"lean", "others"} = {} /\ pc = "complete" =>
        Reached({Root}, cache) \subseteq cache \cup missing

\* A server that honours a request sends what was asked for.
LEMMA Honest ==
    ASSUME NEW want \in SUBSET Objects, NEW R \in Responses(want), Store(want, R),
           "omits" \notin blame'
    PROVE  /\ want \subseteq cache' /\ want \subseteq Got(want, R)
           /\ Commit \in want /\ Commit \notin cache => Root \in R
<1>1. CASE Wanted(want) = {}
  BY <1>1 DEF Wanted, Store, Got
<1>2. CASE Wanted(want) # {}
  <2>1. blame' = blame \cup Departure(Wanted(want), R)
    BY <1>2 DEF Store
  <2>2. R = Offered(Wanted(want)) \/ Least(Wanted(want)) \subseteq R
    BY <2>1 DEF Departure
  <2>3. Root \in Below[Root]
    <3>1. {Root} \in SUBSET Trees
      OBVIOUS
    <3> QED
      BY <3>1, ReachedIsClosed DEF Below
  <2>4. Least(Wanted(want)) \subseteq Offered(Wanted(want))
    BY <2>3 DEF Least, Offered
  <2>5. Least(Wanted(want)) \subseteq R
    BY <2>2, <2>4
  <2> QED
    BY <2>5 DEF Least, Wanted, Store, Got
<1> QED
  BY <1>1, <1>2

\* A call whose steps are not its first ones stays where it is or goes on.
LEMMA Phase ==
    ASSUME [Next]_vars, ~GetFlatTree, ~FetchCommit, ~FindRoot
    PROVE  /\ UNCHANGED <<shared, start>>
           /\ pc' = pc \/ pc' \notin {"commit", "root", "batch"}
BY DEF Next, Step, Examine, SendBatch, TooManyBatches, Verify, Complete, VerifyAgain, AfterGaps,
       Traverse, FetchMissingTree, Flattened, OtherCaches, Evict, Break, job, vars

LEMMA OwnStorageStep ==
    ASSUME TypeOK, OwnStorage, [Next]_vars
    PROVE  OwnStorage'
<1>1. CASE GetFlatTree
  BY <1>1 DEF GetFlatTree, OwnStorage
<1>2. CASE FetchCommit
  BY <1>2 DEF FetchCommit, Store, Break, Departure, OwnStorage
<1>3. CASE FindRoot
  BY <1>3 DEF FindRoot, OwnStorage
<1>4. ASSUME NEW t \in Trees, Examine(t)
      PROVE  OwnStorage'
  BY <1>4 DEF Examine, OwnStorage
<1>5. CASE SendBatch
  BY <1>5 DEF SendBatch, Store, Break, Departure, OwnStorage
<1>6. CASE TooManyBatches \/ Verify \/ VerifyAgain \/ Traverse \/ Flattened
  BY <1>6 DEF TooManyBatches, Verify, VerifyAgain, AfterGaps, Traverse, Flattened, OwnStorage
<1>7. CASE Complete
  BY <1>7 DEF Complete, Store, Break, Departure, OwnStorage
<1>8. CASE FetchMissingTree
  BY <1>8 DEF FetchMissingTree, Store, Break, Departure, OwnStorage
<1>9. ASSUME NEW o \in Objects, OtherCaches(o) \/ Evict(o)
      PROVE  OwnStorage'
  BY <1>9 DEF OtherCaches, Evict, OwnStorage
<1>10. CASE UNCHANGED vars
  BY <1>10 DEF vars, OwnStorage
<1> QED
  BY <1>1, <1>2, <1>3, <1>4, <1>5, <1>6, <1>7, <1>8, <1>9, <1>10 DEF Next, Step

LEMMA RootFoundStep ==
    ASSUME TypeOK, RootFound, [Next]_vars
    PROVE  RootFound'
<1>1. CASE GetFlatTree
  BY <1>1 DEF GetFlatTree, RootFound
<1>2. CASE FetchCommit
  <2>1. ASSUME NEW R \in Responses({Commit}), Store({Commit}, R), pc' = "root", start' = cache,
               Clean'
        PROVE  /\ Commit \in cache'
               /\ Root \in cache' \/ (Commit \in start' /\ Root \notin start')
    <3>1. {Commit} \in SUBSET Objects /\ "omits" \notin blame'
      BY <2>1 DEF Objects, Clean
    <3>2. Commit \in cache' /\ (Commit \notin cache => Root \in R)
      BY <2>1, <3>1, Honest
    <3> QED
      BY <2>1, <3>2 DEF Store
  <2>2. \/ pc' = "failed"
        \/ pc' = "root" /\ \E R \in Responses({Commit}) : Store({Commit}, R)
    BY <1>2 DEF FetchCommit, Break
  <2>3. start' = cache
    BY <1>2 DEF FetchCommit
  <2> QED
    BY <2>1, <2>2, <2>3 DEF RootFound
<1>3. CASE FindRoot
  BY <1>3 DEF FindRoot, RootFound
<1>4. CASE ~GetFlatTree /\ ~FetchCommit /\ ~FindRoot
  <2>1. /\ UNCHANGED <<shared, start>>
        /\ pc' = pc \/ pc' \notin {"commit", "root", "batch"}
    BY <1>4, Phase
  <2>2. Clean' => Clean /\ cache \subseteq cache'
    BY <1>4, Kept DEF Clean
  <2> QED
    BY <2>1, <2>2 DEF RootFound
<1> QED
  BY <1>1, <1>2, <1>3, <1>4

LEMMA FrontierStep ==
    ASSUME TypeOK, Bookkeeping, OwnStorage, Frontier, Asked, [Next]_vars
    PROVE  Frontier' /\ Asked'
<1>1. CASE GetFlatTree
  BY <1>1 DEF GetFlatTree, Frontier, Asked
<1>2. CASE FetchCommit
  <2>1. /\ UNCHANGED <<shared, pending, requestedHashes, processedTrees>>
        /\ pc = "commit" /\ cache \subseteq cache' /\ blame \subseteq blame'
        /\ \/ pc' = "failed"
           \/ pc' = "root" /\ \E R : cache' = cache \cup R /\ received' = R \cap Trees
    BY <1>2 DEF FetchCommit, Store, Break, job
  <2>2. Clean' => Clean
    BY <2>1 DEF Clean
  <2>3. Asked'
    BY <2>1, <2>2 DEF Asked
  <2>4. ~shared => cache = {}
    BY <2>1 DEF OwnStorage
  <2> QED
    BY <2>1, <2>3, <2>4 DEF Frontier
<1>3. CASE FindRoot
  <2>1. /\ UNCHANGED <<shared, cache, blame, pending, requestedHashes, processedTrees>>
        /\ pc = "root"
        /\ pc' = "failed" \/ (pc' = "batch" /\ received' = received)
    BY <1>3 DEF FindRoot, job
  <2> QED
    BY <2>1 DEF Frontier, Asked, Clean
<1>4. ASSUME NEW t \in Trees, Examine(t)
      PROVE  Frontier' /\ Asked'
  <2>1. PICK fresh \in SUBSET Trees :
            /\ requestedHashes' = requestedHashes \cup fresh
            /\ ToSet(pending') = ToSet(pending) \cup fresh
            /\ processedTrees' \subseteq processedTrees \cup {t}
            /\ t \in processedTrees \/ Kids[t] \subseteq cache \cup requestedHashes'
    BY <1>4, Examined
  <2>2. /\ UNCHANGED <<shared, cache, blame, pc>> /\ pc = "batch"
        /\ received' = received \ {t}
    BY <1>4 DEF Examine
  <2>3. Asked'
    <3>1. SUFFICES ASSUME ~shared, Clean
                   PROVE  /\ requestedHashes' \subseteq cache \cup ToSet(pending')
                          /\ \A u \in processedTrees' : Kids[u] \subseteq cache \cup requestedHashes'
      BY <2>2 DEF Asked, Clean
    <3>2. /\ requestedHashes \subseteq cache \cup ToSet(pending)
          /\ \A u \in processedTrees : Kids[u] \subseteq cache \cup requestedHashes
      BY <2>2, <3>1 DEF Asked
    <3> QED
      BY <2>1, <3>2
  <2>4. Frontier'
    <3>1. SUFFICES ASSUME ~shared, Clean, NEW u \in cache \cap Trees, u \notin received'
                   PROVE  Kids[u] \subseteq cache \cup ToSet(pending')
      BY <2>2 DEF Frontier, Clean
    <3>2. CASE u = t
      <4>1. /\ requestedHashes' \subseteq cache \cup ToSet(pending')
            /\ \A v \in processedTrees : Kids[v] \subseteq cache \cup requestedHashes
        BY <2>2, <2>3, <3>1 DEF Asked, Clean
      <4>2. Kids[t] \subseteq cache \cup requestedHashes'
        BY <2>1, <4>1
      <4> QED
        BY <3>2, <4>1, <4>2
    <3>3. CASE u # t
      <4>1. Kids[u] \subseteq cache \cup ToSet(pending)
        BY <2>2, <3>1, <3>3 DEF Frontier
      <4> QED
        BY <2>1, <4>1
    <3> QED
      BY <3>2, <3>3
  <2> QED
    BY <2>3, <2>4
<1>5. CASE SendBatch
  <2> DEFINE want == ToSet(First(pending))
  <2>1. /\ pc = "batch" /\ received = {}
        /\ pending' = Rest(pending)
        /\ want \subseteq Trees
        /\ requestedHashes' = requestedHashes
        /\ UNCHANGED <<shared, processedTrees>>
        /\ \/ pc' = "failed"
           \/ pc' = "batch" /\ \E R \in Responses(want) :
                                 Store(want, R) /\ received' = Got(want, R) \cap Trees
    BY <1>5, BatchSent DEF Break
  <2>2. CASE pc' = "failed"
    BY <2>2 DEF Frontier, Asked
  <2>3. ASSUME NEW R \in Responses(want), Store(want, R), received' = Got(want, R) \cap Trees
        PROVE  Frontier' /\ Asked'
    <3>1. SUFFICES ASSUME ~shared, Clean'
                   PROVE  /\ requestedHashes \subseteq cache' \cup ToSet(pending')
                          /\ \A u \in processedTrees : Kids[u] \subseteq cache' \cup requestedHashes
                          /\ \A u \in cache' \cap Trees :
                                 u \in received' \/ Kids[u] \subseteq cache' \cup ToSet(pending')
      BY <2>1 DEF Frontier, Asked
    <3>2. want \subseteq Objects /\ "omits" \notin blame'
      BY <2>1, <3>1 DEF Objects, Clean
    <3>3. want \subseteq cache'
      BY <2>3, <3>2, Honest
    <3>4. cache' = cache \cup R /\ R \subseteq Got(want, R) /\ blame \subseteq blame'
      BY <2>3 DEF Store, Got
    <3>5. Clean
      BY <3>1, <3>4 DEF Clean
    <3>6. ToSet(pending) \subseteq want \cup ToSet(pending')
      BY <2>1, Batches DEF TypeOK
    <3>7. /\ requestedHashes \subseteq cache \cup ToSet(pending)
          /\ \A u \in processedTrees : Kids[u] \subseteq cache \cup requestedHashes
          /\ \A u \in cache \cap Trees : Kids[u] \subseteq cache \cup ToSet(pending)
      BY <2>1, <3>1, <3>5 DEF Frontier, Asked
    <3> HIDE DEF want
    <3>8. cache \cup ToSet(pending) \subseteq cache' \cup ToSet(pending')
      BY <3>3, <3>4, <3>6
    <3>9. \A u \in cache' \cap Trees :
              u \in received' \/ Kids[u] \subseteq cache' \cup ToSet(pending')
      BY <2>3, <3>4, <3>7, <3>8
    <3> QED
      BY <3>4, <3>7, <3>8, <3>9
  <2> HIDE DEF want
  <2> QED
    BY <2>1, <2>2, <2>3
<1>6. ASSUME ~GetFlatTree, ~FetchCommit, ~FindRoot, ~(\E t \in Trees : Examine(t)), ~SendBatch
      PROVE  Frontier' /\ Asked'
  <2>1. JobKept /\ (pc' = pc \/ pc' \notin {"commit", "root", "batch"}) /\ shared' = shared
    BY <1>6, OtherSteps, Phase
  <2>2. pc \in {"commit", "root", "batch"} /\ pc' = pc =>
            received' = received /\ (shared \/ (cache' = cache /\ blame' = blame))
    BY <1>6 DEF Next, Step, TooManyBatches, Verify, Complete, VerifyAgain, Traverse,
                FetchMissingTree, Flattened, OtherCaches, Evict, vars
  <2> QED
    BY <2>1, <2>2 DEF JobKept, Frontier, Asked, Clean
<1> QED
  BY <1>1, <1>2, <1>3, <1>4, <1>5, <1>6

\* A whole response brings all there is below what was missing.
LEMMA WholeResponse ==
    ASSUME TypeOK, NEW want \in SUBSET missing, NEW R \in Responses(want), Store(want, R),
           blame' \cap {"omits", "lean"} = {},
           Reached({Root}, cache) \subseteq cache \cup missing
    PROVE  Reached({Root}, cache') \subseteq cache' \cup (missing \ want)
<1> DEFINE old == Reached({Root}, cache)
           S == old \cup R
<1>1. /\ want \subseteq Trees /\ Commit \notin want /\ want \in SUBSET Objects
      /\ {Root} \in SUBSET Trees
  BY DEF TypeOK, Objects
<1>2. want \subseteq cache' /\ cache' = cache \cup R
  BY <1>1, Honest DEF Store
<1>3. R \subseteq Trees /\ \A t \in R : Kids[t] \subseteq R
  <2>1. CASE Wanted(want) = {}
    BY <2>1 DEF Responses
  <2>2. CASE Wanted(want) # {}
    <3>1. R = Offered(Wanted(want))
      BY <2>2 DEF Store, Departure
    <3>2. Least(Wanted(want)) \cap Trees = Wanted(want) /\ Wanted(want) \subseteq Trees
      BY <1>1 DEF Least, Wanted
    <3>3. R = Wanted(want) \cup UNION {Below[t] : t \in Wanted(want)}
      BY <3>1, <3>2 DEF Offered
    <3>4. ASSUME NEW t \in Wanted(want)
          PROVE  Below[t] \subseteq Trees /\ t \in Below[t] /\ \A u \in Below[t] : Kids[u] \subseteq Below[t]
      <4>1. t \in Trees /\ {t} \in SUBSET Trees
        BY <3>2
      <4>2. Below[t] = Reached({t}, Trees)
        BY <4>1 DEF Below
      <4>3. Below[t] \subseteq Trees /\ {t} \subseteq Below[t] /\ Closed(Below[t], Trees)
        BY <4>1, <4>2, ReachedIsClosed
      <4> QED
        BY <4>3 DEF Closed
    <3>5. R = UNION {Below[t] : t \in Wanted(want)}
      BY <3>3, <3>4
    <3> QED
      BY <3>4, <3>5
  <2> QED
    BY <2>1, <2>2
<1>4. old \subseteq Trees /\ {Root} \subseteq old /\ Closed(old, cache)
  BY <1>1, ReachedIsClosed
<1> HIDE DEF old
<1>5. S \in SUBSET Trees /\ {Root} \subseteq S
  BY <1>3, <1>4
<1>6. Closed(S, cache')
  BY <1>2, <1>3, <1>4 DEF Closed
<1>7. Reached({Root}, cache') \subseteq S
  BY <1>5, <1>6, ReachedIsLeast
<1>8. old \subseteq cache \cup missing
  BY DEF old
<1> QED
  BY <1>2, <1>7, <1>8

\* With a storage of its own, an undisturbed call finds nothing missing.
LEMMA NothingMissing ==
    ASSUME TypeOK, RootFound, Frontier, ~shared, Clean,
           pc = "batch", received = {}, pending = <<>>
    PROVE  Gaps = {}
<1> DEFINE S == cache \cap Trees
<1>1. ToSet(pending) = {}
  BY DEF ToSet
<1>2. Root \in S /\ S \in SUBSET Trees
  BY DEF RootFound
<1>3. \A t \in S : Kids[t] \subseteq S
  BY <1>1 DEF Frontier
<1>4. Closed(S, cache)
  BY <1>3 DEF Closed
<1>5. Reached({Root}, cache) \subseteq S
  BY <1>2, <1>4, ReachedIsLeast
<1> QED
  BY <1>5 DEF Gaps

LEMMA CompletionStep ==
    ASSUME TypeOK, RootFound, Frontier, NoCompletion, Completing, [Next]_vars
    PROVE  NoCompletion' /\ Completing'
<1>1. CASE Verify
  <2>1. /\ pc = "batch" /\ received = {} /\ pending = <<>> /\ missing' = Gaps
        /\ pc' = "complete" => Gaps # {}
        /\ UNCHANGED <<shared, cache, blame>>
    BY <1>1 DEF Verify
  <2>2. NoCompletion'
    BY <2>1, NothingMissing DEF NoCompletion, Clean
  <2>3. Reached({Root}, cache) \subseteq cache \cup Gaps
    BY DEF Gaps
  <2> QED
    BY <2>1, <2>2, <2>3 DEF Completing
<1>2. CASE Complete
  <2>1. PICK want \in SUBSET missing :
            /\ missing' = missing \ want
            /\ \/ \E R \in Responses(want) : Store(want, R) /\ UNCHANGED <<pc, received>>
               \/ Break(want)
    BY <1>2 DEF Complete
  <2>2. pc = "complete" /\ shared' = shared /\ blame \subseteq blame'
    BY <1>2 DEF Complete, Store, Break
  <2>3. NoCompletion'
    BY <2>2 DEF NoCompletion, Clean
  <2>4. Completing'
    <3>1. CASE Break(want)
      BY <3>1 DEF Break, Completing
    <3>2. ASSUME NEW R \in Responses(want), Store(want, R), Clean',
                 blame' \cap {"lean", "others"} = {}
          PROVE  Reached({Root}, cache') \subseteq cache' \cup missing'
      <4>1. Clean /\ blame \cap {"lean", "others"} = {} /\ blame' \cap {"omits", "lean"} = {}
        BY <2>2, <3>2 DEF Clean
      <4>2. Reached({Root}, cache) \subseteq cache \cup missing
        BY <2>2, <4>1 DEF Completing
      <4>3. Reached({Root}, cache') \subseteq cache' \cup (missing \ want)
        BY <3>2, <4>1, <4>2, WholeResponse
      <4> QED
        BY <2>1, <4>3
    <3> QED
      BY <2>1, <3>1, <3>2 DEF Completing
  <2> QED
    BY <2>3, <2>4
<1>3. ASSUME NEW o \in Objects, OtherCaches(o) \/ Evict(o)
      PROVE  NoCompletion' /\ Completing'
  BY <1>3 DEF OtherCaches, Evict, NoCompletion, Completing, Clean
<1>4. CASE UNCHANGED vars
  BY <1>4 DEF vars, NoCompletion, Completing, Clean
<1>5. ASSUME ~Verify, ~Complete, ~(\E o \in Objects : OtherCaches(o) \/ Evict(o)),
             ~(UNCHANGED vars)
      PROVE  pc' # "complete"
  BY <1>5 DEF Next, Step, GetFlatTree, FetchCommit, FindRoot, Examine, SendBatch, TooManyBatches,
              VerifyAgain, AfterGaps, Traverse, FetchMissingTree, Flattened, Break
<1> QED
  BY <1>1, <1>2, <1>3, <1>4, <1>5 DEF NoCompletion, Completing

LEMMA FailStep ==
    ASSUME TypeOK, Bookkeeping, CollectionComplete, WalkInside, RootFound, NoCompletion,
           Completing, FailsOnlyForCause, [Next]_vars
    PROVE  FailsOnlyForCause'
<1> USE DEF FailsOnlyForCause
<1>1. CASE GetFlatTree
  BY <1>1 DEF GetFlatTree
<1>2. CASE FetchCommit
  <2>1. {Commit} \in SUBSET Objects
    BY DEF Objects
  <2>2. \/ Break({Commit}) \/ pc' = "root"
        \/ \E R \in Responses({Commit}) : Store({Commit}, R) /\ Commit \notin Got({Commit}, R)
    BY <1>2 DEF FetchCommit
  <2>3. \/ Break({Commit}) \/ pc' = "root" \/ "omits" \in blame'
    BY <2>1, <2>2, Honest
  <2> QED
    BY <2>3 DEF Break
<1>3. CASE FindRoot
  <2>1. /\ pc = "root" /\ UNCHANGED <<shared, cache, batchNumber, start, blame>>
        /\ pc' = "failed" => ~({Commit, Root} \subseteq cache)
    BY <1>3 DEF FindRoot, job
  <2> QED
    BY <2>1 DEF RootFound, Clean
<1>4. ASSUME NEW t \in Trees, Examine(t)
      PROVE  FailsOnlyForCause'
  BY <1>4 DEF Examine
<1>5. CASE SendBatch
  <2> DEFINE want == ToSet(First(pending))
  <2>1. /\ want \subseteq Trees
        /\ \/ Break(want)
           \/ \E R \in Responses(want) :
                  /\ Store(want, R)
                  /\ pc' = "batch" \/ want \ Got(want, R) # {}
    BY <1>5, BatchSent
  <2>2. want \in SUBSET Objects
    BY <2>1 DEF Objects
  <2> HIDE DEF want
  <2>3. Break(want) \/ pc' = "batch" \/ "omits" \in blame'
    BY <2>1, <2>2, Honest
  <2> QED
    BY <2>3 DEF Break
<1>6. CASE TooManyBatches
  BY <1>6 DEF TooManyBatches, WithinLimit, job, TypeOK
<1>7. CASE Verify
  BY <1>7 DEF Verify
<1>8. CASE Complete
  <2>1. pc = "complete" /\ (pc' = pc \/ "breaks" \in blame')
    BY <1>8 DEF Complete, Break
  <2> QED
    BY <2>1
<1>9. CASE VerifyAgain
  <2>1. /\ pc = "complete" /\ missing = {} /\ UNCHANGED <<shared, cache, blame>>
        /\ pc' = "failed" => Gaps # {}
    BY <1>9 DEF VerifyAgain
  <2>2. shared \/ ~Clean
    BY <2>1 DEF NoCompletion
  <2>3. Clean /\ blame \cap {"lean", "others"} = {} => Gaps = {}
    BY <2>1 DEF Completing, Gaps
  <2> QED
    BY <2>1, <2>2, <2>3 DEF Clean
<1>10. CASE Traverse
  BY <1>10 DEF Traverse
<1>11. CASE FetchMissingTree
  <2>1. /\ pc = "flatten" /\ walk # <<>> /\ Head(walk) \notin cache /\ blame \subseteq blame'
    BY <1>11 DEF FetchMissingTree, Store, Break
  <2>2. Head(walk) \in ToSet(walk)
    BY <2>1, HeadAndTail DEF TypeOK
  <2>3. "evicts" \in blame
    BY <2>1, <2>2 DEF WalkInside, CollectionComplete, Whole
  <2> QED
    BY <2>1, <2>3
<1>12. CASE Flattened
  BY <1>12 DEF Flattened
<1>13. ASSUME NEW o \in Objects, OtherCaches(o) \/ Evict(o)
       PROVE  FailsOnlyForCause'
  BY <1>13 DEF OtherCaches, Evict, job
<1>14. CASE UNCHANGED vars
  BY <1>14 DEF vars, job
<1> QED
  BY <1>1, <1>2, <1>3, <1>4, <1>5, <1>6, <1>7, <1>8, <1>9, <1>10, <1>11, <1>12, <1>13, <1>14
  DEF Next, Step

Undisturbed == OwnStorage /\ RootFound /\ Frontier /\ Asked /\ NoCompletion /\ Completing

LEMMA InitUndisturbed == Init => Undisturbed /\ FailsOnlyForCause
BY DEF Init, Undisturbed, OwnStorage, RootFound, Frontier, Asked, NoCompletion, Completing,
       FailsOnlyForCause

\* A call fails only for a cause: with a storage of its own, a server that sends
\* at least what it is asked for, and no more batches than the limit, it succeeds.
THEOREM FailuresHaveCauses == Spec => []FailsOnlyForCause
<1> DEFINE Inv == /\ TypeOK /\ Bookkeeping /\ BatchesProgress /\ CollectionComplete /\ WalkInside
                  /\ Undisturbed /\ FailsOnlyForCause
<1>1. Init => Inv
  BY InitType, InitBatches, InitComplete, InitUndisturbed
<1>2. Inv /\ [Next]_vars => Inv'
  <2> SUFFICES ASSUME Inv, [Next]_vars
               PROVE  Inv'
    OBVIOUS
  <2>1. TypeOK' /\ Bookkeeping' /\ BatchesProgress' /\ CollectionComplete' /\ WalkInside'
    BY TypeStep, BatchesStep, CompleteStep
  <2>2. Undisturbed'
    BY OwnStorageStep, RootFoundStep, FrontierStep, CompletionStep DEF Undisturbed
  <2>3. FailsOnlyForCause'
    BY FailStep DEF Undisturbed
  <2> QED
    BY <2>1, <2>2, <2>3
<1>3. Inv => FailsOnlyForCause
  OBVIOUS
<1> HIDE DEF Inv
<1> QED
  BY <1>1, <1>2, <1>3, PTL DEF Spec
==============================================================================
