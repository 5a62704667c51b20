------------------------------ MODULE PathPatterns ------------------------------
(***************************************************************************)
(* The path patterns of a clone (clone.go): which entries of a tree the    *)
(* include and exclude patterns keep.                                      *)
(*                                                                         *)
(* Data abstraction.  A path is the sequence of its segments and so is a   *)
(* pattern, whose segments may be the wildcards "*" and "**".  Every       *)
(* string that the code cuts a path or a pattern into is again a sequence  *)
(* of whole segments, a suffix but for the prefixes it compares literally; *)
(* globs inside a segment are left out.                                    *)
(***************************************************************************)
EXTENDS Naturals, Sequences, SequencesExt

Wild == {"*", "**"}
From(s, i) == SubSeq(s, i, Len(s))

\* filepath.Match, for which "**" is "*", and which lets "*" match an empty path.
FilepathMatch(pattern, path) ==
    IF path = <<>> THEN Len(pattern) = 1 /\ pattern[1] \in Wild
    ELSE /\ Len(pattern) = Len(path)
         /\ \A i \in DOMAIN path : pattern[i] \in Wild \cup {path[i]}

\* matchesDirAtAnyDepth: the whole path, its start, its middle or its end.
MatchesDirAtAnyDepth(path, dirname) ==
    \E i \in DOMAIN path : IsPrefix(dirname, From(path, i))

\* The tails of the path from segment j on; "" splits into one empty segment.
Tails(path, j) == {From(path, i) : i \in {j} \cup j .. Len(path)}

\* matchesSuffixAtAnyDepth
MatchesSuffixAtAnyDepth(path, j, pattern) ==
    \E tail \in Tails(path, j) : FilepathMatch(pattern, tail)

\* strings.Contains(pattern, "/**/"), HasPrefix "**/" and HasSuffix "/**", of the part of
\* the pattern from segment i on.
Inner(pattern, i) == {k \in i + 1 .. Len(pattern) - 1 : pattern[k] = "**"}
Leads(pattern, i) == i < Len(pattern) /\ pattern[i] = "**"
Trails(pattern, i) == i < Len(pattern) /\ pattern[Len(pattern)] = "**"

\* matchesPatternWithDoubleStar, of the pattern from segment i on and the path from
\* segment j on.  Prefixes and directory names are compared literally, wildcards included.
MatchesPatternWithDoubleStar(path, pattern) ==
    LET n == Len(pattern)
        matches[i \in 1 .. n + 1, j \in 1 .. Len(path) + 1] ==
            IF Inner(pattern, i) # {}
            THEN \* matchesMiddleDoubleStarPattern
                 LET k == CHOOSE k \in Inner(pattern, i) :
                              \A l \in Inner(pattern, i) : k <= l
                     rest == j + (k - i)
                 IN  /\ IsPrefix(SubSeq(pattern, i, k - 1), From(path, j))
                     /\ IF n = k + 2 /\ pattern[n] = "**"
                        THEN MatchesDirAtAnyDepth(From(path, rest), <<pattern[k + 1]>>)
                        ELSE IF Inner(pattern, k + 1) # {} \/ Trails(pattern, k + 1)
                        THEN \* matchesSuffixAtAnyDepthRecursive
                             \E t \in {rest} \cup rest .. Len(path) : matches[k + 1, t]
                        ELSE MatchesSuffixAtAnyDepth(path, rest, From(pattern, k + 1))
            ELSE IF Leads(pattern, i) /\ Trails(pattern, i)
            THEN MatchesDirAtAnyDepth(From(path, j), SubSeq(pattern, i + 1, IF n = i + 1 THEN n ELSE n - 1))
            ELSE IF Leads(pattern, i) THEN MatchesSuffixAtAnyDepth(path, j, From(pattern, i + 1))
            ELSE Trails(pattern, i) /\ IsPrefix(SubSeq(pattern, i, n - 1), From(path, j))
    IN  matches[1, 1]

\* matchesSinglePattern
MatchesSinglePattern(path, pattern) ==
    IF Inner(pattern, 1) # {} \/ Leads(pattern, 1) \/ Trails(pattern, 1)
    THEN MatchesPatternWithDoubleStar(path, pattern)
    ELSE FilepathMatch(pattern, path)

MatchesAnyPattern(path, patterns) == \E p \in patterns : MatchesSinglePattern(path, p)

\* shouldIncludePath.  (Mutant: an included path stays, even if it is excluded.)
IncludeWins(path, include, exclude) ==
    \/ MatchesAnyPattern(path, include)
    \/ include = {} /\ ~MatchesAnyPattern(path, exclude)
ShouldIncludePath(path, include, exclude) ==
    /\ ~MatchesAnyPattern(path, exclude)
    /\ include # {} => MatchesAnyPattern(path, include)

-----------------------------------------------------------------------------
\* What such patterns mean elsewhere: "**" stands for any number of directories, none
\* included, and "*" for one segment.
Glob(path, pattern) ==
    LET glob[i \in 1 .. Len(pattern) + 1, j \in 1 .. Len(path) + 1] ==
            IF i > Len(pattern) THEN j > Len(path)
            ELSE \/ pattern[i] = "**" /\ glob[i + 1, j]
                 \/ /\ j <= Len(path)
                    /\ IF pattern[i] = "**" THEN glob[i, j + 1]
                       ELSE pattern[i] \in {"*", path[j]} /\ glob[i + 1, j + 1]
    IN  glob[1, 1]
=============================================================================
