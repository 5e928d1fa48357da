----------------------------- MODULE ToolPolicy -----------------------------
(***************************************************************************)
(* Which tools may be called: toolPolicy.evaluate and matchToolPattern in  *)
(* src/internal/mcpserver/server.go.                                       *)
(*                                                                         *)
(* Deny patterns are tried first, then allow patterns; without allow       *)
(* patterns every tool is allowed.  A pattern is matched by one loop with  *)
(* four indices and no recursion: it remembers the last star and retries   *)
(* from there.  One action is one round of that loop, or the choice of the *)
(* next pattern.  Indices count from 0, as in the code.                    *)
(***************************************************************************)
EXTENDS Integers, Sequences, Lists

CONSTANTS Letter,      \* the characters of names, in lower case
          Star,        \* the character '*'
          Name,        \* tool names asked for
          AllowList,   \* configured allow patterns to be tried
          DenyList     \* configured deny patterns to be tried

ASSUME PolicyAssumption == /\ Star \notin Letter
                           /\ Name \subseteq Seq(Letter)
                           /\ AllowList \subseteq Seq(Seq(Letter \cup {Star}))
                           /\ DenyList \subseteq Seq(Seq(Letter \cup {Star}))

VARIABLES
    allow, deny,       \* toolPolicy.allowPatterns and denyPatterns
    name,              \* the name evaluate was called with
    list,              \* the list that is being tried
    tried,             \* how many patterns of the list were begun
    matching,          \* inside matchToolPattern
    patternIndex, valueIndex, starPatternIndex, starValueIndex,
    verdict            \* the result of evaluate

policyVars == <<allow, deny, name>>
indexVars == <<patternIndex, valueIndex, starPatternIndex, starValueIndex>>
vars == <<policyVars, list, tried, matching, indexVars, verdict>>

\* normalizeToolPatterns: blank patterns are skipped.
Normalized(patterns) == Without(patterns, <<>>)

Init == /\ \E a \in AllowList, d \in DenyList : /\ allow = Normalized(a)
                                                /\ deny = Normalized(d)
        /\ name \in Name
        /\ list = "deny"
        /\ tried = 0
        /\ matching = FALSE
        /\ patternIndex = 0
        /\ valueIndex = 0
        /\ starPatternIndex = -1
        /\ starValueIndex = 0
        /\ verdict = "open"

Patterns == IF list = "deny" THEN deny ELSE allow
Pattern == Patterns[tried]

-----------------------------------------------------------------------------
(* evaluate *)

RefuseNoName ==
    /\ verdict = "open"
    /\ name = <<>>
    /\ verdict' = "denied"
    /\ UNCHANGED <<policyVars, list, tried, matching, indexVars>>

\* The next pattern of the list: a call of matchToolPattern.
TryNext ==
    /\ verdict = "open"
    /\ name # <<>>
    /\ ~matching
    /\ tried < Len(Patterns)
    /\ tried' = tried + 1
    /\ matching' = TRUE
    /\ patternIndex' = 0
    /\ valueIndex' = 0
    /\ starPatternIndex' = -1
    /\ starValueIndex' = 0
    /\ UNCHANGED <<policyVars, list, verdict>>

\* The end of a list without a match.
EndOfList ==
    /\ verdict = "open"
    /\ name # <<>>
    /\ ~matching
    /\ tried = Len(Patterns)
    /\ \/ /\ list = "deny"
          /\ allow = <<>>
          /\ verdict' = "allowed"
          /\ UNCHANGED <<list, tried>>
       \/ /\ list = "deny"
          /\ allow # <<>>
          /\ list' = "allow"
          /\ tried' = 0
          /\ UNCHANGED verdict
       \/ /\ list = "allow"
          /\ verdict' = "denied"
          /\ UNCHANGED <<list, tried>>
    /\ UNCHANGED <<policyVars, matching, indexVars>>

-----------------------------------------------------------------------------
(* matchToolPattern *)

InLoop == matching /\ valueIndex < Len(name)
AtStar == patternIndex < Len(Pattern) /\ Pattern[patternIndex + 1] = Star
AtEqual == patternIndex < Len(Pattern) /\ Pattern[patternIndex + 1] = name[valueIndex + 1]

\* Slip: a star is taken to stand for one character at least.
TakeStarLate ==
    /\ InLoop
    /\ AtStar
    /\ starPatternIndex' = patternIndex
    /\ starValueIndex' = valueIndex + 1
    /\ patternIndex' = patternIndex + 1
    /\ UNCHANGED <<policyVars, list, tried, matching, valueIndex, verdict>>

TakeStar ==
    /\ InLoop
    /\ AtStar
    /\ starPatternIndex' = patternIndex
    /\ starValueIndex' = valueIndex
    /\ patternIndex' = patternIndex + 1
    /\ UNCHANGED <<policyVars, list, tried, matching, valueIndex, verdict>>

TakeEqual ==
    /\ InLoop
    /\ ~AtStar
    /\ AtEqual
    /\ patternIndex' = patternIndex + 1
    /\ valueIndex' = valueIndex + 1
    /\ UNCHANGED <<policyVars, list, tried, matching, starPatternIndex, starValueIndex, verdict>>

\* Slip: any mismatch fails the pattern.
MismatchAlways ==
    /\ InLoop
    /\ ~AtStar
    /\ ~AtEqual
    /\ matching' = FALSE
    /\ UNCHANGED <<policyVars, list, tried, indexVars, verdict>>

\* Without a star before it a mismatch fails the pattern, ...
Mismatch ==
    /\ InLoop
    /\ ~AtStar
    /\ ~AtEqual
    /\ starPatternIndex = -1
    /\ matching' = FALSE
    /\ UNCHANGED <<policyVars, list, tried, indexVars, verdict>>

\* Slip: the star is not made longer.
RetryInPlace ==
    /\ InLoop
    /\ ~AtStar
    /\ ~AtEqual
    /\ starPatternIndex # -1
    /\ patternIndex' = starPatternIndex + 1
    /\ valueIndex' = starValueIndex
    /\ UNCHANGED <<policyVars, list, tried, matching, starPatternIndex, starValueIndex, verdict>>

\* ... with one the star takes a character more and the rest is tried again.
Retry ==
    /\ InLoop
    /\ ~AtStar
    /\ ~AtEqual
    /\ starPatternIndex # -1
    /\ patternIndex' = starPatternIndex + 1
    /\ starValueIndex' = starValueIndex + 1
    /\ valueIndex' = starValueIndex + 1
    /\ UNCHANGED <<policyVars, list, tried, matching, starPatternIndex, verdict>>

\* The name is used up: only stars may be left of the pattern.  A match is the
\* verdict of its list.
EndOfName ==
    /\ matching
    /\ valueIndex = Len(name)
    /\ matching' = FALSE
    /\ verdict' = IF \A i \in patternIndex + 1..Len(Pattern) : Pattern[i] = Star
                  THEN IF list = "deny" THEN "denied" ELSE "allowed"
                  ELSE "open"
    /\ UNCHANGED <<policyVars, list, tried, indexVars>>

Finished == verdict # "open" /\ UNCHANGED vars

Next == \/ RefuseNoName
        \/ TryNext
        \/ EndOfList
        \/ TakeStar
        \/ TakeEqual
        \/ Mismatch
        \/ Retry
        \/ EndOfName
        \/ Finished

Spec == Init /\ [][Next]_vars

\* The code is sequential and runs on.
FairSpec == Spec /\ WF_vars(Next)

-----------------------------------------------------------------------------
(* Properties *)

\* The indices stay within the pattern and the name they index.
TypeOK ==
    /\ allow \in Seq(Seq(Letter \cup {Star}) \ {<<>>})
    /\ deny \in Seq(Seq(Letter \cup {Star}) \ {<<>>})
    /\ name \in Name
    /\ list \in {"allow", "deny"}
    /\ tried \in 0..Len(Patterns)
    /\ matching \in BOOLEAN
    /\ matching => /\ tried > 0
                   /\ patternIndex \in 0..Len(Pattern)
                   /\ valueIndex \in 0..Len(name)
                   /\ starPatternIndex \in -1..patternIndex - 1
                   /\ starValueIndex \in 0..Len(name)
    /\ verdict \in {"open", "allowed", "denied"}

\* The first i characters of p stand for the first j of v when these can be cut
\* into i parts, ends[k] where the k-th ends: a star's part is any, none included,
\* another character's is that character.
Cuts(ends, p, i, v, j) ==
    /\ ends[0] = 0 /\ ends[i] = j
    /\ \A k \in 1..i : IF p[k] = Star THEN ends[k - 1] <= ends[k]
                       ELSE ends[k] = ends[k - 1] + 1 /\ v[ends[k]] = p[k]

\* What a pattern means.
Matches(p, v) == \E ends \in [0..Len(p) -> 0..Len(v)] : Cuts(ends, p, Len(p), v, Len(v))

MatchesOneOf(patterns, v) == \E i \in 1..Len(patterns) : Matches(patterns[i], v)

\* The loop that backtracks to the last star only decides what the patterns
\* mean: a verdict is "allowed" exactly for a name that no deny pattern matches
\* and, if there are any, an allow pattern does.
VerdictIsRight ==
    verdict # "open" =>
        (verdict = "allowed" <=> /\ name # <<>>
                                 /\ ~MatchesOneOf(deny, name)
                                 /\ allow = <<>> \/ MatchesOneOf(allow, name))

\* No round of the loop comes back to where one was: the star it goes back to moves
\* on, or the star grows, or the pattern goes on behind it.  All three have an end
\* (TypeOK), so there are finitely many rounds.
LoopAdvances ==
    [][matching /\ matching' =>
          \/ starPatternIndex' > starPatternIndex
          \/ /\ starPatternIndex' = starPatternIndex
             /\ \/ starValueIndex' > starValueIndex
                \/ /\ starValueIndex' = starValueIndex
                   /\ patternIndex' > patternIndex]_vars

\* The loop ends for every pattern and name, also where it backtracks.
Decides == <>(verdict # "open")
=============================================================================
