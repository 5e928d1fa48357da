------------------------------- MODULE Lists -------------------------------
(***************************************************************************)
(* The loop of config/config.go and mcpserver/server.go that builds a list *)
(* anew and skips what is blank (cleanList, normalizeToolPatterns).        *)
(***************************************************************************)
EXTENDS Integers, Sequences

\* s with every e left out: Kept[i] is what the first i elements leave.
Without(s, e) ==
    LET Kept[i \in 0..Len(s)] == IF i = 0 THEN <<>>
                                 ELSE IF s[i] = e THEN Kept[i - 1]
                                 ELSE Append(Kept[i - 1], s[i])
    IN  Kept[Len(s)]
=============================================================================
