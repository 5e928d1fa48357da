---------------------------- MODULE MCToolPolicy ----------------------------
(***************************************************************************)
(* An instance of ToolPolicy: every name of up to four letters of two,     *)
(* every allow list of one pattern of up to four characters, and lists of  *)
(* none, of a blank pattern and of two.                                    *)
(***************************************************************************)
EXTENDS ToolPolicy

CONSTANTS a, b

UpTo(n, S) == UNION {[1..k -> S] : k \in 0..n}

Names == UpTo(4, Letter)
SomePatterns == {<<Star, b>>, <<a, Star>>, <<Star, a, Star, b>>}
AllowLists == {<<>>} \cup {<<p>> : p \in UpTo(4, Letter \cup {Star})}
                     \cup {<<p, q>> : p, q \in SomePatterns}
DenyLists == {<<>>, << <<>> >>, << <<a, Star, a>> >>, << <<b>>, <<Star, b, Star, b>> >>}
=============================================================================
