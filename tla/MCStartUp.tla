------------------------------ MODULE MCStartUp ------------------------------
(***************************************************************************)
(* What the program settles when it starts: the patterns of the tool       *)
(* policy, the channels and the token of the configuration, the files of   *)
(* the workspace.  The three have no state in common and are run apart:    *)
(* the second and third only once a call without a name has been refused.  *)
(***************************************************************************)
EXTENDS MCToolPolicy, Config, Workspace

CONSTANTS c1, c2, old, ofFile, ofEnv

\* The lists have up to two entries of these.
Entry == {[id |-> c1, padded |-> FALSE], [id |-> c1, padded |-> TRUE],
          [id |-> c2, padded |-> FALSE], [id |-> Blank, padded |-> TRUE]}
List == {{}} \cup {{x, y} : x, y \in Entry}
Guild == {[id |-> GuildID, padded |-> p] : p \in BOOLEAN}
           \cup {[id |-> Blank, padded |-> TRUE]}

\* Configurations that differ in their lists, and in the entry of the one server.
ListsWritten ==
    {[Nothing EXCEPT !.guild = g, !.read = r, !.write = w, !.observe = o, !.excluded = x] :
        g \in Guild, r \in List, w \in List, o \in {{}, {[id |-> c2, padded |-> TRUE]}},
        x \in List}

Args == UpTo(4, {<<"remote">>, <<"header">>, <<"auth", old>>, <<"header=auth", old>>,
                 <<"blank">>})
ServersWritten ==
    {[Nothing EXCEPT !.guild = Plain(GuildID), !.read = {Plain(c1)}, !.servers = "twilog",
                     !.remote = m, !.args = args, !.bearer = t] :
        m \in BOOLEAN, args \in Args, t \in {NoToken, ofFile}}

MCWritten == ListsWritten \cup ServersWritten
               \cup {[Nothing EXCEPT !.guild = Plain(GuildID), !.read = {Plain(c1)},
                                     !.servers = "other"]}

MCEnvironment ==
    [key \in {"guild", "read", "write", "observe", "excluded", "token"} |->
        CASE key = "guild"    -> {Unset, [id |-> GuildID, padded |-> TRUE]}
          [] key = "token"    -> {Unset, NoToken, ofEnv}
          [] key = "read"     -> {Unset, {}, {[id |-> c1, padded |-> TRUE]}}
          [] key = "excluded" -> {Unset, {[id |-> c2, padded |-> TRUE]}}
          [] OTHER            -> {Unset, {}, {Plain(c2), Plain(Blank)}}]

-----------------------------------------------------------------------------
MCOrder == <<"YURURI.md", "SOUL.md", "MEMORY.md">>

PolicyDone == verdict # "open" /\ name = <<>> /\ allow = <<>> /\ deny = <<>>

StartUpNext == \/ /\ Next
                  /\ UNCHANGED <<configVars, workspaceVars>>
               \/ /\ PolicyDone /\ crashes = 0 /\ program = "down"
                  /\ ConfigNext
                  /\ UNCHANGED <<vars, workspaceVars>>
               \/ /\ PolicyDone /\ stage = "start"
                  /\ WorkspaceNext
                  /\ UNCHANGED <<vars, configVars>>

StartUpInit == Init /\ ConfigInit /\ WorkspaceInit

StartUpSpec == /\ StartUpInit
               /\ [][StartUpNext]_<<vars, configVars, workspaceVars>>
               /\ WF_vars(Next)
=============================================================================
