------------------------------- MODULE Config -------------------------------
(***************************************************************************)
(* Where the program may read, answer and post, and with which token its   *)
(* model asks another MCP server: config.Load (config/config.go) with its  *)
(* overrides, cleaning and validation, the expansion of observed           *)
(* categories (cmd/yururi/runtime_helpers.go), NewGateway and its two      *)
(* checks (discordx/gateway.go), and policy.Evaluate, which each read the  *)
(* same lists in a way of their own.                                       *)
(*                                                                         *)
(* A string is an id, padded with blanks or not.  The lists are sets:      *)
(* their order and their repetitions decide nothing.                       *)
(***************************************************************************)
EXTENDS Integers, Sequences, Lists

CONSTANTS Channel, GuildID,  \* what Discord's ids are
          Blank,             \* the empty id
          Unset,             \* of an environment variable
          Token, NoToken,    \* tokens, and a blank one
          Written,           \* configurations in the file
          Environment        \* Environment[key]: values of its variable

Keys == <<"guild", "read", "write", "observe", "excluded", "token">>
Lists == {"read", "write", "observe", "excluded"}

Raw == [id: Channel \cup {GuildID, Blank}, padded: BOOLEAN]
RawGuild == [id: {GuildID, Blank}, padded: BOOLEAN]

\* The arguments of an mcp-remote server: <<"remote">> is the program's name,
\* <<"header">> the word --header, <<"auth", t>> an Authorization with the token t,
\* <<"header=auth", t>> both in one, <<"blank">> only blanks.
Arg == {<<"remote">>, <<"header">>, <<"blank">>} \cup ({"auth", "header=auth"} \X Token)

Configuration == [guild: RawGuild, read: SUBSET Raw, write: SUBSET Raw, observe: SUBSET Raw,
                  excluded: SUBSET Raw, servers: {"nil", "twilog", "other"},
                  remote: BOOLEAN, args: Seq(Arg), bearer: Token \cup {NoToken},
                  header: Token \cup {NoToken}]

\* The guild that is configured, if one is, is the one the bot is a member of.
ASSUME ConfigAssumption ==
    /\ Blank \notin Channel /\ GuildID \notin Channel /\ GuildID # Blank
    /\ NoToken \notin Token
    /\ Written \subseteq Configuration
    /\ Environment["guild"] \subseteq RawGuild \cup {Unset}
    /\ \A key \in Lists : Environment[key] \subseteq (SUBSET Raw) \cup {Unset}
    /\ Environment["token"] \subseteq Token \cup {NoToken, Unset}

VARIABLES
    stage,    \* how far Load and what follows it have come
    looked,     \* the next variable applyEnvOverrides looks up
    conf,     \* the Config
    resolved, \* ObserveChannelIDs after the expansion of the categories
    \* History:
    token,    \* the token the server was to be asked with
    dangling  \* its arguments in the file end with a --header that has no value

configVars == <<stage, looked, conf, resolved, token, dangling>>

Nothing == [guild |-> [id |-> Blank, padded |-> FALSE], read |-> {}, write |-> {},
            observe |-> {}, excluded |-> {},
            servers |-> "nil", remote |-> FALSE, args |-> <<>>,
            bearer |-> NoToken, header |-> NoToken]

ConfigInit == /\ stage = "start"
              /\ looked = 1
              /\ conf = Nothing
              /\ resolved = {}
              /\ token = NoToken
              /\ dangling = FALSE

-----------------------------------------------------------------------------
(* Strings *)

Trim(raw) == [raw EXCEPT !.padded = FALSE]
Plain(id) == [id |-> id, padded |-> FALSE]

CleanList(list) == {Trim(raw) : raw \in list} \ {Plain(Blank)}

\* What a map keyed by trimmed ids holds.
Trimmed(list) == {raw.id : raw \in list} \ {Blank}

-----------------------------------------------------------------------------
(* Arguments *)

CleanArgs(args) == Without(args, <<"blank">>)

\* Those that --header takes for its value.
IsValue(args) ==
    LET f[i \in 1..Len(args)] ==
          i > 1 /\ args[i - 1] = <<"header">> /\ ~f[i - 1]
    IN  f

Dangling(args) ==
    LET n == Len(args) IN n > 0 /\ args[n] = <<"header">> /\ ~IsValue(args)[n]

IsAuthorization(args, i) == IF IsValue(args)[i] THEN args[i][1] = "auth"
                                                ELSE args[i][1] = "header=auth"

\* Slip: only the form --header=... is looked for.
HeaderOfOneForm(args, t) ==
    LET out == [i \in 1..Len(args) |-> IF args[i][1] = "header=auth"
                                       THEN <<"header=auth", t>> ELSE args[i]]
    IN  IF \E i \in 1..Len(args) : args[i][1] = "header=auth"
        THEN out ELSE out \o << <<"header">>, <<"auth", t>> >>

\* ensureMCPRemoteAuthorizationHeader
WithHeader(args, t) ==
    LET out == [i \in 1..Len(args) |-> IF IsAuthorization(args, i)
                                       THEN <<args[i][1], t>> ELSE args[i]]
    IN  IF \E i \in 1..Len(args) : IsAuthorization(args, i)
        THEN out ELSE out \o << <<"header">>, <<"auth", t>> >>

UsesMCPRemote(c) == c.remote \/ (c.args # <<>> /\ c.args[1] = <<"remote">>)

ApplyBearerToken(c) ==
    IF c.bearer = NoToken THEN c
    ELSE [c EXCEPT !.header = c.bearer,
                   !.args = IF UsesMCPRemote(c) THEN WithHeader(c.args, c.bearer) ELSE @]

-----------------------------------------------------------------------------
(* Load *)

ReadFile == /\ stage = "start"
            /\ stage' = "override"
            /\ conf' \in Written
            /\ token' = conf'.bearer
            /\ dangling' = Dangling(CleanArgs(conf'.args))
            /\ UNCHANGED <<looked, resolved>>

\* applyEnvOverrides, one variable after the other.  A variable that is set
\* replaces what the file says, also by nothing; only a blank token is ignored.
OverrideList ==
    /\ stage = "override" /\ looked <= Len(Keys)
    /\ LET key == Keys[looked]
       IN  /\ key # "token"
           /\ \E value \in Environment[key] :
                conf' = IF value = Unset THEN conf
                        ELSE [conf EXCEPT ![key] = IF key = "guild" THEN Trim(value)
                                                                    ELSE CleanList(value)]
    /\ looked' = looked + 1
    /\ UNCHANGED <<stage, resolved, token, dangling>>

\* The token of the one server that has a variable.  Its entry is written into the
\* map of servers, and there is none when the file names no server.
OverrideToken ==
    /\ stage = "override" /\ looked <= Len(Keys) /\ Keys[looked] = "token"
    /\ looked' = looked + 1
    /\ \E value \in Environment["token"] :
         IF value \in {Unset, NoToken}
         THEN UNCHANGED <<stage, conf, token>>
         ELSE /\ stage' = IF conf.servers = "nil" THEN "panicked" ELSE stage
              /\ conf' = IF conf.servers = "nil" THEN conf
                         ELSE [ApplyBearerToken([conf EXCEPT !.bearer = value])
                                 EXCEPT !.servers = "twilog"]
              /\ token' = value
    /\ UNCHANGED <<resolved, dangling>>

\* Slip: the excluded channels stay as they are.
NormalizeSome ==
    /\ stage = "override" /\ looked > Len(Keys)
    /\ stage' = "validate"
    /\ LET c == [conf EXCEPT !.read = CleanList(@), !.write = CleanList(@),
                             !.observe = CleanList(@), !.args = CleanArgs(@)]
       IN  conf' = IF c.servers = "twilog" THEN ApplyBearerToken(c) ELSE c
    /\ UNCHANGED <<looked, resolved, token, dangling>>

\* normalize.  The guild's id is not trimmed.
Normalize ==
    /\ stage = "override" /\ looked > Len(Keys)
    /\ stage' = "validate"
    /\ LET c == [conf EXCEPT !.read = CleanList(@), !.write = CleanList(@),
                             !.observe = CleanList(@), !.excluded = CleanList(@),
                             !.args = CleanArgs(@)]
       IN  conf' = IF c.servers = "twilog" THEN ApplyBearerToken(c) ELSE c
    /\ UNCHANGED <<looked, resolved, token, dangling>>

Validate ==
    /\ stage = "validate"
    /\ stage' = IF /\ conf.guild # Plain(Blank)
                   /\ conf.read # {}
                   /\ conf.write \subseteq conf.read
                THEN "resolve" ELSE "refused"
    /\ UNCHANGED <<looked, conf, resolved, token, dangling>>

\* resolveObserveTextChannels: the text channels Discord lists in the categories,
\* or the ones that were configured when it cannot be asked.
ResolveObserve ==
    /\ stage = "resolve"
    /\ stage' = "running"
    /\ \E discovered \in SUBSET Channel :
         /\ conf.guild.id = Blank => discovered = {}
         /\ resolved' = Trimmed(conf.observe) \cup discovered
    /\ UNCHANGED <<looked, conf, token, dangling>>

ConfigNext == \/ ReadFile
              \/ OverrideList
              \/ OverrideToken
              \/ Normalize
              \/ Validate
              \/ ResolveObserve

ConfigSpec == ConfigInit /\ [][ConfigNext]_configVars

-----------------------------------------------------------------------------
(* What the parts of the program make of it *)

\* NewGateway, and validateReadableChannel and validateWritableChannel.
Readable(c) == c \in Trimmed(conf.read) \cup resolved /\ c \notin Trimmed(conf.excluded)
Writable(c) == c \in Trimmed(conf.write) /\ c \notin Trimmed(conf.excluded)

\* policy.Evaluate compares the ids of a message as they are.
Heard(c) == /\ conf.guild = Plain(GuildID)
            /\ Plain(c) \in conf.read
            /\ Plain(c) \notin conf.excluded

-----------------------------------------------------------------------------
(* Properties *)

\* However the lists are written and overridden, the three that read them agree: a
\* channel that may be posted to is one whose messages are answered, unless the
\* guild's id is padded and nothing is; and one whose messages are answered is one
\* whose history may be read.  No category brings in more than something to read.
AccessIsNested ==
    stage = "running" =>
        \A c \in Channel : /\ Writable(c) /\ ~conf.guild.padded => Heard(c)
                           /\ Heard(c) => Readable(c)
                           /\ Heard(c) => c \in Trimmed(conf.read)

\* The tokens an mcp-remote is asked to send, as it pairs its arguments.
SentTokens == {conf.args[i][2] : i \in {j \in 1..Len(conf.args) : IsAuthorization(conf.args, j)}}

\* Once there is a token the headers and the arguments carry it and no other one
\* that stood in the file; but an argument --header without a value takes the one
\* that is appended for its own.
TokenIsSent ==
    stage = "running" /\ conf.servers = "twilog" /\ token # NoToken =>
        /\ conf.header = token
        /\ UsesMCPRemote(conf) => \/ SentTokens = {token}
                                  \/ dangling
=============================================================================
