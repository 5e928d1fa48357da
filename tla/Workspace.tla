------------------------------ MODULE Workspace ------------------------------
(***************************************************************************)
(* The Markdown files that are the program's memory, prompt/prompt.go: at  *)
(* every start those that are missing are made from templates, later a     *)
(* turn's model edits them, and every turn of the program reads them for   *)
(* its instructions.                                                       *)
(*                                                                         *)
(* Nothing is locked: os.WriteFile, of the program and of the model's      *)
(* tools, empties a file before it fills it, and the program or the model  *)
(* may die in between.                                                     *)
(***************************************************************************)
EXTENDS Integers, Sequences

CONSTANTS Order,     \* instructionOrder, the names of the files
          MaxEdits,  \* bound: edits by the model
          MaxCrashes \* bound: ends of the program

ASSUME WorkspaceAssumption == /\ Order \in Seq(STRING) /\ Order # <<>>
                              /\ MaxEdits \in Nat
                              /\ MaxCrashes \in Nat

File == {Order[i] : i \in 1..Len(Order)}

\* A file is absent, empty, the template, or what an edit (its number) left.
Absent == "absent"
Empty == "empty"
Template == "template"

VARIABLES
    file,      \* the files on disk
    program,   \* "down", "prepare", "write" (the file it has just emptied) or "running"
    pos,      \* the file EnsureWorkspaceInstructionFiles is at
    editing,   \* files that an edit has emptied and not filled yet
    edits,     \* edits so far
    reading,   \* how many files LoadWorkspaceInstructions has read, for a turn
    content,   \* WorkspaceInstructions.Content: the files that were not blank
    crashes,   \* ends of the program so far
    \* History:
    torn,      \* files that were left empty by a death between the two halves of a write
    cut        \* files that were read in the middle of an edit, or left so by a death

workspaceVars == <<file, program, pos, editing, edits, reading, content, crashes,
                   torn, cut>>

WorkspaceInit == /\ file = [f \in File |-> Absent]
                 /\ program = "down"
                 /\ pos = 1
                 /\ editing = {}
                 /\ edits = 0
                 /\ reading = 0
                 /\ content = {}
                 /\ crashes = 0
                 /\ torn = {}
                 /\ cut = {}

-----------------------------------------------------------------------------
(* EnsureWorkspaceInstructionFiles, at every start *)

StartProgram == /\ program = "down"
                /\ program' = "prepare"
                /\ pos' = 1
                /\ UNCHANGED <<file, editing, edits, reading, content, crashes, torn, cut>>

\* Slip: the first file that is there ends the loop.
FindAndStop == /\ program = "prepare" /\ pos <= Len(Order)
               /\ file[Order[pos]] # Absent
               /\ pos' = Len(Order) + 1
               /\ UNCHANGED <<file, program, editing, edits, reading, content, crashes, torn, cut>>

\* os.Stat finds the file, whatever is in it.
Find == /\ program = "prepare" /\ pos <= Len(Order)
        /\ file[Order[pos]] # Absent
        /\ pos' = pos + 1
        /\ UNCHANGED <<file, program, editing, edits, reading, content, crashes, torn, cut>>

\* Slip: the templates are written at every start.
CreateAnew == /\ program = "prepare" /\ pos <= Len(Order)
              /\ program' = "write"
              /\ file' = [file EXCEPT ![Order[pos]] = Empty]
              /\ UNCHANGED <<pos, editing, edits, reading, content, crashes, torn, cut>>

\* It does not: the template is written, in two steps.
Create == /\ program = "prepare" /\ pos <= Len(Order)
          /\ file[Order[pos]] = Absent
          /\ program' = "write"
          /\ file' = [file EXCEPT ![Order[pos]] = Empty]
          /\ UNCHANGED <<pos, editing, edits, reading, content, crashes, torn, cut>>

Fill == /\ program = "write"
        /\ program' = "prepare"
        /\ file' = [file EXCEPT ![Order[pos]] = Template]
        /\ pos' = pos + 1
        /\ UNCHANGED <<editing, edits, reading, content, crashes, torn, cut>>

Prepared == /\ program = "prepare" /\ pos > Len(Order)
            /\ program' = "running"
            /\ reading' = 0 /\ content' = {} /\ cut' = {}
            /\ UNCHANGED <<file, pos, editing, edits, crashes, torn>>

-----------------------------------------------------------------------------
(* While the program runs *)

\* LoadWorkspaceInstructions reads one file after the other; a blank one is left
\* out as one that is not there.
ReadNext ==
    /\ program = "running" /\ reading < Len(Order)
    /\ LET f == Order[reading + 1]
       IN  /\ content' = IF file[f] \in {Absent, Empty} THEN content ELSE content \cup {f}
           /\ cut' = IF f \in editing \cup torn THEN cut \cup {f} ELSE cut
    /\ reading' = reading + 1
    /\ UNCHANGED <<file, program, pos, editing, edits, crashes, torn>>

\* The next turn reads them again.
NextTurn == /\ program = "running" /\ reading = Len(Order)
            /\ reading' = 0 /\ content' = {} /\ cut' = {}
            /\ UNCHANGED <<file, program, pos, editing, edits, crashes, torn>>

\* The model of some turn edits a file.
BeginEdit(f) == /\ program = "running" /\ edits < MaxEdits
                /\ f \notin editing
                /\ edits' = edits + 1
                /\ editing' = editing \cup {f}
                /\ file' = [file EXCEPT ![f] = Empty]
                /\ UNCHANGED <<program, pos, reading, content, crashes, torn, cut>>

EndEdit(f) == /\ f \in editing
              /\ editing' = editing \ {f}
              /\ file' = [file EXCEPT ![f] = "edited"]
              /\ torn' = torn \ {f}
              /\ UNCHANGED <<program, pos, edits, reading, content, crashes, cut>>

\* stopSessionLocked kills the app-server and its tools with it, in the middle of
\* whatever they write.
KillServer == /\ editing # {}
              /\ torn' = torn \cup editing
              /\ editing' = {}
              /\ UNCHANGED <<file, program, pos, edits, reading, content, crashes, cut>>

\* The program ends.  Its app-server may finish an edit after it.
Die == /\ program # "down" /\ crashes < MaxCrashes
       /\ program' = "down"
       /\ crashes' = crashes + 1
       /\ torn' = IF program = "write" THEN torn \cup {Order[pos]} ELSE torn
       /\ UNCHANGED <<file, pos, editing, edits, reading, content, cut>>

WorkspaceNext == \/ StartProgram \/ Find \/ Create \/ Fill \/ Prepared
                 \/ ReadNext \/ NextTurn
                 \/ \E f \in File : BeginEdit(f) \/ EndEdit(f)
                 \/ KillServer
                 \/ Die

WorkspaceSpec == WorkspaceInit /\ [][WorkspaceNext]_workspaceVars

-----------------------------------------------------------------------------
(* Properties *)

\* The instructions of a turn have every file in them, but for one whose writing a
\* death cut short, at any start before this one, or that was being written as it
\* was read.  An empty file is there for os.Stat: no start makes it again.
InstructionsComplete ==
    program = "running" =>
        \A i \in 1..reading : Order[i] \in content \cup cut

\* What the model has written is gone only by its own hand: no start, after
\* whatever crash, puts a template in its place.
MemoryIsKept ==
    [][\A f \in File : file[f] = "edited" /\ file'[f] # "edited" => f \in editing']_workspaceVars
=============================================================================
