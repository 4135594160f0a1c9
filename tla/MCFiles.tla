------------------------------- MODULE MCFiles -------------------------------
(***************************************************************************)
(* The two modules of files that are replaced on a machine that may fail,  *)
(* for TLC: ListFiles with three names and lists of at most three lines,   *)
(* SiteFiles with a good and a bad image name; budgets for the commands,   *)
(* edits, builds and faults.  A behaviour is one of one module; the other  *)
(* stays at an initial state.                                              *)
(***************************************************************************)
EXTENDS ListFiles, SiteFiles, TLC

CONSTANTS MaxCommands, MaxListFaults, MaxEdits, MaxBuilds, MaxCopyFaults

VARIABLES part, commands, edits, builds, faults

budgets == <<commands, edits, builds, faults>>
mcvars == <<vars, copyVars, part, budgets>>

(* No name of a list is special. *)
Permuted == Permutations(Names)

(* The files of the user that come and go; the others are not there. *)
Varied == {Site("VGA.SRC"), Site("VGA.TTF"), Site("font.ttf"), Picture("A.PNG")}
Given == {Site("VGA.SRC"), Site("font.ttf"), Picture("A.PNG")}

MCInit ==
    /\ part \in {"lists", "copies"}
    /\ Init
    /\ disk = [f \in UserFiles \cup Targets |-> IF f \in Given THEN File("old", 0) ELSE NotThere]
    /\ CopyInit
    /\ part = "copies" => \A l \in Lists : file[l] = Holding(<<>>, TRUE)
    /\ theme = "vga" /\ images = <<"A.PNG">>
    /\ part = "lists" => clock = 0
    /\ commands = 0 /\ edits = 0 /\ builds = 0 /\ faults = 0

Starts == job = NoJob /\ job' # NoJob

ListStep ==
    /\ part = "lists"
    /\ \/ /\ Command
          /\ commands' = commands + (IF Starts THEN 1 ELSE 0)
          /\ commands' <= MaxCommands
          /\ UNCHANGED faults
       \/ Fault /\ faults < MaxListFaults /\ faults' = faults + 1 /\ UNCHANGED commands
       \/ (\E l \in Lists : RenameByHand(l)) /\ UNCHANGED <<commands, faults>>
    /\ UNCHANGED <<copyVars, part, edits, builds>>

CopyStep ==
    /\ part = "copies"
    /\ \/ /\ User /\ edits < MaxEdits /\ edits' = edits + 1
          /\ \A f \in UserFiles \ Varied : disk'[f] = disk[f]
          /\ theme' \in {"vga", "crt"}
          /\ UNCHANGED <<faults, builds>>
       \/ /\ CopyBuild
          /\ builds' = builds + (IF step = "idle" THEN 1 ELSE 0) /\ builds' <= MaxBuilds
          /\ UNCHANGED <<edits, faults>>
       \/ CopyFault /\ faults < MaxCopyFaults /\ faults' = faults + 1 /\ UNCHANGED <<edits, builds>>
    /\ UNCHANGED <<vars, part, commands>>

MCNext == ListStep \/ CopyStep

MCSpec == MCInit /\ [][MCNext]_mcvars
=============================================================================
