------------------------------ MODULE ListFiles ------------------------------
(***************************************************************************)
(* posts.lst and pages.lst as files, and the commands that change them:    *)
(* `new` and `newpage` append a line, `delete` and `deletepage` copy the   *)
(* list without one line to ZINE$LST.TMP, remove the list and rename the   *)
(* copy.  The temporary file is one for both lists.                        *)
(*                                                                         *)
(* The machine may be switched off between any two steps; a list may be    *)
(* read-only, a rename may fail, the disk may be full (the results of      *)
(* fputs, fprintf and fclose are not looked at); a list the user wrote may *)
(* end without a newline.  Builds are here for what they read of the lists.*)
(***************************************************************************)
EXTENDS Naturals, Sequences

CONSTANTS
    Names,        \* the source names
    Joined,       \* two names on one line, or a part of one: no valid name
    MaxLines      \* bound: the lines of a list

ASSUME NamesAssumption == Joined \notin Names
ASSUME LinesAssumption == MaxLines \in Nat

Lists == {"posts", "pages"}

(* A list file: its lines, and whether a newline ends the last one. *)
NoFile == [there |-> FALSE, lines |-> <<>>, ended |-> TRUE]
Holding(lines, ended) == [there |-> TRUE, lines |-> lines, ended |-> ended]
Line(f) == {f.lines[i] : i \in DOMAIN f.lines}

VARIABLES
    file,        \* posts.lst and pages.lst
    temp,        \* ZINE$LST.TMP
    tempOf,      \* history: the list it was copied from
    sources,     \* the source files of each list that exist
    job,         \* the running command
    shown,       \* what the last build that was not refused published
    struck       \* history: lists a fault has spoilt

vars == <<file, temp, tempOf, sources, job, shown, struck>>

NoJob == [step |-> "none"]

(* The list is gone and its copy waits to take its place. *)
Mislaid(l) == ~file[l].there /\ temp.there /\ tempOf = l

(* What a list holds, or will once its copy is renamed. *)
Entries(l) == IF Mislaid(l) THEN temp.lines ELSE file[l].lines

Strike(l) == struck' = struck \cup {l}
Replace(l, f) == file' = [file EXCEPT ![l] = f]

(* What a user may have written: distinct names, perhaps with the newline  *)
(* after the last one missing.                                             *)
WrittenFiles ==
    {f \in {Holding(s, e) : s \in UNION {[1 .. k -> Names] : k \in 0 .. MaxLines},
                             e \in BOOLEAN} :
        /\ f.lines = <<>> => f.ended
        /\ \A i, j \in DOMAIN f.lines : f.lines[i] = f.lines[j] => i = j}

Init ==
    /\ file \in [Lists -> WrittenFiles]
    /\ Line(file["posts"]) \cap Line(file["pages"]) = {}
    /\ temp = NoFile /\ tempOf = "posts"
    /\ sources = [l \in Lists |-> Line(file[l])]
    /\ job = NoJob
    /\ shown = [l \in Lists |-> {}]
    /\ struck = {}

-----------------------------------------------------------------------------
(* `new` and `newpage`. *)

(* create_post and create_page up to the list: the slug is on no list, and *)
(* the source file is new.                                                 *)
StartNew(l, n) ==
    /\ job = NoJob
    /\ n \notin Line(file["posts"]) \cup Line(file["pages"])
    /\ n \notin sources[l]
    /\ Len(file[l].lines) < MaxLines
    /\ sources' = [sources EXCEPT ![l] = @ \cup {n}]
    /\ job' = [step |-> "append", list |-> l, name |-> n]
    /\ UNCHANGED <<file, temp, tempOf, shown, struck>>

(* A wrong version of Appended: the line is written twice. *)
AppendedTwice(f, n) ==
    IF f.ended THEN Holding(f.lines \o <<n, n>>, TRUE)
    ELSE Holding([f.lines EXCEPT ![Len(f.lines)] = Joined], TRUE)

(* A line after a file: a fresh list if there is none; on an unfinished    *)
(* line the name joins the one before it.                                  *)
Appended(f, n) ==
    IF f.ended THEN Holding(Append(f.lines, n), TRUE)
    ELSE Holding([f.lines EXCEPT ![Len(f.lines)] = Joined], TRUE)

(* append_post_list_entry and append_page_list_entry. *)
AppendEntry ==
    /\ job.step = "append"
    /\ LET f == file[job.list] IN
          /\ Replace(job.list, Appended(f, job.name))
          /\ IF Mislaid(job.list) \/ ~f.ended
             THEN Strike(job.list) ELSE UNCHANGED struck
    /\ job' = NoJob
    /\ UNCHANGED <<temp, tempOf, sources, shown>>

(* What a full disk leaves of Appended: nothing more than the list that    *)
(* was opened, a part of the name, or the name without its newline.        *)
CutAppended(f, n) ==
    IF f.ended
    THEN {Holding(f.lines, TRUE)} \cup {Holding(Append(f.lines, m), FALSE) : m \in {n, Joined}}
    ELSE {f, Holding([f.lines EXCEPT ![Len(f.lines)] = Joined], FALSE)}

(* The disk is full, and the command reports success. *)
AppendOnFullDisk ==
    /\ job.step = "append"
    /\ \E g \in CutAppended(file[job.list], job.name) :
          /\ Replace(job.list, g)
          /\ IF Mislaid(job.list) \/ Joined \in Line(g)
             THEN Strike(job.list) ELSE UNCHANGED struck
    /\ job' = NoJob
    /\ UNCHANGED <<temp, tempOf, sources, shown>>

-----------------------------------------------------------------------------
(* `delete` and `deletepage`. *)

(* A wrong version of StartDelete: the source goes first. *)
StartDeleteSourceFirst(l, n) ==
    /\ job = NoJob /\ n \in Line(file[l])
    /\ job' = [step |-> "copy", list |-> l, name |-> n, at |-> 1, removed |-> FALSE]
    /\ temp' = Holding(<<>>, TRUE) /\ tempOf' = l
    /\ IF Mislaid(tempOf) THEN Strike(tempOf) ELSE UNCHANGED struck
    /\ sources' = [sources EXCEPT ![l] = @ \ {n}]
    /\ UNCHANGED <<file, shown>>

(* delete_post and delete_page up to remove_list_entry's fopen of the      *)
(* temporary file, which empties what is there.                            *)
StartDelete(l, n) ==
    /\ job = NoJob /\ n \in Line(file[l])
    /\ job' = [step |-> "copy", list |-> l, name |-> n, at |-> 1, removed |-> FALSE]
    /\ temp' = Holding(<<>>, TRUE) /\ tempOf' = l
    /\ IF Mislaid(tempOf) THEN Strike(tempOf) ELSE UNCHANGED struck
    /\ UNCHANGED <<file, sources, shown>>

(* One turn of the copying loop. *)
CopyLine ==
    /\ job.step = "copy"
    /\ LET f == file[job.list] IN
          /\ job.at <= Len(f.lines)
          /\ IF ~job.removed /\ f.lines[job.at] = job.name
             THEN /\ job' = [job EXCEPT !.at = @ + 1, !.removed = TRUE]
                  /\ UNCHANGED temp
             ELSE /\ job' = [job EXCEPT !.at = @ + 1]
                  /\ temp' = Holding(Append(temp.lines, f.lines[job.at]),
                                     job.at < Len(f.lines) \/ f.ended)
    /\ UNCHANGED <<file, tempOf, sources, shown, struck>>

(* The disk is full: the rest of the copy is missing, and nobody looks. *)
CopyOnFullDisk ==
    /\ job.step = "copy" /\ job.at <= Len(file[job.list].lines)
    /\ job' = [job EXCEPT !.at = Len(file[job.list].lines) + 1, !.removed = TRUE]
    /\ Strike(job.list)
    /\ UNCHANGED <<file, temp, tempOf, sources, shown>>

(* A wrong version of RemoveList: before the copy is complete. *)
RemoveListEarly ==
    /\ job.step = "copy" /\ job.removed
    /\ job' = [job EXCEPT !.step = "rename"]
    /\ \/ Replace(job.list, NoFile)
       \/ UNCHANGED file
    /\ UNCHANGED <<temp, tempOf, sources, shown, struck>>

(* remove(list_path), whose result is not looked at: a read-only list      *)
(* stays.                                                                  *)
RemoveList ==
    /\ job.step = "copy" /\ job.at > Len(file[job.list].lines)
    /\ job' = [job EXCEPT !.step = "rename"]
    /\ \/ Replace(job.list, NoFile)
       \/ UNCHANGED file
    /\ UNCHANGED <<temp, tempOf, sources, shown, struck>>

RenameCopy ==
    /\ job.step = "rename" /\ ~file[job.list].there
    /\ Replace(job.list, temp)
    /\ temp' = NoFile
    /\ job' = [job EXCEPT !.step = "source"]
    /\ UNCHANGED <<tempOf, sources, shown, struck>>

(* The rename fails, always so over a list that is still there, and the    *)
(* copy is removed.                                                        *)
RenameFails ==
    /\ job.step = "rename"
    /\ temp' = NoFile
    /\ IF file[job.list].there THEN UNCHANGED struck ELSE Strike(job.list)
    /\ job' = NoJob
    /\ UNCHANGED <<file, tempOf, sources, shown>>

(* The source file goes last; its output and BUILD.DAT follow. *)
RemoveSource ==
    /\ job.step = "source"
    /\ sources' = [sources EXCEPT ![job.list] = @ \ {job.name}]
    /\ job' = NoJob
    /\ UNCHANGED <<file, temp, tempOf, shown, struck>>

-----------------------------------------------------------------------------
(* The machine, the user and the build. *)

(* The power goes, or the user breaks the command off. *)
PowerOff == /\ job # NoJob /\ job' = NoJob
            /\ UNCHANGED <<file, temp, tempOf, sources, shown, struck>>

(* The user finds ZINE$LST.TMP and gives it the list's name. *)
RenameByHand(l) ==
    /\ job = NoJob /\ Mislaid(l)
    /\ Replace(l, temp) /\ temp' = NoFile
    /\ UNCHANGED <<tempOf, sources, job, shown, struck>>

(* load_entry_list, for what it makes of the lines: a missing posts.lst,   *)
(* an invalid or repeated name, and a missing source refuse the build; a   *)
(* missing pages.lst is a list without entries.                            *)
Loads(l) ==
    /\ l = "posts" => file[l].there
    /\ Line(file[l]) \subseteq sources[l]
    /\ Joined \notin Line(file[l])
    /\ \A i, j \in DOMAIN file[l].lines : file[l].lines[i] = file[l].lines[j] => i = j

(* A wrong version of Build: neither list has to be there. *)
LenientBuild ==
    /\ job = NoJob
    /\ \A l \in Lists : Line(file[l]) \subseteq sources[l] /\ Joined \notin Line(file[l])
    /\ shown' = [l \in Lists |-> Line(file[l])]
    /\ UNCHANGED <<file, temp, tempOf, sources, job, struck>>

Build ==
    /\ job = NoJob
    /\ \A l \in Lists : Loads(l)
    /\ shown' = [l \in Lists |-> Line(file[l])]
    /\ UNCHANGED <<file, temp, tempOf, sources, job, struck>>

Command ==
    \/ \E l \in Lists, n \in Names : StartNew(l, n) \/ StartDelete(l, n)
    \/ AppendEntry \/ CopyLine \/ RemoveList \/ RenameCopy \/ RemoveSource
    \/ Build

Fault == AppendOnFullDisk \/ CopyOnFullDisk \/ RenameFails \/ PowerOff

Next == Command \/ Fault \/ \E l \in Lists : RenameByHand(l)

Spec == Init /\ [][Next]_vars

-----------------------------------------------------------------------------
(* Properties. *)

TypeOK ==
    /\ \A l \in Lists : /\ Line(file[l]) \subseteq Names \cup {Joined}
                        /\ ~file[l].there => file[l] = NoFile
                        /\ Len(file[l].lines) <= MaxLines
    /\ Line(temp) \subseteq Names \cup {Joined}
    /\ tempOf \in Lists /\ sources \in [Lists -> SUBSET Names]
    /\ job.step \in {"none", "append", "copy", "rename", "source"}
    /\ struck \subseteq Lists

(* Reading the copy for a list that is gone, the commands change the lists *)
(* as NameLists says: remove_list_entry (scaffold.c:164-213) takes one     *)
(* entry or none, wherever the power goes, and leaves the other list       *)
(* alone.  The exceptions are the faults that strike a list: a full disk   *)
(* (fputs is not looked at, :197), a rename that fails after the remove    *)
(* (:207), an append to an unfinished line, cut by a full disk, or beside  *)
(* a copy that waits (:128-162), and a delete in the other list, whose     *)
(* fopen empties the only copy of a list that is gone (:175).              *)
Abstract == INSTANCE NameLists WITH
    Names <- Names \cup {Joined}, entries <- [l \in Lists |-> Entries(l)]
ListsKeepTheirNames == Abstract!Spec

(* Wherever a command stops, every name on an unspoilt list has its source *)
(* file, also once the user renames the copy of a list that is gone: the   *)
(* source is written before the name is listed (scaffold.c:837-867) and    *)
(* removed after the list is replaced (:967-972).                          *)
RecoveryLoads ==
    \A l \in Lists \ struck : {Entries(l)[i] : i \in DOMAIN Entries(l)} \subseteq sources[l]

(* A build never unpublishes a post that is still on posts.lst or on the   *)
(* copy of it: without posts.lst it is refused (content.c:475-479).  The   *)
(* same is not true of pages.lst, which may be missing (:480).             *)
MislaidPostsStay ==
    [][\A n \in shown["posts"] \ shown'["posts"] :
          \/ "posts" \in struck
          \/ \A i \in DOMAIN Entries("posts") : Entries("posts")[i] # n]_vars
=============================================================================
