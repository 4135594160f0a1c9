------------------------------ MODULE SiteFiles ------------------------------
(***************************************************************************)
(* The files a build copies: style sheets, fonts, the theme script and     *)
(* images.  A job has a target under OUT, the places its source is looked  *)
(* for, and for some the text that is written without a source.  A target  *)
(* is left alone when it is not older than its source and byte for byte    *)
(* the same.                                                               *)
(*                                                                         *)
(* A copy may stop half way and leave part of a file: the machine is       *)
(* switched off, or the disk is full, which copy_file does not notice.     *)
(* The clock is DOS's, which starts anywhere; files come from elsewhere    *)
(* with any stamp.                                                         *)
(***************************************************************************)
EXTENDS Naturals, Sequences

CONSTANTS
    Images,       \* names of images
    BadNames,     \* those that are not in the form is_valid_dos_image_name wants
    Contents,     \* what a file of the user may hold
    MaxTime,      \* bound: the stamps
    MaxImages     \* bound: the images a site names

ASSUME CopyBoundsAssumption == MaxTime \in Nat /\ MaxImages \in Nat

(* Files by place and name.  `Site` is the user's directory, `Parent` the  *)
(* one above it.                                                           *)
Site(name) == <<"SITE", name>>
Parent(name) == <<"PARENT", name>>
ParentFonts(name) == <<"PARENT OUT", name>>
Out(name) == <<"OUT", name>>
Picture(name) == <<"IMG", name>>
OutPicture(name) == <<"OUT IMG", name>>

(* find_theme_source: the font is looked for in three places, VGA.TTF also *)
(* under the name of the fallback.                                         *)
FontPlaces(f) ==
    <<Site(f), Parent(f), ParentFonts(f)>>
    \o (IF f = "VGA.TTF" THEN <<Site("font.ttf"), Parent("font.ttf")>> ELSE <<>>)

Stamps == 0 .. MaxTime
NotThere == [holds |-> "nothing"]
Partial == "part of a file"
File(c, t) == [holds |-> c, stamp |-> t]

Job(to, from, text) == [to |-> to, from |-> from, text |-> text]
None == "none"

Themes == {"vga", "win98", "crt"}
Fonts == {"VGA.TTF", "CRT.TTF", "W98.TTF"}

CssName == [vga |-> "VGA.CSS", win98 |-> "WIN98.CSS", crt |-> "CRT.CSS"]
CssText == [vga |-> "default VGA", win98 |-> "default WIN98", crt |-> "default CRT"]
ScriptText == "default script"
SrcName == [vga |-> "VGA.SRC", win98 |-> "WIN98.SRC", crt |-> "CRT.SRC"]

VARIABLES
    disk,        \* every file, by place and name
    clock,       \* the clock of the machine
    theme,       \* the theme of site.txt
    images,      \* the images assets.lst and the bodies name, in order
    at,          \* the number of the running build's next job
    step,        \* "idle", "next" (a job) or "copying"
    changed,     \* g_theme_write_count and g_scaffold_copy_count together
    settled,     \* history: no edit and no fault since the last whole build
    quiet,       \* history: the running build began like that
    cut,         \* history: a copy of the running build was cut by a full disk
    early        \* history: a target has been given an older stamp than its source

choices == <<theme, images>>
history == <<settled, quiet, cut, early>>
copyVars == <<disk, clock, choices, at, step, changed, history>>

Holds(f) == disk[f].holds
There(f) == disk[f] # NotThere

Targets == {Out(CssName[t]) : t \in Themes} \cup {Out("THEME.CSS"), Out("THEME.JS")}
           \cup {Out(f) : f \in Fonts} \cup {OutPicture(i) : i \in Images}
FontFiles == UNION {{FontPlaces(f)[i] : i \in DOMAIN FontPlaces(f)} : f \in Fonts}
UserFiles == {Site(SrcName[t]) : t \in Themes} \cup {Site("THEME.JS")}
             \cup FontFiles \cup {Picture(i) : i \in Images}
ImageLists == UNION {[1 .. n -> Images] : n \in 0 .. MaxImages}

CopyInit ==
    /\ disk \in {f \in [UserFiles \cup Targets -> {NotThere} \cup {File(c, 0) : c \in Contents}] :
                    \A o \in Targets : f[o] = NotThere}
    /\ clock \in Stamps
    /\ theme \in Themes
    /\ images \in ImageLists
    /\ at = 1 /\ step = "idle" /\ changed = 0
    /\ settled = FALSE /\ quiet = FALSE
    /\ cut = FALSE /\ early = FALSE

-----------------------------------------------------------------------------
(* The user, between builds. *)
Edited == /\ step = "idle" /\ settled' = FALSE
          /\ UNCHANGED <<clock, at, step, changed, quiet, cut, early>>

(* A source is written, or brought from elsewhere with the stamp it had.   *)
Save(f, c, t) == Edited /\ disk' = [disk EXCEPT ![f] = File(c, t)] /\ UNCHANGED choices
Delete(f) == Edited /\ There(f) /\ disk' = [disk EXCEPT ![f] = NotThere] /\ UNCHANGED choices
ChooseTheme(t) == Edited /\ t # theme /\ theme' = t /\ UNCHANGED <<disk, images>>
NameImages(s) == Edited /\ s # images /\ images' = s /\ UNCHANGED <<disk, theme>>
SetClock(t) == clock' = t /\ UNCHANGED <<disk, choices, at, step, changed, history>>

-----------------------------------------------------------------------------
(* The build: write_theme_css, the fonts, write_theme_script and           *)
(* copy_site_assets, in the order of build_current_site.                   *)

CssJob(t) == Job(Out(CssName[t]), <<Site(SrcName[t])>>, CssText[t])

ActiveCss == Job(Out("THEME.CSS"), <<Out(CssName[theme])>>, None)
FontJob(f) == Job(Out(f), FontPlaces(f), None)
ScriptJob == Job(Out("THEME.JS"), <<Site("THEME.JS")>>, ScriptText)
ImageJob(i) == Job(OutPicture(i), <<Picture(i)>>, None)

FixedJobs == <<CssJob("vga"), CssJob("win98"), CssJob("crt"), ActiveCss,
               FontJob("VGA.TTF"), FontJob("CRT.TTF"), FontJob("W98.TTF"), ScriptJob>>
AllJobs == FixedJobs \o [i \in DOMAIN images |-> ImageJob(images[i])]
Jobs == {AllJobs[i] : i \in DOMAIN AllJobs}
First == AllJobs[at]

(* A wrong version of StartBuild: the counts go on from the last build. *)
StartBuildCounting ==
    /\ step = "idle" /\ step' = "next"
    /\ at' = 1 /\ UNCHANGED changed
    /\ quiet' = settled /\ settled' = FALSE /\ cut' = FALSE
    /\ UNCHANGED <<disk, clock, choices, early>>

StartBuild ==
    /\ step = "idle" /\ step' = "next"
    /\ at' = 1 /\ changed' = 0
    /\ quiet' = settled /\ settled' = FALSE /\ cut' = FALSE
    /\ UNCHANGED <<disk, clock, choices, early>>

(* The first place that has a file, or nothing. *)
Found(j) == {j.from[i] : i \in {k \in DOMAIN j.from : There(j.from[k])
                                   /\ \A m \in 1 .. k - 1 : ~There(j.from[m])}}

(* A wrong version of Needed: by the stamps alone. *)
NeededByStamp(j) ==
    \/ \E f \in Found(j) : ~(There(j.to) /\ disk[j.to].stamp >= disk[f].stamp)
    \/ Found(j) = {} /\ j.text # None /\ Holds(j.to) # j.text

(* A wrong version of Needed: also at the same stamp. *)
NeededAtSameStamp(j) ==
    \/ \E f \in Found(j) :
          ~(There(j.to) /\ disk[j.to].stamp > disk[f].stamp /\ Holds(j.to) = Holds(f))
    \/ Found(j) = {} /\ j.text # None /\ Holds(j.to) # j.text

(* should_copy_file, and file_matches_text where there is no source. *)
Needed(j) ==
    \/ \E f \in Found(j) :
          ~(There(j.to) /\ disk[j.to].stamp >= disk[f].stamp /\ Holds(j.to) = Holds(f))
    \/ Found(j) = {} /\ j.text # None /\ Holds(j.to) # j.text

(* What a job writes. *)
Wanted(j) == IF Found(j) = {} THEN j.text ELSE Holds(CHOOSE f \in Found(j) : TRUE)

Advance == at' = at + 1 /\ step' = "next"

Bad(j) == \E i \in BadNames : j.to = OutPicture(i)

(* A job is next. *)
AtJob == step = "next" /\ at <= Len(AllJobs)

UpToDate ==
    /\ AtJob /\ ~Bad(First) /\ ~Needed(First)
    /\ Advance
    /\ UNCHANGED <<disk, clock, choices, changed, history>>

(* The count goes up and the target is opened, which empties it.  (For a   *)
(* text it goes up after the writing; a build that gives up in between     *)
(* reports no count.)                                                      *)
OpenTarget ==
    /\ AtJob /\ ~Bad(First) /\ Needed(First)
    /\ disk' = [disk EXCEPT ![First.to] = File(Partial, clock)]
    /\ changed' = changed + 1
    /\ step' = "copying"
    /\ UNCHANGED <<clock, choices, at, history>>

(* The rest of the file is written, and the file closed. *)
Complete ==
    /\ step = "copying"
    /\ disk' = [disk EXCEPT ![First.to] = File(Wanted(First), clock)]
    /\ early' = (early \/ \E f \in Found(First) : disk[f].stamp > clock)
    /\ Advance
    /\ UNCHANGED <<clock, choices, changed, settled, quiet, cut>>

(* The pages follow, which are BuildSite's. *)
CopiesDone ==
    /\ step = "next" /\ at > Len(AllJobs)
    /\ step' = "idle" /\ at' = 1
    /\ settled' = ~cut
    /\ UNCHANGED <<disk, clock, choices, changed, quiet, cut, early>>

-----------------------------------------------------------------------------
(* What goes wrong. *)
GiveUp == /\ step' = "idle" /\ at' = 1
          /\ UNCHANGED <<disk, clock, choices, changed, history>>

(* A name in assets.lst or in a body that is no image name ends the build  *)
(* when its turn comes, after the files before it.                         *)
BadImage == AtJob /\ Bad(First) /\ GiveUp

(* The target cannot be opened; the power goes; the user breaks off. *)
Stop == step # "idle" /\ GiveUp

(* The disk is full.  copy_file leaves the part that fitted and reports    *)
(* success; write_text_if_needed looks at fwrite's result and gives up,    *)
(* which is Stop.                                                          *)
FullDisk ==
    /\ step = "copying" /\ Found(First) # {}
    /\ Advance /\ cut' = TRUE
    /\ UNCHANGED <<disk, clock, choices, changed, settled, quiet, early>>

User ==
    \/ \E f \in UserFiles : Delete(f) \/ \E c \in Contents, t \in Stamps : Save(f, c, t)
    \/ \E t \in Themes : ChooseTheme(t)
    \/ \E s \in ImageLists : NameImages(s)
    \/ \E t \in Stamps : SetClock(t)

CopyBuild == StartBuild \/ UpToDate \/ OpenTarget \/ Complete \/ BadImage \/ CopiesDone

CopyFault == Stop \/ FullDisk

CopyNext == User \/ CopyBuild \/ CopyFault

CopySpec == CopyInit /\ [][CopyNext]_copyVars

-----------------------------------------------------------------------------
(* Properties. *)

(* With the types: no job of a build is counted twice. *)
CopiesTypeOK ==
    /\ DOMAIN disk = UserFiles \cup Targets
    /\ \A f \in DOMAIN disk :
          There(f) => /\ disk[f].stamp \in Stamps
                      /\ f \in UserFiles => Holds(f) \in Contents
    /\ clock \in Stamps /\ theme \in Themes /\ images \in ImageLists
    /\ step \in {"idle", "next", "copying"}
    /\ at \in 1 .. Len(AllJobs) + (IF step = "copying" THEN 0 ELSE 1)
    /\ changed \in Nat
    /\ step = "next" => changed < at
    /\ step = "copying" => changed <= at

(* After a whole build every target is what its source, or its default     *)
(* text, says, and THEME.CSS is the style sheet of the theme in site.txt:  *)
(* whatever was copied half before, however the stamps and the clock run,  *)
(* and whichever of its places a font is found in.                         *)
Done(j) == Found(j) # {} \/ j.text # None => There(j.to) /\ Holds(j.to) = Wanted(j)
CopiesAreCurrent == settled => \A j \in Jobs : Done(j)

(* README.md:361-377: copies are skipped when nothing has changed, and a   *)
(* no-op build says `0 changes`; of the copies this is so unless a source  *)
(* was stamped ahead of the clock when it was copied, for its target stays *)
(* older and is copied again by every build (util.c:283-305).              *)
QuietRebuild == quiet /\ ~early => changed = 0
=============================================================================
