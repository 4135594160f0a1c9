----------------------------- MODULE SiteCommands -----------------------------
(***************************************************************************)
(* The commands of zine.exe that change the user's files: `new`,           *)
(* `newpage`, `delete`, `deletepage`, `clean` and `init`, beside `build`.  *)
(*                                                                         *)
(* A command is a few changes of files, one after the other, and may stop  *)
(* between any two: an fopen fails, or the machine is switched off.  Each  *)
(* change is an Edit or a Drop of BuildSite, so that every behaviour here  *)
(* is one of BuildSite and what is proved there holds here.                *)
(*                                                                         *)
(* A list file may be missing, lack the newline of its last line, or hold  *)
(* a line that is no valid name; what its other lines name is in postsLst  *)
(* or pagesLst.  What becomes of ZINE$LST.TMP and of a list on a full disk *)
(* is the subject of ListFiles and left out here.                          *)
(***************************************************************************)
EXTENDS BuildSite, Sequences

CONSTANTS
    NewSource,     \* the source that `new` and `newpage` write
    SlugNumber,    \* the n of a post with slug p000n, else 0
    StarterPosts,  \* the posts.lst and the pages.lst that `init` writes,
    StarterPages,
    StarterSource  \* and what it writes for each of their names

ASSUME PagesAssumption == IsFiniteSet(Pages)
ASSUME NewSourceAssumption == NewSource \in Versions /\ NewSource.fits /\ ~NewSource.meta.draft
ASSUME SlugNumberAssumption == SlugNumber \in [Posts -> Nat]
ASSUME StarterAssumption == /\ StarterPosts \in Lists(Posts) /\ StarterPages \in Lists(Pages)
                            /\ StarterPosts # <<>> /\ StarterSource \in Versions

VARIABLES
    listFile, \* the state of the files posts.lst and pages.lst
    job,      \* the running command: its kind, its source and its next step
    gone,     \* the outputs it has still to remove
    sure,     \* history: a finished delete will have removed the output
    deleted   \* history: the sources so deleted, and not listed since

files == <<vars, listFile>>
cvars == <<files, job, gone, sure, deleted>>

NoJob == [kind |-> "none"]
Sources == ({"post"} \X Posts) \cup ({"page"} \X Pages)
ListedSources == ({"post"} \X Listed(postsLst)) \cup ({"page"} \X Listed(pagesLst))
Source(s) == IF s[1] = "post" THEN postSrc[s[2]] ELSE pageSrc[s[2]]
Starters == ({"post"} \X Listed(StarterPosts)) \cup ({"page"} \X Listed(StarterPages))

(* The list files.  "open" is a file whose last line has no newline,       *)
(* "joined" one with two names on a line.                                  *)
Kinds == {"post", "page"}
FileStates == {"whole", "open", "joined", "missing"}
List(k) == IF k = "post" THEN postsLst ELSE pagesLst
ListsOf(k) == IF k = "post" THEN Lists(Posts) ELSE Lists(Pages)
EditList(k, l) == \/ k = "post" /\ EditPostsLst(l)
                  \/ k = "page" /\ EditPagesLst(l)
Mark(k, state) == listFile' = [listFile EXCEPT ![k] = state]

(* load_entry_list with each of the lists: posts.lst must be there, and no *)
(* line may be invalid.  A build is refused otherwise.                     *)
ListsLoad(file) == /\ file["post"] \notin {"missing", "joined"}
                   /\ file["page"] # "joined"
SiteLoads == Loadable /\ ListsLoad(listFile)

CInit == /\ Init
         /\ listFile \in [Kinds -> FileStates]
         /\ \A k \in Kinds : listFile[k] = "missing" => List(k) = <<>>
         /\ job = NoJob /\ gone = {} /\ sure = FALSE
         /\ deleted = {}

-----------------------------------------------------------------------------
(* One change of a file. *)
EditSource(s, v) == \/ s[1] = "post" /\ EditPost(s[2], v)
                    \/ s[1] = "page" /\ EditPage(s[2], v)

SameOrder(l, m) ==
    \A q, r \in Listed(l) \cap Listed(m) :
        Place(l, q) < Place(l, r) <=> Place(m, q) < Place(m, r)
Without(l, x, m) == Listed(m) = Listed(l) \ {x} /\ SameOrder(l, m)

(* append_post_list_entry and append_page_list_entry.  The name goes on a  *)
(* line of its own, or else behind what the last line holds: an empty line *)
(* takes it, a name makes one bad line of the two, a comment swallows it.  *)
AppendEntry(s) ==
    LET k == s[1]
        l == List(k)
    IN  \/ /\ EditList(k, Append(l, s[2]))
           /\ Mark(k, IF listFile[k] = "joined" THEN "joined" ELSE "whole")
        \/ /\ listFile[k] = "open" /\ l # <<>>
           /\ \E m \in ListsOf(k) : Without(l, l[Len(l)], m) /\ EditList(k, m)
           /\ Mark(k, "joined")
        \/ /\ listFile[k] = "open"
           /\ EditList(k, l)
           /\ Mark(k, "whole")

-----------------------------------------------------------------------------
(* Starting a command. *)
Ready == pc = "idle" /\ job = NoJob
Begin(kind, s, step) == job' = [kind |-> kind, src |-> s, step |-> step]

(* Wrong versions of StartNew and StartDelete: the lists are not searched; *)
(* the source file goes and its entry stays.                               *)
StartNewUnseen(s) ==
    /\ Ready
    /\ Source(s) = Unreadable
    /\ Begin("new", s, "write")
    /\ UNCHANGED <<files, gone, sure, deleted>>
StartDeleteFile(s) ==
    /\ Ready /\ s \in ListedSources
    /\ Begin("delete", s, "remove")
    /\ gone' = {} /\ sure' = FALSE
    /\ UNCHANGED <<files, deleted>>

(* create_post and create_page: the slug is on neither list and the source *)
(* file does not exist.                                                    *)
StartNew(s) ==
    /\ Ready
    /\ s[2] \notin Listed(postsLst) \cup Listed(pagesLst)
    /\ Source(s) = Unreadable
    /\ Begin("new", s, "write")
    /\ UNCHANGED <<files, gone, sure, deleted>>

(* The name delete_post and delete_page find for the output: the one in    *)
(* BUILD.DAT, or else the slug in the source, which for a post is as a     *)
(* rule the name of no output: only the slug p000n is, and often of that   *)
(* of another post.  (A cut-off BUILD.DAT that the build rejects may still *)
(* show a name here; it is taken for absent.)                              *)
SlugOutput(s) ==
    IF Source(s) = Unreadable THEN {}
    ELSE IF s[1] = "page" THEN {PageOut(s[2])}
    ELSE {PostOut(SlugNumber[s[2]])} \cap OutNames
OutputOf(s) ==
    IF manifest.loaded /\ s[1] = "post" /\ s[2] \in DOMAIN manifest.posts
    THEN {PostOut(manifest.posts[s[2]].out)}
    ELSE IF manifest.loaded /\ s[1] = "page" /\ s[2] \in DOMAIN manifest.pages
    THEN {PageOut(s[2])}
    ELSE SlugOutput(s)

StartDelete(s) ==
    /\ Ready /\ s \in ListedSources
    /\ Begin("delete", s, "unlist")
    /\ gone' = OutputOf(s) \cap Standing
    /\ sure' = (manifest.loaded /\ torn = {})
    /\ UNCHANGED <<files, deleted>>

(* clean_site: the shared outputs, the outputs of the listed pages and the *)
(* archives of BUILD.DAT.  remove_outputs_from_list looks for a post under *)
(* its slug too.                                                           *)
StartClean ==
    /\ Ready
    /\ Begin("clean", "", "outputs")
    /\ gone' = Standing \cap
                  (Shared \cup {LabelOut(l) : l \in manifest.archives}
                          \cup UNION {SlugOutput(s) : s \in ListedSources})
    /\ UNCHANGED <<files, sure, deleted>>

(* init_site takes any directory, one with a site in it as well: mkdir may *)
(* fail as long as the directory is there.                                 *)
StartInit ==
    /\ Ready
    /\ job' = [kind |-> "init", step |-> "site", todo |-> Starters]
    /\ UNCHANGED <<files, gone, sure, deleted>>

-----------------------------------------------------------------------------
(* The steps of a command. *)
At(step) == job # NoJob /\ job.step = step
To(step) == job' = [job EXCEPT !.step = step]

(* The command ends, well or not. *)
EndJob == job' = NoJob /\ gone' = {} /\ sure' = FALSE

(* Sources that return to a list are not deleted any more. *)
StillDeleted == deleted' = {s \in deleted : s \notin ListedSources'}

NewWrite ==
    /\ At("write") /\ EditSource(job.src, NewSource)
    /\ To("append")
    /\ UNCHANGED <<listFile, gone, sure, deleted>>

NewAppend ==
    /\ At("append") /\ AppendEntry(job.src)
    /\ EndJob /\ StillDeleted

(* remove_list_entry copies the list without the entry to ZINE$LST.TMP and *)
(* removes the list; until the copy has taken its name there is none.  The *)
(* copy of an open file is open as well, unless it was the last line that  *)
(* was left out.  (When the list cannot be removed the copy cannot take    *)
(* its name, and the command ends with nothing changed.)                   *)
RemoveList ==
    /\ At("unlist")
    /\ LET k == job.src[1]
           l == List(k)
       IN  \E m \in ListsOf(k), state \in {listFile[k], "whole"} :
              /\ Without(l, job.src[2], m)
              /\ state # listFile[k] => listFile[k] = "open" /\ l[Len(l)] = job.src[2]
              /\ EditList(k, <<>>) /\ Mark(k, "missing")
              /\ job' = [kind |-> "delete", src |-> job.src, step |-> "rename",
                         copy |-> m, as |-> state]
    /\ StillDeleted
    /\ UNCHANGED <<gone, sure>>

RenameList ==
    /\ At("rename")
    /\ EditList(job.src[1], job.copy) /\ Mark(job.src[1], job.as)
    /\ Begin("delete", job.src, "remove")
    /\ StillDeleted
    /\ UNCHANGED <<gone, sure>>

DeleteSource ==
    /\ At("remove") /\ EditSource(job.src, Unreadable)
    /\ To("outputs")
    /\ UNCHANGED <<listFile, gone, sure, deleted>>

RemoveOutput(o) ==
    /\ At("outputs") /\ o \in gone
    /\ DropOutput(o)
    /\ gone' = gone \ {o}
    /\ UNCHANGED <<listFile, job, sure, deleted>>

(* site.txt is written first, then the lists, and only then the sources    *)
(* they name, one after the other (here in any order).  assets.lst, which  *)
(* holds only comments then, is left out.                                  *)
InitSite ==
    /\ At("site") /\ \E c \in Configs : EditConfig(c)
    /\ To("postslst")
    /\ UNCHANGED <<listFile, gone, sure, deleted>>

InitPostsLst ==
    /\ At("postslst") /\ EditPostsLst(StarterPosts) /\ Mark("post", "whole")
    /\ To("pageslst") /\ StillDeleted
    /\ UNCHANGED <<gone, sure>>

InitPagesLst ==
    /\ At("pageslst") /\ EditPagesLst(StarterPages) /\ Mark("page", "whole")
    /\ To("sources") /\ StillDeleted
    /\ UNCHANGED <<gone, sure>>

InitSource(s) ==
    /\ At("sources") /\ s \in job.todo
    /\ EditSource(s, StarterSource)
    /\ job' = [job EXCEPT !.todo = @ \ {s},
                          !.step = IF job.todo = {s} THEN "banner" ELSE @]
    /\ UNCHANGED <<listFile, gone, sure, deleted>>

(* BANNER.TXT is last, after the sources of the themes, which are left out *)
(* here.                                                                   *)
InitBanner ==
    /\ At("banner") /\ \E c \in Configs : EditConfig(c)
    /\ EndJob
    /\ UNCHANGED <<listFile, deleted>>

(* remove_generated_file("BUILD.DAT") ends a delete and a clean. *)
RemoveManifest ==
    /\ At("outputs") /\ gone = {}
    /\ \/ DropManifest
       \/ ~manifest.loaded /\ UNCHANGED vars
    /\ EndJob
    /\ deleted' = IF job.kind = "delete" /\ sure THEN deleted \cup {job.src} ELSE deleted
    /\ UNCHANGED listFile

(* An fopen or the rename fails, or the process ends.  The copy of a list  *)
(* that did not get its name is removed or left behind as ZINE$LST.TMP; no *)
(* command looks for it, and the list stays missing.                       *)
Abandon == /\ job # NoJob /\ EndJob
           /\ UNCHANGED <<files, deleted>>

(* A build, and the user's own edits, while no command runs.  The user may *)
(* leave a list without its last newline, spoil it or remove it.           *)
NoCommand == StillDeleted /\ UNCHANGED <<job, gone, sure>>

RunBuild  == /\ job = NoJob
             /\ Step /\ (BuildStart => ListsLoad(listFile))
             /\ UNCHANGED listFile /\ NoCommand
StopBuild == /\ job = NoJob
             /\ Interruption
             /\ UNCHANGED listFile /\ NoCommand

UserList == /\ job = NoJob
            /\ \E k \in Kinds, state \in FileStates :
                  \E l \in ListsOf(k) : /\ state = "missing" => l = <<>>
                                        /\ EditList(k, l) /\ Mark(k, state)
            /\ NoCommand
UserEdit == /\ job = NoJob
            /\ Edit \/ Drop
            /\ UNCHANGED <<postsLst, pagesLst, listFile>> /\ NoCommand

Rest == RunBuild \/ StopBuild \/ UserList \/ UserEdit

Command == \/ \E s \in Sources : StartNew(s) \/ StartDelete(s)
           \/ StartClean \/ StartInit
           \/ NewWrite \/ NewAppend \/ RemoveList \/ RenameList \/ DeleteSource
           \/ \E o \in OutNames : RemoveOutput(o)
           \/ RemoveManifest
           \/ InitSite \/ InitPostsLst \/ InitPagesLst \/ InitBanner
           \/ \E s \in Starters : InitSource(s)

CNext == Rest \/ Command \/ Abandon
CSpec == CInit /\ [][CNext]_cvars

-----------------------------------------------------------------------------
(* Properties. *)

(* The site loads, or does as soon as the copy that a running delete made  *)
(* has taken the name of the list.                                         *)
CopyLoads ==
    /\ \A s \in ListedSources : Source(s) # Unreadable
    /\ \A x \in Listed(job.copy) : Source(<<job.src[1], x>>) # Unreadable
    /\ ListsLoad([listFile EXCEPT ![job.src[1]] = job.as])
WillLoad == IF At("rename") THEN CopyLoads ELSE SiteLoads

(* `new` lists a source it has written, `delete` removes a source it has   *)
(* unlisted (scaffold.c:837-867, 967-972).  The other order would leave a  *)
(* listed name without a source and every later build refused.  So a site  *)
(* that loads still does after each step of a command, and wherever the    *)
(* command stops, but for three cases:                                     *)
(*   - a delete whose rename fails or is not reached after it has removed  *)
(*     posts.lst (:206-210): a build is refused without a posts.lst        *)
(*     (content.c:475-479), though not without a pages.lst;                *)
(*   - `new` with a list whose last line has no newline (:141, 159): its   *)
(*     name joins the last one on a line that the build refuses;           *)
(*   - `init`, which writes the lists before what they name (:666-740): it *)
(*     owes a site that loads only when it is through, but then over       *)
(*     whatever was there before.                                          *)
CommandsKeepLoadable ==
    [][/\ job # NoJob /\ job.kind # "init" /\ WillLoad /\ ~WillLoad' =>
            \/ At("rename") /\ job.src[1] = "post" /\ job' = NoJob
            \/ At("append") /\ listFile[job.src[1]] = "open"
       /\ At("banner") => SiteLoads']_cvars

(* The output o shows the source s. *)
Shows(o, s) ==
    /\ out[o].kind = "page"
    /\ \/ /\ s[1] = "page" /\ o = PageOut(s[2])
       \/ /\ s[1] = "post" /\ s[2] \in DOMAIN out[o].key.posts
          /\ o = PostOut(out[o].key.posts[s[2]].out)

(* A source that was deleted, while BUILD.DAT knew what stood in OUT, is   *)
(* not served any more, by no name, whatever is edited and built later.    *)
DeletedIsGone == \A s \in deleted : \A o \in OutNames : ~Shows(o, s)

(* Every behaviour of the commands is one of BuildSite: no command leaves  *)
(* a duplicate in a list or touches an output without BUILD.DAT.           *)
BuildSiteSpec == Spec

(* README.md:355: "Drafts are parsed and validated, but not published."    *)
(* `delete` removes BUILD.DAT, and the next build then removes no output   *)
(* of a post that has become a draft.                                      *)
DraftsAreNotPublished ==
    verdict = "ok" =>
        \A s \in ListedSources, o \in Standing : Shows(o, s) => ~Source(s).meta.draft
=============================================================================
