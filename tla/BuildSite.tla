------------------------------ MODULE BuildSite ------------------------------
(***************************************************************************)
(* `zine.exe build`: the incremental build of OUT from the user's files.   *)
(*                                                                         *)
(* The user's files are site.txt with BANNER.TXT, posts.lst, pages.lst and *)
(* the sources POSTS\*.TXT and PAGES\*.TXT.  The program's own state on    *)
(* disk is the output files of OUT and the manifest OUT\BUILD.DAT.         *)
(* generate_site reads the manifest, decides what to skip, writes the      *)
(* outputs one at a time and saves a new manifest last.  It may stop       *)
(* between any two steps: fopen fails, a body is too long, the user hits   *)
(* Ctrl-Break, the machine is switched off.                                *)
(*                                                                         *)
(* DOS runs one program at a time, so the user edits only between builds.  *)
(***************************************************************************)
EXTENDS Naturals, FiniteSets

CONSTANTS
    Posts,        \* source names that posts.lst may list
    Pages,        \* source names (slugs) that pages.lst may list
    Labels,       \* archive pages, by output name: categories and tags
    Categories,   \* those of Labels that are categories
    Configs,      \* contents of site.txt and BANNER.TXT together
    Versions,     \* what a source file may hold, with its time stamp
    Unreadable,   \* a source file that is missing or does not parse
    SiteHash,     \* compute_site_hash, a function on Configs
    MetaHash,     \* compute_post_meta_hash and compute_page_meta_hash
    MaxArchives   \* MAX_ARCHIVES

(* A version is a record: the header (`meta`), the body, whether the body  *)
(* fits in MAX_BODY bytes, and the st_mtime of the file.                   *)
ASSUME PostsAssumption == IsFiniteSet(Posts)
ASSUME VersionsAssumption ==
    /\ \A v \in Versions :
          /\ DOMAIN v = {"meta", "body", "fits", "stamp"}
          /\ DOMAIN v.meta = {"title", "draft", "labels"}
          /\ v.meta.draft \in BOOLEAN
          /\ v.meta.labels \subseteq Labels
          /\ v.fits \in BOOLEAN
    /\ Unreadable \notin Versions
ASSUME ConfigsAssumption == \A c \in Configs : c.banner \in BOOLEAN
ASSUME MaxArchivesAssumption == MaxArchives \in Nat

Metas == {v.meta : v \in Versions}

(* site.txt holds no hash of its own: an absent SITE line reads as 0. *)
NoHash == 0

-----------------------------------------------------------------------------
(* Output files.  A name is a folder and a name in it; the posts are       *)
(* numbered (P0001.HTM, ...), pages keep their slug.                       *)
Index   == <<"OUT", "INDEX">>
Archive == <<"PAG", "ARCHIVE">>
About   == <<"PAG", "ABOUT">>
PostOut(n)  == <<"PST", n>>
PageOut(g)  == <<"PAG", g>>
LabelOut(l) == <<"PAG", l>>

Shared == {Index, Archive, About}
OutNames == Shared \cup {PostOut(n) : n \in 1 .. Cardinality(Posts)}
                   \cup {PageOut(g) : g \in Pages}
                   \cup {LabelOut(l) : l \in Labels}

(* What an output file holds: nothing (no file), an empty file (opened for *)
(* writing and no more), or a rendered page.                               *)
Absent == [kind |-> "absent"]
Empty  == [kind |-> "empty"]
NoBody == "none"

VARIABLES
    config, postsLst, pagesLst,  \* site.txt, posts.lst, pages.lst
    postSrc, pageSrc,            \* the source files, by name
    out,                         \* the output files
    manifest,                    \* BUILD.DAT
    pc,                          \* the step of generate_site
    rebuildAll, buildShared,     \* its locals rebuild_all, build_shared
    left,                        \* what the current loop has still to visit
    wrote,                       \* history: outputs opened by this build
    verdict,                     \* history: how the last build ended
    noop,                        \* history: no edit since a good build
    torn                         \* history: outputs BUILD.DAT may misdescribe

inputs  == <<config, postsLst, pagesLst, postSrc, pageSrc>>
locals  == <<pc, rebuildAll, buildShared, left>>
history == <<wrote, verdict, noop, torn>>
vars    == <<inputs, out, manifest, locals, history>>

-----------------------------------------------------------------------------
(* Reading the lists.  A list is a sequence of distinct names, since       *)
(* load_entry_list refuses a duplicate.                                    *)
Lists(S) == {l \in UNION {[1 .. n -> S] : n \in 0 .. Cardinality(S)} :
                \A i, j \in DOMAIN l : l[i] = l[j] => i = j}
Listed(lst) == {lst[i] : i \in DOMAIN lst}
Place(lst, p) == CHOOSE i \in DOMAIN lst : lst[i] = p

PublishedPosts == {p \in Listed(postsLst) : ~postSrc[p].meta.draft}
PublishedPages == {g \in Listed(pagesLst) : ~pageSrc[g].meta.draft}

(* The number of a post's output: its rank among the published posts, in   *)
(* the order of posts.lst.                                                 *)
UpTo(p) == {q \in PublishedPosts : Place(postsLst, q) <= Place(postsLst, p)}
(* A wrong version: numbered from 2. *)
OutNumberPlusOne(p) == Cardinality(UpTo(p)) + 1
OutNumber(p) == Cardinality(UpTo(p))

(* load_posts and load_pages open every listed source, drafts too. *)
Loadable == /\ \A p \in Listed(postsLst) : postSrc[p] # Unreadable
            /\ \A g \in Listed(pagesLst) : pageSrc[g] # Unreadable

(* collect_archives: an archive page for every category and tag of a post, *)
(* up to MAX_ARCHIVES of each.                                             *)
UsedLabels == UNION {postSrc[p].meta.labels : p \in PublishedPosts}

CanBuild == /\ Loadable
            /\ Cardinality(UsedLabels \cap Categories) <= MaxArchives
            /\ Cardinality(UsedLabels \ Categories) <= MaxArchives

(* The site as every page of it depends on it: configuration, the posts    *)
(* with their numbers and headers (navigation, sidebar and lists), and the *)
(* pages with their headers.  The order of pages.lst (the sidebar) is kept *)
(* apart in `nav`: see Render.                                             *)
Key == [config |-> config,
        posts  |-> [p \in PublishedPosts |->
                       [out |-> OutNumber(p), meta |-> postSrc[p].meta]],
        pages  |-> [g \in PublishedPages |-> pageSrc[g].meta]]

SidebarOrder == [g \in PublishedPages |->
                    Cardinality({h \in PublishedPages :
                        Place(pagesLst, h) <= Place(pagesLst, g)})]

(* What a write_..._page call leaves in a file. *)
Render(body) == [kind |-> "page", key |-> Key, nav |-> SidebarOrder,
                 body |-> body]
PostContent(p) == Render(postSrc[p].body)
PageContent(g) == Render(pageSrc[g].body)
SharedContent  == Render(NoBody)

-----------------------------------------------------------------------------
(* The manifest.  Hashes stand for the site and for the headers; the body  *)
(* of a source is represented by its time stamp alone.                     *)
NoEntries == [x \in {} |-> x]
NoManifest == [loaded |-> FALSE, site |-> NoHash, posts |-> NoEntries,
               pages |-> NoEntries, archives |-> {}]

(* A wrong version of CurrentManifest: page stamps never read. *)
UnstampedManifest ==
    [loaded   |-> TRUE,
     site     |-> SiteHash[config],
     posts    |-> [p \in PublishedPosts |->
                      [out   |-> OutNumber(p),
                       meta  |-> MetaHash[postSrc[p].meta],
                       stamp |-> postSrc[p].stamp]],
     pages    |-> [g \in PublishedPages |->
                      [meta |-> MetaHash[pageSrc[g].meta], stamp |-> 0]],
     archives |-> UsedLabels]

(* What save_build_manifest writes: time stamps are read at this moment. *)
CurrentManifest ==
    [loaded   |-> TRUE,
     site     |-> SiteHash[config],
     posts    |-> [p \in PublishedPosts |->
                      [out   |-> OutNumber(p),
                       meta  |-> MetaHash[postSrc[p].meta],
                       stamp |-> postSrc[p].stamp]],
     pages    |-> [g \in PublishedPages |->
                      [meta  |-> MetaHash[pageSrc[g].meta],
                       stamp |-> pageSrc[g].stamp]],
     archives |-> UsedLabels]

(* What load_build_manifest makes of a file cut off inside a save, by the  *)
(* number of sections that are complete.  A file cut inside a section has  *)
(* fewer lines than it announces and does not load.                        *)
CutManifest(sections) ==
    [CurrentManifest EXCEPT
        !.site     = IF sections >= 1 THEN @ ELSE NoHash,
        !.posts    = IF sections >= 2 THEN @ ELSE NoEntries,
        !.pages    = IF sections >= 3 THEN @ ELSE NoEntries,
        !.archives = {}]

(* The cut may also go through the last number or name of a section, which *)
(* then loads as another one: a cut number is no hash and no stamp that a  *)
(* file has, and a cut name (of any archive, the order of the archives     *)
(* being open) is the name of no output.  Or the file is complete, and the *)
(* process ends before it says so.                                         *)
CutNumber == 0
CutManifests ==
    {CutManifest(sections) : sections \in 0 .. 3} \cup {CurrentManifest}
    \cup {[CutManifest(0) EXCEPT !.site = CutNumber]}
    \cup {[CutManifest(2) EXCEPT !.posts[p].stamp = CutNumber] : p \in PublishedPosts}
    \cup {[CutManifest(3) EXCEPT !.pages[g].stamp = CutNumber] : g \in PublishedPages}
    \cup {[CurrentManifest EXCEPT !.archives = @ \ {l}] : l \in UsedLabels}

(* metadata_changed_for_posts: equal counts and every current post found,  *)
(* under its name, with the hash and the output of the manifest.           *)
PostsUnchanged(m, k) ==
    /\ DOMAIN m.posts = DOMAIN k.posts
    /\ \A p \in DOMAIN k.posts :
          /\ m.posts[p].out = k.posts[p].out
          /\ m.posts[p].meta = MetaHash[k.posts[p].meta]

(* A wrong version of PagesUnchanged: the headers are not compared. *)
SamePages(m, k) == DOMAIN m.pages = DOMAIN k.pages

(* metadata_changed_for_pages.  A page's output name is its slug, so the   *)
(* order of pages.lst plays no part.                                       *)
PagesUnchanged(m, k) ==
    /\ DOMAIN m.pages = DOMAIN k.pages
    /\ \A g \in DOMAIN k.pages : m.pages[g].meta = MetaHash[k.pages[g]]

Describes(m, k) ==
    /\ m.loaded
    /\ m.site = SiteHash[k.config]
    /\ PostsUnchanged(m, k)
    /\ PagesUnchanged(m, k)

(* Wrong versions of PreviousOutputs: the archives, or the posts, stay. *)
PreviousPages(m) ==
    IF m.loaded
    THEN {PostOut(m.posts[p].out) : p \in DOMAIN m.posts}
         \cup {PageOut(g) : g \in DOMAIN m.pages} \cup Shared
    ELSE {}
PreviousButPosts(m) ==
    IF m.loaded
    THEN {PageOut(g) : g \in DOMAIN m.pages}
         \cup {LabelOut(l) : l \in m.archives} \cup Shared
    ELSE {}

(* The outputs remove_previous_outputs removes: none without a manifest.   *)
(* (It also tries the names C01 to C16 and T01 to T16 that archives had in *)
(* earlier releases; a page of such a name is written anew by the rebuild.)*)
PreviousOutputs(m) ==
    IF m.loaded
    THEN {PostOut(m.posts[p].out) : p \in DOMAIN m.posts}
         \cup {PageOut(g) : g \in DOMAIN m.pages}
         \cup {LabelOut(l) : l \in m.archives}
         \cup Shared
    ELSE {}

-----------------------------------------------------------------------------
(* The decisions of generate_site. *)
Missing(o) == out[o].kind = "absent"
Standing == {o \in OutNames : ~Missing(o)}

RebuildAll == ~Describes(manifest, Key)
SharedMissing == \E o \in Shared \cup {LabelOut(l) : l \in UsedLabels} : Missing(o)

(* index_output_stale: should_copy_file("BANNER.TXT", INDEX.HTM) holds     *)
(* whenever BANNER.TXT exists, for the two never have equal contents.      *)
IndexStale == Missing(Index) \/ config.banner

(* The negation of source_changed_since_manifest. *)
PostAsRecorded(p) == /\ manifest.loaded
                     /\ p \in DOMAIN manifest.posts
                     /\ postSrc[p].stamp = manifest.posts[p].stamp
PageAsRecorded(g) == /\ manifest.loaded
                     /\ g \in DOMAIN manifest.pages
                     /\ pageSrc[g].stamp = manifest.pages[g].stamp

NeedsPost(p) == \/ rebuildAll
                \/ Missing(PostOut(OutNumber(p)))
                \/ ~PostAsRecorded(p)
NeedsPage(g) == \/ rebuildAll
                \/ Missing(PageOut(g))
                \/ ~PageAsRecorded(g)

-----------------------------------------------------------------------------
Init ==
    /\ config \in Configs
    /\ postsLst \in Lists(Posts) /\ pagesLst \in Lists(Pages)
    /\ postSrc \in [Posts -> Versions \cup {Unreadable}]
    /\ pageSrc \in [Pages -> Versions \cup {Unreadable}]
    /\ out = [o \in OutNames |-> Absent]
    /\ manifest = NoManifest
    /\ pc = "idle" /\ rebuildAll = FALSE /\ buildShared = FALSE /\ left = {}
    /\ wrote = {} /\ verdict = "none" /\ noop = FALSE /\ torn = {}

(* The build is over; `result` is what it reports. *)
Finish(result) ==
    /\ pc' = "idle"
    /\ rebuildAll' = FALSE /\ buildShared' = FALSE /\ left' = {}
    /\ verdict' = result

(* generate_site returns 0, or the process ends, with the outputs written  *)
(* so far (and `more`) changed and BUILD.DAT as it was.                    *)
Stop(more) ==
    /\ Finish("failed")
    /\ torn' = torn \cup wrote \cup more
    /\ wrote' = {}
    /\ UNCHANGED <<inputs, noop>>

(* build_current_site up to the first output: a list or a source does not  *)
(* load, or there are too many archives.  It refuses for more than the     *)
(* model shows as well: a list that is gone or holds a bad line            *)
(* (SiteCommands, ListFiles), too many posts or pages, or no name left for *)
(* an archive (SiteTables).  Nothing is changed.                           *)
BuildRefused ==
    /\ pc = "idle"
    /\ verdict' = "refused" /\ wrote' = {} /\ noop' = FALSE
    /\ UNCHANGED <<inputs, out, manifest, locals, torn>>

(* generate_site up to its decisions. *)
BuildStart ==
    /\ pc = "idle" /\ CanBuild
    /\ rebuildAll' = RebuildAll
    /\ buildShared' = (RebuildAll \/ SharedMissing)
    /\ pc' = IF RebuildAll THEN "clear"
             ELSE IF SharedMissing \/ IndexStale THEN "index"
             ELSE "posts"
    /\ left' = PublishedPosts
    /\ wrote' = {} /\ noop' = (verdict = "ok") /\ verdict' = "running"
    /\ UNCHANGED <<inputs, out, manifest, torn>>

(* Removing outputs, all of `gone`. *)
Remove(gone) == out' = [o \in OutNames |-> IF o \in gone THEN Absent ELSE out[o]]

ClearStep ==
    /\ pc = "clear"
    /\ Remove(PreviousOutputs(manifest))
    /\ pc' = "index"
    /\ UNCHANGED <<inputs, manifest, rebuildAll, buildShared, left, history>>

(* One successful write_..._page call. *)
Write(o, content) ==
    /\ out' = [out EXCEPT ![o] = content]
    /\ wrote' = wrote \cup {o}
    /\ UNCHANGED <<inputs, manifest, rebuildAll, buildShared, verdict, noop, torn>>

WriteIndex ==
    /\ pc = "index"
    /\ Write(Index, SharedContent)
    /\ pc' = IF buildShared THEN "archive" ELSE "posts"
    /\ UNCHANGED left

WriteArchive ==
    /\ pc = "archive"
    /\ Write(Archive, SharedContent)
    /\ pc' = "about" /\ UNCHANGED left

WriteAbout ==
    /\ pc = "about"
    /\ Write(About, SharedContent)
    /\ pc' = "posts" /\ UNCHANGED left

(* One turn of the loop over the posts.  The loop follows the dates, which *)
(* the model leaves open: any post that is left may be next.               *)
SkipPost(p) ==
    /\ pc = "posts" /\ p \in left /\ ~NeedsPost(p)
    /\ left' = left \ {p}
    /\ UNCHANGED <<inputs, out, manifest, pc, rebuildAll, buildShared, history>>

(* A wrong version of WritePost: the loop does not move on. *)
WritePostAgain(p) ==
    /\ pc = "posts" /\ p \in left /\ NeedsPost(p)
    /\ postSrc[p].fits
    /\ Write(PostOut(OutNumber(p)), PostContent(p))
    /\ UNCHANGED <<left, pc>>

WritePost(p) ==
    /\ pc = "posts" /\ p \in left /\ NeedsPost(p)
    /\ postSrc[p].fits
    /\ Write(PostOut(OutNumber(p)), PostContent(p))
    /\ left' = left \ {p} /\ UNCHANGED pc

(* write_post_page opens its output before load_post_body finds the body   *)
(* too long: the build fails and leaves the output empty.                  *)
PostTooLong(p) ==
    /\ pc = "posts" /\ p \in left /\ NeedsPost(p)
    /\ ~postSrc[p].fits
    /\ out' = [out EXCEPT ![PostOut(OutNumber(p))] = Empty]
    /\ Stop({PostOut(OutNumber(p))})
    /\ UNCHANGED manifest

PostsDone ==
    /\ pc = "posts" /\ left = {}
    /\ pc' = "pages" /\ left' = PublishedPages
    /\ UNCHANGED <<inputs, out, manifest, rebuildAll, buildShared, history>>

SkipPage(g) ==
    /\ pc = "pages" /\ g \in left /\ ~NeedsPage(g)
    /\ left' = left \ {g}
    /\ UNCHANGED <<inputs, out, manifest, pc, rebuildAll, buildShared, history>>

WritePage(g) ==
    /\ pc = "pages" /\ g \in left /\ NeedsPage(g)
    /\ pageSrc[g].fits
    /\ Write(PageOut(g), PageContent(g))
    /\ left' = left \ {g} /\ UNCHANGED pc

PageTooLong(g) ==
    /\ pc = "pages" /\ g \in left /\ NeedsPage(g)
    /\ ~pageSrc[g].fits
    /\ out' = [out EXCEPT ![PageOut(g)] = Empty]
    /\ Stop({PageOut(g)})
    /\ UNCHANGED manifest

(* A wrong version of PagesDone: straight to the manifest. *)
PagesThenSave ==
    /\ pc = "pages" /\ left = {}
    /\ pc' = "save" /\ left' = {}
    /\ UNCHANGED <<inputs, out, manifest, rebuildAll, buildShared, history>>

PagesDone ==
    /\ pc = "pages" /\ left = {}
    /\ IF buildShared THEN pc' = "labels" /\ left' = UsedLabels
                      ELSE pc' = "save" /\ left' = {}
    /\ UNCHANGED <<inputs, out, manifest, rebuildAll, buildShared, history>>

(* write_category_pages and write_tag_pages. *)
WriteLabel(l) ==
    /\ pc = "labels" /\ l \in left
    /\ Write(LabelOut(l), SharedContent)
    /\ left' = left \ {l} /\ UNCHANGED pc

LabelsDone ==
    /\ pc = "labels" /\ left = {}
    /\ pc' = "save"
    /\ UNCHANGED <<inputs, out, manifest, rebuildAll, buildShared, left, history>>

SaveManifest ==
    /\ pc = "save"
    /\ manifest' = CurrentManifest
    /\ Finish("ok")
    /\ torn' = torn \ wrote
    /\ UNCHANGED <<inputs, out, wrote, noop>>

-----------------------------------------------------------------------------
(* Ways to stop early. *)

(* The outputs the next step may open. *)
InFlight ==
    {o \in OutNames :
        \/ pc = "index" /\ o = Index
        \/ pc = "archive" /\ o = Archive
        \/ pc = "about" /\ o = About
        \/ pc = "posts" /\ \E p \in left : NeedsPost(p) /\ o = PostOut(OutNumber(p))
        \/ pc = "pages" /\ \E g \in left : NeedsPage(g) /\ o = PageOut(g)
        \/ pc = "labels" /\ \E l \in left : o = LabelOut(l)}

(* An fopen fails, or the process ends between two outputs or before the   *)
(* save.                                                                   *)
StopBetween ==
    /\ pc # "idle"
    /\ Stop({})
    /\ UNCHANGED <<out, manifest>>

(* The process ends while an output is open. *)
StopInside(o) ==
    /\ o \in InFlight
    /\ out' = [out EXCEPT ![o] = Empty]
    /\ Stop({o})
    /\ UNCHANGED manifest

(* The process ends while remove_previous_outputs runs. *)
StopClearing ==
    /\ pc = "clear"
    /\ \E gone \in SUBSET PreviousOutputs(manifest) : Remove(gone)
    /\ Stop({})
    /\ UNCHANGED manifest

(* The process ends while BUILD.DAT is being written.  With a complete     *)
(* prefix the file loads as a manifest of other lists than the outputs     *)
(* were rendered from, so it misdescribes whatever stands in OUT.          *)
StopSaving ==
    /\ pc = "save"
    /\ manifest' \in {NoManifest} \cup CutManifests
    /\ Stop(Standing)
    /\ UNCHANGED out

-----------------------------------------------------------------------------
(* The user, between builds. *)
Edited == /\ pc = "idle"
          /\ verdict' = "edited"
          /\ UNCHANGED <<locals, wrote, noop>>

EditConfig(c) ==
    /\ Edited /\ config' = c
    /\ UNCHANGED <<postsLst, pagesLst, postSrc, pageSrc, out, manifest, torn>>
EditPostsLst(l) ==
    /\ Edited /\ postsLst' = l
    /\ UNCHANGED <<config, pagesLst, postSrc, pageSrc, out, manifest, torn>>
EditPagesLst(l) ==
    /\ Edited /\ pagesLst' = l
    /\ UNCHANGED <<config, postsLst, postSrc, pageSrc, out, manifest, torn>>
EditPost(p, v) ==
    /\ Edited /\ postSrc' = [postSrc EXCEPT ![p] = v]
    /\ UNCHANGED <<config, postsLst, pagesLst, pageSrc, out, manifest, torn>>
EditPage(g, v) ==
    /\ Edited /\ pageSrc' = [pageSrc EXCEPT ![g] = v]
    /\ UNCHANGED <<config, postsLst, pagesLst, postSrc, out, manifest, torn>>

(* An output is deleted, by hand or by one of the other commands. *)
DropOutput(o) ==
    /\ Edited /\ ~Missing(o)
    /\ out' = [out EXCEPT ![o] = Absent]
    /\ UNCHANGED <<inputs, manifest, torn>>

(* BUILD.DAT is deleted, as delete, deletepage and clean do: from then on  *)
(* no manifest knows the outputs that are there.                           *)
DropManifest ==
    /\ Edited /\ manifest.loaded
    /\ manifest' = NoManifest
    /\ torn' = torn \cup Standing
    /\ UNCHANGED <<inputs, out>>

-----------------------------------------------------------------------------
Step == \/ BuildRefused \/ BuildStart \/ ClearStep
        \/ WriteIndex \/ WriteArchive \/ WriteAbout
        \/ \E p \in Posts : SkipPost(p) \/ WritePost(p) \/ PostTooLong(p)
        \/ PostsDone
        \/ \E g \in Pages : SkipPage(g) \/ WritePage(g) \/ PageTooLong(g)
        \/ PagesDone
        \/ \E l \in Labels : WriteLabel(l)
        \/ LabelsDone \/ SaveManifest

Interruption == \/ StopBetween
                \/ \E o \in OutNames : StopInside(o)
                \/ StopClearing \/ StopSaving

Edit == \/ \E c \in Configs : EditConfig(c)
        \/ \E l \in Lists(Posts) : EditPostsLst(l)
        \/ \E l \in Lists(Pages) : EditPagesLst(l)
        \/ \E p \in Posts, v \in Versions \cup {Unreadable} : EditPost(p, v)
        \/ \E g \in Pages, v \in Versions \cup {Unreadable} : EditPage(g, v)

Drop == DropManifest \/ \E o \in OutNames : DropOutput(o)

Next == Step \/ Interruption \/ Edit \/ Drop

Spec == Init /\ [][Next]_vars

(* The program runs once it is started; nobody has to start it. *)
FairSpec == Spec /\ WF_vars(Step /\ pc # "idle")

-----------------------------------------------------------------------------
(* Properties.                                                             *)

(* The outputs the site consists of. *)
ExpectedOutputs ==
    Shared \cup {PostOut(OutNumber(p)) : p \in PublishedPosts}
           \cup {PageOut(g) : g \in PublishedPages}
           \cup {LabelOut(l) : l \in UsedLabels}

(* Equal but for the order of the pages in the sidebar. *)
Same(c, d) == c.kind = "page" /\ c.key = d.key /\ c.body = d.body
Fresh(o, content) == o \in torn \/ Same(out[o], content)

TypeOK ==
    /\ config \in Configs
    /\ postsLst \in Lists(Posts) /\ pagesLst \in Lists(Pages)
    /\ postSrc \in [Posts -> Versions \cup {Unreadable}]
    /\ pageSrc \in [Pages -> Versions \cup {Unreadable}]
    /\ DOMAIN out = OutNames
    /\ \A o \in OutNames : out[o].kind \in {"absent", "empty", "page"}
    /\ manifest.loaded \in BOOLEAN
    /\ manifest.archives \subseteq Labels
    /\ DOMAIN manifest.posts \subseteq Posts /\ DOMAIN manifest.pages \subseteq Pages
    /\ pc \in {"idle", "clear", "index", "archive", "about", "posts", "pages",
               "labels", "save"}
    /\ rebuildAll \in BOOLEAN /\ buildShared \in BOOLEAN
    /\ left \subseteq Posts \cup Pages \cup Labels
    /\ wrote \subseteq OutNames /\ torn \subseteq OutNames
    /\ verdict \in {"none", "edited", "refused", "running", "failed", "ok"}
    /\ noop \in BOOLEAN

(* After a build that reports success every output of the site is what the *)
(* current files render to, whether it was written or skipped: what        *)
(* generate_site skips (site.c:1735-1756) was rendered from an equal site. *)
(* The outputs an interrupted build touched, and no later build wrote, are *)
(* excepted: see SiteTxtForcesRebuild.                                     *)
PublishedIsFresh ==
    verdict = "ok" =>
        /\ \A o \in Shared \cup {LabelOut(l) : l \in UsedLabels} :
              Fresh(o, SharedContent)
        /\ \A p \in PublishedPosts : Fresh(PostOut(OutNumber(p)), PostContent(p))
        /\ \A g \in PublishedPages : Fresh(PageOut(g), PageContent(g))

(* After a build that reports success the whole site is there, and nothing *)
(* else is but what the manifests lost track of: the outputs of posts,     *)
(* pages and archives that left the site were removed.                     *)
NothingLeftBehind ==
    verdict = "ok" => /\ ExpectedOutputs \subseteq Standing
                      /\ Standing \subseteq ExpectedOutputs \cup torn

(* Whatever happened before, a full rebuild writes every output of the     *)
(* site and no other, so that it repairs what interrupted builds left.     *)
FullRebuildWritesAll == pc = "save" /\ rebuildAll => wrote = ExpectedOutputs

(* A build right after a successful one rewrites at most INDEX.HTM, and    *)
(* nothing at all without BANNER.TXT.  (README.md:377, "a true no-op       *)
(* rebuild should say `0 changes`", holds without BANNER.TXT only.)        *)
NoOpWritesOnlyIndex ==
    noop /\ verdict \in {"running", "ok"} =>
        wrote \subseteq (IF config.banner THEN {Index} ELSE {})

(* Every build ends: the loops visit each entry once, and no step waits.   *)
EveryBuildEnds == pc # "idle" ~> pc = "idle"
-----------------------------------------------------------------------------
(* What README.md says of the incremental build and the code does not do.  *)

(* README.md:374 forces a full rebuild on "`pages.lst` changes".  The      *)
(* manifest does not keep the order of the pages, so a reordered list      *)
(* leaves the old order in the sidebar of every page.                      *)
SidebarFollowsPagesLst ==
    verdict = "ok" =>
        \A o \in ExpectedOutputs \ torn : out[o].nav = SidebarOrder

(* README.md:372 forces a full rebuild on "changes to `site.txt`".  After  *)
(* a build that stopped midway BUILD.DAT still describes the site before   *)
(* it; when site.txt then goes back, the outputs the stopped build wrote   *)
(* with the other site.txt stay.                                           *)
SiteTxtForcesRebuild ==
    verdict = "ok" =>
        \A o \in ExpectedOutputs : out[o].kind = "page" => out[o].key.config = config

-----------------------------------------------------------------------------
(* The inductive invariant behind PublishedIsFresh and NothingLeftBehind.  *)

(* What the argument assumes of the constants: no two sites and no two     *)
(* headers share a hash, a time stamp tells the versions of a file apart,  *)
(* and no page or archive takes the name of another PAG output.            *)
NoCollisions ==
    /\ \A c, d \in Configs : SiteHash[c] = SiteHash[d] => c = d
    /\ \A m, n \in Metas : MetaHash[m] = MetaHash[n] => m = n
DistinctStamps == \A v, w \in Versions : v.stamp = w.stamp => v = w
DistinctNames == /\ Pages \cap Labels = {}
                 /\ {"ARCHIVE", "ABOUT"} \cap (Pages \cup Labels) = {}

Keys == [config : Configs,
         posts  : UNION {[D -> [out : 1 .. Cardinality(Posts), meta : Metas]] : D \in SUBSET Posts},
         pages  : UNION {[D -> Metas] : D \in SUBSET Pages}]
KeyLabels(k) == UNION {k.posts[p].meta.labels : p \in DOMAIN k.posts}

(* The manifest m tells what stands in o: a page of a site that m          *)
(* describes, with the body that had the stamp m recorded.                 *)
RecordedBody(stamp, o) == \E v \in Versions : v.stamp = stamp /\ out[o].body = v.body
RecordedBy(m, o) ==
    /\ m.loaded
    /\ out[o].kind = "page" /\ out[o].key \in Keys /\ Describes(m, out[o].key)
    /\ \/ o \in Shared /\ out[o].body = NoBody
       \/ \E l \in m.archives \cap KeyLabels(out[o].key) :
             o = LabelOut(l) /\ out[o].body = NoBody
       \/ \E p \in DOMAIN m.posts :
             o = PostOut(m.posts[p].out) /\ RecordedBody(m.posts[p].stamp, o)
       \/ \E g \in DOMAIN m.pages :
             o = PageOut(g) /\ RecordedBody(m.pages[g].stamp, o)

(* The running build wrote o, from the files as they are. *)
WrittenNow(o) ==
    /\ out[o].kind = "page" /\ out[o].key = Key
    /\ \/ o \in Shared /\ out[o].body = NoBody
       \/ \E l \in UsedLabels : o = LabelOut(l) /\ out[o].body = NoBody
       \/ \E p \in PublishedPosts :
             o = PostOut(OutNumber(p)) /\ out[o].body = postSrc[p].body
       \/ \E g \in PublishedPages :
             o = PageOut(g) /\ out[o].body = pageSrc[g].body

Running == pc # "idle"
ThisBuild == IF Running THEN wrote ELSE {}

Accounted == \A o \in Standing \ (torn \cup ThisBuild) : RecordedBy(manifest, o)

Control ==
    /\ CanBuild
    /\ rebuildAll = RebuildAll
    /\ verdict = "running"
    /\ rebuildAll => buildShared
    /\ pc = "clear" => rebuildAll /\ wrote = {}
    /\ pc \in {"archive", "about", "labels"} => buildShared
    /\ rebuildAll /\ pc # "clear" => Standing \subseteq torn \cup wrote
    /\ pc \in {"clear", "index", "archive", "about"} => left = PublishedPosts
    /\ pc = "posts" => left \subseteq PublishedPosts
    /\ pc = "pages" => left \subseteq PublishedPages
    /\ pc = "labels" => left \subseteq UsedLabels

PostDone(p) == \/ PostOut(OutNumber(p)) \in wrote
               \/ /\ ~rebuildAll /\ ~Missing(PostOut(OutNumber(p)))
                  /\ PostAsRecorded(p)
PageDone(g) == \/ PageOut(g) \in wrote
               \/ /\ ~rebuildAll /\ ~Missing(PageOut(g))
                  /\ PageAsRecorded(g)

Progress ==
    /\ ~buildShared => ~SharedMissing
    /\ buildShared /\ pc \notin {"clear", "index"} => Index \in wrote
    /\ buildShared /\ pc \notin {"clear", "index", "archive"} => Archive \in wrote
    /\ buildShared /\ pc \notin {"clear", "index", "archive", "about"} => About \in wrote
    /\ pc = "posts" => \A p \in PublishedPosts \ left : PostDone(p)
    /\ pc \in {"pages", "labels", "save"} => \A p \in PublishedPosts : PostDone(p)
    /\ pc = "pages" => \A g \in PublishedPages \ left : PageDone(g)
    /\ pc \in {"labels", "save"} => \A g \in PublishedPages : PageDone(g)
    /\ pc = "labels" => \A l \in UsedLabels \ left : LabelOut(l) \in wrote
    /\ pc = "save" /\ buildShared => \A l \in UsedLabels : LabelOut(l) \in wrote

Success == verdict = "ok" => /\ pc = "idle" /\ CanBuild
                             /\ manifest = CurrentManifest
                             /\ ExpectedOutputs \subseteq Standing

IInv == /\ TypeOK
        /\ Accounted
        /\ Running => (\A o \in wrote : WrittenNow(o)) /\ Control /\ Progress
        /\ Success
-----------------------------------------------------------------------------
(* The promise of a build, and the refinement mapping to it: the order of  *)
(* the sidebar is not part of what is promised.                            *)
View(c) == IF c.kind = "page" THEN [kind |-> "page", key |-> c.key, body |-> c.body]
                              ELSE [kind |-> c.kind]
Shown == [o \in OutNames |-> View(out[o])]

Due(o, c) == [name |-> o, content |-> View(c)]
Goal ==
    IF CanBuild
    THEN {Due(o, SharedContent) : o \in Shared}
         \cup {Due(LabelOut(l), SharedContent) : l \in UsedLabels}
         \cup {Due(PostOut(OutNumber(p)), PostContent(p)) : p \in PublishedPosts}
         \cup {Due(PageOut(g), PageContent(g)) : g \in PublishedPages}
    ELSE {}

Promise == INSTANCE Publisher WITH
    Names <- OutNames, Nothing <- Absent,
    goal <- Goal, published <- Shown,
    building <- Running, touched <- ThisBuild, doubtful <- torn

(* The incremental build (site.c:1684-1846) implements the publisher: it   *)
(* puts only files of the site as it is, withdraws files only before the   *)
(* first of them, and reports success only of a complete and exact site.   *)
BuildPublishes == Promise!Spec
=============================================================================
