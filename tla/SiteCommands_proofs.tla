------------------------- MODULE SiteCommands_proofs -------------------------
(***************************************************************************)
(* The commands of zine.exe only ever make changes that BuildSite allows   *)
(* between builds: for every set of posts, pages and versions CSpec        *)
(* implements Spec, and what is proved of the build holds beside them.     *)
(***************************************************************************)
EXTENDS SiteCommands, BuildSite_proofs, SequenceTheorems

-----------------------------------------------------------------------------
(* Lists. *)

(* A list has at most as many entries as there are names; with one name    *)
(* not on it, fewer.                                                       *)
LEMMA AppendedList ==
    ASSUME NEW S, IsFiniteSet(S), NEW l \in Lists(S),
           NEW x \in S, x \notin Listed(l)
    PROVE  /\ Append(l, x) \in Lists(S)
           /\ Listed(Append(l, x)) = Listed(l) \cup {x}
<1>1. PICK n \in 0 .. Cardinality(S) : l \in [1 .. n -> S]
  BY DEF Lists
<1>2. n \in Nat /\ Cardinality(S) \in Nat /\ l \in Seq(S) /\ Len(l) = n
  BY <1>1, FS_CardinalityType
<1>3. \A i, j \in 1 .. n : l[i] = l[j] => i = j
  BY <1>1 DEF Lists
<1>4. n < Cardinality(S)
  <2>1. l \in Surjection(1 .. n, Listed(l)) /\ l \in Injection(1 .. n, Listed(l))
    BY <1>1, <1>3 DEF Injection, Surjection, IsInjective, Listed
  <2>2. IsFiniteSet(1 .. n) /\ Cardinality(1 .. n) = n
    BY <1>2, FS_Interval
  <2>3. Cardinality(Listed(l)) = n
    BY <2>1, <2>2, FS_Surjection
  <2>4. Listed(l) \subseteq S /\ Listed(l) # S
    BY <1>1 DEF Listed
  <2>5. Cardinality(Listed(l)) <= Cardinality(S) /\ Cardinality(Listed(l)) # Cardinality(S)
    BY <2>4, FS_Subset
  <2> QED
    BY <1>2, <2>3, <2>5
<1>5. Append(l, x) \in [1 .. n + 1 -> S]
  <2>1. Append(l, x) \in Seq(S) /\ Len(Append(l, x)) = n + 1
    BY <1>2
  <2> QED
    BY <2>1, LenProperties
<1>6. \A i \in 1 .. n + 1 : Append(l, x)[i] = IF i = n + 1 THEN x ELSE l[i]
  BY <1>2
<1>7. ASSUME NEW i \in 1 .. n + 1, NEW j \in 1 .. n + 1,
             Append(l, x)[i] = Append(l, x)[j]
      PROVE  i = j
  <2>1. \A k \in 1 .. n : l[k] # x
    BY <1>1 DEF Listed
  <2>2. i # n + 1 => i \in 1 .. n
    BY <1>2
  <2>3. j # n + 1 => j \in 1 .. n
    BY <1>2
  <2> QED
    BY <1>3, <1>6, <1>7, <2>1, <2>2, <2>3
<1>8. Append(l, x) \in Lists(S)
  <2>1. n + 1 \in 0 .. Cardinality(S)
    BY <1>2, <1>4
  <2>2. DOMAIN Append(l, x) = 1 .. n + 1
    BY <1>5
  <2> QED
    BY <1>5, <1>7, <2>1, <2>2 DEF Lists
<1>9. Listed(Append(l, x)) = Listed(l) \cup {x}
  <2>1. DOMAIN l = 1 .. n /\ DOMAIN Append(l, x) = 1 .. n + 1
    BY <1>1, <1>5
  <2>2. ASSUME NEW y \in Listed(Append(l, x)) PROVE y \in Listed(l) \cup {x}
    <3>1. PICK i \in 1 .. n + 1 : y = Append(l, x)[i]
      BY <2>1 DEF Listed
    <3>2. i # n + 1 => i \in 1 .. n
      BY <1>2
    <3> QED
      BY <1>6, <2>1, <3>1, <3>2 DEF Listed
  <2>3. ASSUME NEW y \in Listed(l) PROVE y \in Listed(Append(l, x))
    <3>1. PICK i \in 1 .. n : y = l[i]
      BY <2>1 DEF Listed
    <3>2. i \in 1 .. n + 1 /\ i # n + 1
      BY <1>2
    <3> QED
      BY <1>6, <2>1, <3>1, <3>2 DEF Listed
  <2>4. n + 1 \in 1 .. n + 1
    BY <1>2
  <2>5. x \in Listed(Append(l, x))
    BY <1>6, <2>1, <2>4 DEF Listed
  <2> QED
    BY <2>2, <2>3, <2>5
<1> QED
  BY <1>8, <1>9

-----------------------------------------------------------------------------
(* What a running command relies on: a source to be listed is written and  *)
(* not on its list, a source to be removed is on no list; once `init` has  *)
(* written the lists they name what it has written and what is left to do. *)
Written(todo) == /\ postsLst = StarterPosts /\ pagesLst = StarterPages
                 /\ listFile["post"] = "whole" /\ listFile["page"] = "whole"
                 /\ todo \subseteq Starters
                 /\ \A s \in Starters \ todo : Source(s) = StarterSource
InitSteps == {"site", "postslst", "pageslst", "sources", "banner"}
Copied == /\ job.copy \in ListsOf(job.src[1]) /\ job.as \in FileStates
          /\ job.src[2] \notin Listed(job.copy)
          /\ listFile[job.src[1]] = "missing"
JobInv ==
    job # NoJob =>
        /\ job.step \in {"write", "append", "unlist", "rename", "remove"} =>
              job.src \in Sources
        /\ job.step \in {"write", "append", "rename", "remove"} =>
              job.src \notin ListedSources
        /\ job.step = "append" => Source(job.src) = NewSource
        /\ job.step = "rename" => Copied
        /\ job.step \in {"unlist", "rename"} => job.kind = "delete"
        /\ job.step \in InitSteps => job.kind = "init"
        /\ job.step \in {"site", "postslst", "pageslst"} => job.todo = Starters
        /\ job.step = "pageslst" => postsLst = StarterPosts /\ listFile["post"] = "whole"
        /\ job.step = "sources" => Written(job.todo)
        /\ job.step = "banner" => Written({})
ListsOK == /\ postsLst \in Lists(Posts) /\ pagesLst \in Lists(Pages)
           /\ postSrc \in [Posts -> Versions \cup {Unreadable}]
           /\ pageSrc \in [Pages -> Versions \cup {Unreadable}]
FilesOK == listFile \in [Kinds -> FileStates]
CInv == ListsOK /\ FilesOK /\ JobInv

(* The inputs after a step of Next keep their types. *)
LEMMA ListsStay ==
    ASSUME ListsOK, [Next]_vars
    PROVE  ListsOK'
<1>1. CASE Edit
  BY <1>1 DEF Edit, EditConfig, EditPostsLst, EditPagesLst, EditPost, EditPage, ListsOK
<1>2. CASE UNCHANGED inputs
  BY <1>2 DEF inputs, ListsOK
<1>3. Next => Edit \/ UNCHANGED inputs
  BY DEF Next, Step, Interruption, Drop, BuildRefused, BuildStart, ClearStep,
         WriteIndex, WriteArchive, WriteAbout, SkipPost, WritePost, PostTooLong,
         PostsDone, SkipPage, WritePage, PageTooLong, PagesDone, WriteLabel,
         LabelsDone, SaveManifest, StopBetween, StopInside, StopClearing, StopSaving,
         DropManifest, DropOutput, Write, Stop
<1> QED
  BY <1>1, <1>2, <1>3 DEF vars

(* The sources that `init` writes are sources, and readable. *)
LEMMA StarterFacts ==
    Starters \subseteq Sources /\ StarterSource \in Versions /\ StarterSource # Unreadable
<1>1. Listed(StarterPosts) \subseteq Posts /\ Listed(StarterPages) \subseteq Pages
  BY StarterAssumption, ListFacts, PostsAssumption, PagesAssumption
<1>2. Starters \subseteq Sources
  BY <1>1 DEF Starters, Sources
<1> QED
  BY <1>2, StarterAssumption, VersionsAssumption

(* A new list of one kind replaces what was listed of that kind, and       *)
(* nothing else.                                                           *)
LEMMA EditListFrame ==
    ASSUME NEW k \in Kinds, NEW l, EditList(k, l)
    PROVE  /\ ListedSources' = {s \in ListedSources : s[1] # k} \cup ({k} \X Listed(l))
           /\ \A t : Source(t)' = Source(t)
           /\ l \in ListsOf(k) => Next
           /\ out' = out /\ pc' = pc
<1>1. CASE k = "post" /\ EditPostsLst(l)
  <2>1. postsLst' = l /\ pagesLst' = pagesLst /\ postSrc' = postSrc /\ pageSrc' = pageSrc
        /\ out' = out /\ pc' = pc
    BY <1>1 DEF EditPostsLst, Edited, locals
  <2>2. l \in ListsOf(k) => Next
    BY <1>1 DEF ListsOf, Next, Edit
  <2>3. ListedSources' = {s \in ListedSources : s[1] # k} \cup ({k} \X Listed(l))
    BY <1>1, <2>1 DEF ListedSources
  <2> QED
    BY <2>1, <2>2, <2>3 DEF Source
<1>2. CASE k = "page" /\ EditPagesLst(l)
  <2>1. pagesLst' = l /\ postsLst' = postsLst /\ postSrc' = postSrc /\ pageSrc' = pageSrc
        /\ out' = out /\ pc' = pc
    BY <1>2 DEF EditPagesLst, Edited, locals
  <2>2. l \in ListsOf(k) => Next
    BY <1>2 DEF ListsOf, Next, Edit
  <2>3. ListedSources' = {s \in ListedSources : s[1] # k} \cup ({k} \X Listed(l))
    BY <1>2, <2>1 DEF ListedSources
  <2> QED
    BY <2>1, <2>2, <2>3 DEF Source
<1> QED
  BY <1>1, <1>2 DEF EditList

(* What is listed of a kind is what is on its list.                        *)
LEMMA ListOfKind ==
    ASSUME ListsOK, NEW k \in Kinds
    PROVE  /\ List(k) \in ListsOf(k) /\ <<>> \in ListsOf(k) /\ Listed(<<>>) = {}
           /\ \A x : <<k, x>> \in ListedSources <=> x \in Listed(List(k))
           /\ \A s \in ListedSources : s[1] = k => s[2] \in Listed(List(k))
<1>1. ASSUME NEW S, IsFiniteSet(S) PROVE <<>> \in Lists(S)
  <2>1. <<>> \in [1 .. 0 -> S] /\ 0 \in 0 .. Cardinality(S) /\ DOMAIN <<>> = {}
    BY <1>1, FS_CardinalityType
  <2> QED
    BY <2>1 DEF Lists
<1>2. Listed(<<>>) = {}
  BY DEF Listed
<1>3. /\ \A x : <<k, x>> \in ListedSources <=> x \in Listed(List(k))
      /\ \A s \in ListedSources : s[1] = k => s[2] \in Listed(List(k))
  BY DEF ListedSources, List, Kinds
<1> QED
  BY <1>1, <1>2, <1>3, PostsAssumption, PagesAssumption DEF ListsOf, List, ListsOK, Kinds

(* Appending to a list adds no more than the source to what is listed.     *)
LEMMA AppendEntryFrame ==
    ASSUME ListsOK, FilesOK, NEW s \in Sources, s \notin ListedSources, AppendEntry(s)
    PROVE  /\ Next /\ FilesOK'
           /\ ListedSources' \subseteq ListedSources \cup {s}
           /\ \A t : Source(t)' = Source(t)
           /\ out' = out /\ pc' = pc
           /\ listFile[s[1]] # "open" /\ ListsLoad(listFile) => ListsLoad(listFile')
<1> DEFINE k == s[1]
           l == List(k)
<1>1. k \in Kinds /\ s = <<k, s[2]>> /\ s[2] \notin Listed(l)
      /\ (k = "post" => s[2] \in Posts) /\ (k = "page" => s[2] \in Pages)
  BY ListOfKind DEF Sources, Kinds
<1>2. l \in ListsOf(k) /\ \A x : <<k, x>> \in ListedSources <=> x \in Listed(l)
  BY <1>1, ListOfKind
<1>3. PICK m \in ListsOf(k), state \in FileStates :
         /\ EditList(k, m) /\ Mark(k, state)
         /\ Listed(m) \subseteq Listed(l) \cup {s[2]}
         /\ listFile[k] # "open" => state = IF listFile[k] = "joined" THEN "joined" ELSE "whole"
  <2>1. CASE /\ EditList(k, Append(l, s[2]))
             /\ Mark(k, IF listFile[k] = "joined" THEN "joined" ELSE "whole")
    <3>1. Append(l, s[2]) \in ListsOf(k) /\ Listed(Append(l, s[2])) = Listed(l) \cup {s[2]}
      <4>1. CASE k = "post"
        BY <4>1, <1>1, <1>2, AppendedList, PostsAssumption DEF ListsOf
      <4>2. CASE k = "page"
        BY <4>2, <1>1, <1>2, AppendedList, PagesAssumption DEF ListsOf
      <4> QED
        BY <1>1, <4>1, <4>2 DEF Kinds
    <3> QED
      BY <2>1, <3>1 DEF FileStates
  <2>2. CASE /\ listFile[k] = "open"
             /\ \E m \in ListsOf(k) : Without(l, l[Len(l)], m) /\ EditList(k, m)
             /\ Mark(k, "joined")
    BY <2>2 DEF Without, FileStates
  <2>3. CASE listFile[k] = "open" /\ EditList(k, l) /\ Mark(k, "whole")
    BY <2>3, <1>2 DEF FileStates
  <2> QED
    BY <2>1, <2>2, <2>3 DEF AppendEntry
<1>4. /\ ListedSources' = {t \in ListedSources : t[1] # k} \cup ({k} \X Listed(m))
      /\ \A t : Source(t)' = Source(t)
      /\ Next /\ out' = out /\ pc' = pc
  BY <1>1, <1>3, EditListFrame
<1>5. ListedSources' \subseteq ListedSources \cup {s}
  BY <1>1, <1>2, <1>3, <1>4
<1>6. FilesOK' /\ listFile' = [listFile EXCEPT ![k] = state]
  BY <1>1, <1>3 DEF FilesOK, Mark
<1>7. listFile[k] # "open" /\ ListsLoad(listFile) => ListsLoad(listFile')
  BY <1>1, <1>3, <1>6 DEF FilesOK, ListsLoad, Kinds
<1> QED
  BY <1>4, <1>5, <1>6, <1>7

(* While the copy of a list waits for its name nothing of its kind is      *)
(* listed, and the copy lists what the list did, but for the entry.        *)
LEMMA RemoveListFrame ==
    ASSUME ListsOK, FilesOK, JobInv, RemoveList
    PROVE  /\ Next /\ FilesOK'
           /\ job # NoJob /\ job.src \in Sources
           /\ ListedSources' \subseteq ListedSources \ {job.src}
           /\ \A t : Source(t)' = Source(t)
           /\ out' = out /\ pc' = pc
           /\ job'.kind = "delete" /\ job'.step = "rename" /\ job'.src = job.src
           /\ Copied'
           /\ {job.src[1]} \X Listed(job'.copy) \subseteq ListedSources
           /\ ListsLoad(listFile) => ListsLoad([listFile' EXCEPT ![job.src[1]] = job'.as])
<1> DEFINE k == job.src[1]
           l == List(k)
<1>1. job # NoJob /\ job.step = "unlist" /\ job.src \in Sources
  BY DEF RemoveList, At, JobInv
<1>2. k \in Kinds /\ job.src = <<k, job.src[2]>>
  BY <1>1 DEF Sources, Kinds
<1>3. PICK m \in ListsOf(k), state \in {listFile[k], "whole"} :
         /\ Without(l, job.src[2], m)
         /\ state # listFile[k] => listFile[k] = "open"
         /\ EditList(k, <<>>) /\ Mark(k, "missing")
         /\ job' = [kind |-> "delete", src |-> job.src, step |-> "rename",
                    copy |-> m, as |-> state]
  BY DEF RemoveList
<1>4. /\ <<>> \in ListsOf(k) /\ Listed(<<>>) = {}
      /\ \A x : <<k, x>> \in ListedSources <=> x \in Listed(l)
  BY <1>2, ListOfKind
<1>5. /\ ListedSources' = {t \in ListedSources : t[1] # k} \cup ({k} \X Listed(<<>>))
      /\ \A t : Source(t)' = Source(t)
      /\ Next /\ out' = out /\ pc' = pc
  BY <1>2, <1>3, <1>4, EditListFrame
<1>6. ListedSources' \subseteq ListedSources \ {job.src}
  BY <1>2, <1>4, <1>5
<1>7. /\ listFile' = [listFile EXCEPT ![k] = "missing"] /\ state \in FileStates
      /\ FilesOK' /\ listFile'[k] = "missing"
  BY <1>2, <1>3 DEF FilesOK, Mark, FileStates
<1>8. /\ job'.kind = "delete" /\ job'.step = "rename" /\ job'.src = job.src
      /\ job'.copy = m /\ job'.as = state
  BY <1>3
<1>9. Listed(m) = Listed(l) \ {job.src[2]}
  BY <1>3 DEF Without
<1>10. Copied'
  BY <1>3, <1>7, <1>8, <1>9 DEF Copied, ListsOf
<1>11. {k} \X Listed(m) \subseteq ListedSources
  BY <1>4, <1>9
<1>12. ListsLoad(listFile) => ListsLoad([listFile' EXCEPT ![k] = state])
  BY <1>2, <1>3, <1>7 DEF FilesOK, ListsLoad, Kinds
<1> QED
  BY <1>1, <1>5, <1>6, <1>7, <1>8, <1>10, <1>11, <1>12

(* The copy takes the name of the list.                                    *)
LEMMA RenameListFrame ==
    ASSUME ListsOK, FilesOK, JobInv, RenameList
    PROVE  /\ Next /\ FilesOK'
           /\ job # NoJob /\ job.src \in Sources /\ job.src \notin ListedSources'
           /\ ListedSources' \subseteq ListedSources \cup ({job.src[1]} \X Listed(job.copy))
           /\ \A t : Source(t)' = Source(t)
           /\ out' = out /\ pc' = pc
           /\ job'.kind = "delete" /\ job'.step = "remove" /\ job'.src = job.src
           /\ listFile' = [listFile EXCEPT ![job.src[1]] = job.as]
<1> DEFINE k == job.src[1]
<1>1. job # NoJob /\ job.step = "rename" /\ job.src \in Sources /\ Copied
      /\ job.src \notin ListedSources
  BY DEF RenameList, At, JobInv
<1>2. k \in Kinds /\ job.src = <<k, job.src[2]>>
  BY <1>1 DEF Sources, Kinds
<1>3. /\ EditList(k, job.copy) /\ listFile' = [listFile EXCEPT ![k] = job.as]
      /\ job' = [kind |-> "delete", src |-> job.src, step |-> "remove"]
  BY DEF RenameList, Mark, Begin
<1>4. /\ ListedSources' = {t \in ListedSources : t[1] # k} \cup ({k} \X Listed(job.copy))
      /\ \A t : Source(t)' = Source(t)
      /\ Next /\ out' = out /\ pc' = pc
  BY <1>1, <1>2, <1>3, EditListFrame DEF Copied
<1>5. job.src \notin ListedSources'
  BY <1>1, <1>2, <1>4 DEF Copied
<1>6. FilesOK'
  BY <1>1, <1>2, <1>3 DEF FilesOK, Copied
<1> QED
  BY <1>1, <1>3, <1>4, <1>5, <1>6

(* The change of a file that a step of a command makes is one of BuildSite.*)
LEMMA StepIsEdit ==
    ASSUME CInv, CNext
    PROVE  [Next]_vars
<1>1. CASE Rest \/ Abandon
  <2>1. ASSUME NEW k \in Kinds, NEW l \in ListsOf(k), EditList(k, l) PROVE Next
    BY <2>1, EditListFrame
  <2> QED
    BY <1>1, <2>1 DEF Rest, RunBuild, StopBuild, UserList, UserEdit, Abandon, files, Next
<1>2. CASE \/ \E s \in Sources : StartNew(s) \/ StartDelete(s)
           \/ StartClean \/ StartInit
  BY <1>2 DEF StartNew, StartDelete, StartClean, StartInit, files
<1>3. ASSUME NEW s \in Sources, NEW v \in Versions \cup {Unreadable}, EditSource(s, v)
      PROVE  Next
  <2>1. CASE s[1] = "post" /\ EditPost(s[2], v)
    BY <2>1, <1>3 DEF Next, Edit, Sources
  <2>2. CASE s[1] = "page" /\ EditPage(s[2], v)
    BY <2>2, <1>3 DEF Next, Edit, Sources
  <2> QED
    BY <1>3, <2>1, <2>2 DEF EditSource
<1>4. CASE NewWrite \/ DeleteSource
  BY <1>3, <1>4, NewSourceAssumption DEF NewWrite, DeleteSource, At, CInv, JobInv
<1>5. CASE NewAppend
  <2>1. job.src \in Sources /\ job.src \notin ListedSources /\ AppendEntry(job.src)
    BY <1>5 DEF NewAppend, At, CInv, JobInv
  <2> QED
    BY <2>1, AppendEntryFrame DEF CInv
<1>6. CASE RemoveList \/ RenameList
  BY <1>6, RemoveListFrame, RenameListFrame DEF CInv
<1>7. CASE (\E o \in OutNames : RemoveOutput(o)) \/ RemoveManifest
  BY <1>7 DEF RemoveOutput, RemoveManifest, Next, Drop
<1>8. CASE InitSite \/ InitPostsLst \/ InitPagesLst \/ InitBanner
  BY <1>8, StarterAssumption DEF InitSite, InitPostsLst, InitPagesLst, InitBanner, Next, Edit
<1>9. ASSUME NEW s \in Starters, InitSource(s) PROVE Next
  BY <1>3, <1>9, StarterFacts DEF InitSource
<1> QED
  BY <1>1, <1>2, <1>4, <1>5, <1>6, <1>7, <1>8, <1>9 DEF CNext, Command

(* Which sources are listed, and what they hold, hangs on the inputs.      *)
LEMMA SourcesSame ==
    ASSUME UNCHANGED inputs
    PROVE  ListedSources' = ListedSources /\ \A s : Source(s)' = Source(s)
BY DEF inputs, ListedSources, Source

(* A change of a source leaves the lists alone.                            *)
LEMMA EditSourceFrame ==
    ASSUME ListsOK, NEW s \in Sources, NEW v, EditSource(s, v)
    PROVE  /\ ListedSources' = ListedSources
           /\ Source(s)' = v
           /\ \A t \in Sources : t # s => Source(t)' = Source(t)
<1>1. CASE s[1] = "post" /\ EditPost(s[2], v)
  BY <1>1 DEF EditPost, ListsOK, ListedSources, Source, Sources
<1>2. CASE s[1] = "page" /\ EditPage(s[2], v)
  BY <1>2 DEF EditPage, ListsOK, ListedSources, Source, Sources
<1> QED
  BY <1>1, <1>2 DEF EditSource

(* The listed sources are sources; the site loads when they can be read.   *)
LEMMA LoadableSources ==
    /\ ListsOK => ListedSources \subseteq Sources
    /\ Loadable <=> \A s \in ListedSources : Source(s) # Unreadable
<1>1. ASSUME ListsOK PROVE ListedSources \subseteq Sources
  <2>1. Listed(postsLst) \subseteq Posts /\ Listed(pagesLst) \subseteq Pages
    BY <1>1, ListFacts, PostsAssumption, PagesAssumption DEF ListsOK
  <2> QED
    BY <2>1 DEF ListedSources, Sources
<1>2. ASSUME Loadable, NEW s \in ListedSources PROVE Source(s) # Unreadable
  <2>1. CASE s \in {"post"} \X Listed(postsLst)
    BY <1>2, <2>1 DEF Loadable, Source
  <2>2. CASE s \in {"page"} \X Listed(pagesLst)
    BY <1>2, <2>2 DEF Loadable, Source
  <2> QED
    BY <2>1, <2>2 DEF ListedSources
<1>3. ASSUME \A s \in ListedSources : Source(s) # Unreadable PROVE Loadable
  <2>1. ASSUME NEW p \in Listed(postsLst) PROVE postSrc[p] # Unreadable
    <3>1. <<"post", p>> \in ListedSources
      BY DEF ListedSources
    <3> QED
      BY <1>3, <3>1 DEF Source
  <2>2. ASSUME NEW g \in Listed(pagesLst) PROVE pageSrc[g] # Unreadable
    <3>1. <<"page", g>> \in ListedSources
      BY DEF ListedSources
    <3> QED
      BY <1>3, <3>1 DEF Source
  <2> QED
    BY <2>1, <2>2 DEF Loadable
<1> QED
  BY <1>1, <1>2, <1>3

(* What a command may do to a site that loads.                             *)
Excused == \/ At("rename") /\ job.src[1] = "post" /\ job' = NoJob
           \/ At("append") /\ listFile[job.src[1]] = "open"
KeepsLoading ==
    /\ job # NoJob /\ job.kind # "init" /\ WillLoad /\ ~WillLoad' => Excused
    /\ At("banner") => SiteLoads'

(* A step at which no copy waits, before or after it, has to keep a site   *)
(* that loads.                                                             *)
LEMMA NoCopy ==
    ASSUME ~At("rename"), ~At("rename")', ~At("banner"), SiteLoads => SiteLoads' \/ Excused
    PROVE  KeepsLoading
BY DEF KeepsLoading, WillLoad

(* Every step of the commands keeps CInv, and a command keeps the site     *)
(* loadable.                                                               *)
LEMMA CommandStep ==
    ASSUME CInv, [CNext]_cvars
    PROVE  CInv' /\ KeepsLoading
<1>1. [Next]_vars
  BY StepIsEdit DEF cvars, files, vars
<1>2. ListsOK'
  BY <1>1, ListsStay DEF CInv
<1> DEFINE Readable == \A s \in ListedSources : Source(s) # Unreadable
<1>0. /\ ListedSources \subseteq Sources /\ ListedSources' \subseteq Sources'
      /\ Sources' = Sources
      /\ SiteLoads <=> Readable /\ ListsLoad(listFile)
      /\ SiteLoads' <=> Readable' /\ ListsLoad(listFile')
  <2>1. (Loadable <=> Readable)' /\ (ListsOK => ListedSources \subseteq Sources)'
    BY LoadableSources, PTL
  <2> QED
    BY <1>2, <2>1, LoadableSources DEF CInv, SiteLoads, ListsLoad, Sources
<1>3. ASSUME UNCHANGED inputs, UNCHANGED listFile
      PROVE  /\ ListedSources' = ListedSources /\ \A s : Source(s)' = Source(s)
             /\ SiteLoads <=> SiteLoads'
             /\ FilesOK'
  BY <1>0, <1>3, SourcesSame DEF CInv, FilesOK
<1>0b. At("banner") => SiteLoads
  <2> SUFFICES ASSUME At("banner") PROVE Readable /\ ListsLoad(listFile)
    BY <1>0
  <2>1. Written({})
    BY DEF At, CInv, JobInv
  <2>2. ListedSources = Starters
    BY <2>1 DEF Written, ListedSources, Starters
  <2> QED
    BY <2>1, <2>2, StarterFacts DEF Written, ListsLoad
<1>4. CASE Rest
  <2>1. job = NoJob /\ job' = NoJob
    BY <1>4 DEF Rest, RunBuild, StopBuild, UserList, UserEdit, NoCommand
  <2>2. FilesOK'
    BY <1>4 DEF Rest, RunBuild, StopBuild, UserList, UserEdit, Mark, CInv, FilesOK
  <2> QED
    BY <1>2, <2>1, <2>2 DEF CInv, JobInv, KeepsLoading, At
<1>20. CASE Abandon
  <2>1. job # NoJob /\ job' = NoJob /\ UNCHANGED inputs /\ UNCHANGED listFile
    BY <1>20 DEF Abandon, EndJob, files, vars
  <2>2. CInv'
    BY <1>2, <1>3, <2>1 DEF CInv, JobInv
  <2>3. ASSUME At("rename"), job.src[1] # "post", CopyLoads PROVE SiteLoads
    <3>1. job.src \in Sources /\ Copied
      BY <2>3 DEF At, CInv, JobInv
    <3>2. job.src[1] = "page" /\ listFile["page"] = "missing"
      BY <2>3, <3>1 DEF Sources, Copied
    <3> QED
      BY <1>0, <2>3, <3>2 DEF CopyLoads, ListsLoad, CInv, FilesOK, Kinds
  <2>4. KeepsLoading
    BY <1>3, <1>0b, <2>1, <2>3 DEF KeepsLoading, WillLoad, Excused, At
  <2> QED
    BY <2>2, <2>4
<1>5. CASE \E s \in Sources : StartNew(s) \/ StartDelete(s)
  <2>1. PICK s \in Sources : StartNew(s) \/ StartDelete(s)
    BY <1>5
  <2>2. UNCHANGED inputs /\ UNCHANGED listFile /\ job = NoJob
    BY <2>1 DEF StartNew, StartDelete, Ready, vars, files
  <2>3. CASE StartNew(s)
    <3>1. job' = [kind |-> "new", src |-> s, step |-> "write"] /\ s \notin ListedSources
      BY <2>3 DEF StartNew, Begin, Sources, ListedSources
    <3> QED
      BY <1>2, <1>3, <2>2, <3>1 DEF CInv, JobInv, KeepsLoading, At, InitSteps
  <2>4. CASE StartDelete(s)
    <3>1. job' = [kind |-> "delete", src |-> s, step |-> "unlist"]
      BY <2>4 DEF StartDelete, Begin
    <3> QED
      BY <1>2, <1>3, <2>2, <3>1 DEF CInv, JobInv, KeepsLoading, At, InitSteps
  <2> QED
    BY <2>1, <2>3, <2>4
<1>6. CASE StartClean
  BY <1>2, <1>3, <1>6 DEF StartClean, Ready, Begin, CInv, JobInv, KeepsLoading, At, InitSteps,
                          files, vars
<1>7. CASE NewWrite
  <2>1. PICK s \in Sources : /\ s = job.src /\ s \notin ListedSources
                              /\ EditSource(s, NewSource)
    BY <1>7 DEF NewWrite, At, CInv, JobInv
  <2>2. /\ ListedSources' = ListedSources
        /\ Source(s)' = NewSource
        /\ \A t \in Sources : t # s => Source(t)' = Source(t)
    BY <2>1, EditSourceFrame DEF CInv
  <2>3. job.step = "write" /\ job'.step = "append" /\ job'.src = s /\ listFile' = listFile
    BY <1>7, <2>1 DEF NewWrite, To, At
  <2>4. Source(job.src)' = NewSource
    BY <2>2, <2>3 DEF Source
  <2>5. s \notin ListedSources'
    BY <2>1, <2>2
  <2>6. CInv'
    BY <1>2, <2>3, <2>4, <2>5 DEF CInv, JobInv, InitSteps, FilesOK
  <2>7. SiteLoads => SiteLoads'
    BY <1>0, <2>1, <2>2, <2>3
  <2> QED
    BY <2>3, <2>6, <2>7, NoCopy DEF At
<1>8. CASE NewAppend
  <2>1. job.src \in Sources /\ job.src \notin ListedSources /\ AppendEntry(job.src)
        /\ Source(job.src) = NewSource /\ job' = NoJob /\ job # NoJob /\ job.step = "append"
    BY <1>8 DEF NewAppend, At, CInv, JobInv, EndJob
  <2>2. /\ ListedSources' \subseteq ListedSources \cup {job.src}
        /\ \A t : Source(t)' = Source(t)
        /\ FilesOK'
        /\ listFile[job.src[1]] # "open" /\ ListsLoad(listFile) => ListsLoad(listFile')
    BY <2>1, AppendEntryFrame DEF CInv
  <2>3. NewSource # Unreadable
    BY NewSourceAssumption, VersionsAssumption
  <2>4. SiteLoads => SiteLoads' \/ Excused
    BY <1>0, <2>1, <2>2, <2>3 DEF Excused, At
  <2>5. CInv'
    BY <1>2, <2>1, <2>2 DEF CInv, JobInv
  <2> QED
    BY <2>1, <2>4, <2>5, NoCopy DEF At
<1>9. CASE RemoveList
  <2>1. /\ job.src \in Sources /\ job.step = "unlist"
        /\ ListedSources' \subseteq ListedSources \ {job.src}
        /\ \A t : Source(t)' = Source(t)
        /\ job'.kind = "delete" /\ job'.step = "rename" /\ job'.src = job.src
        /\ Copied' /\ FilesOK'
        /\ {job.src[1]} \X Listed(job'.copy) \subseteq ListedSources
        /\ ListsLoad(listFile) => ListsLoad([listFile' EXCEPT ![job.src[1]] = job'.as])
    BY <1>9, RemoveListFrame DEF CInv, RemoveList, At
  <2>2. CInv'
    BY <1>2, <2>1 DEF CInv, JobInv, InitSteps
  <2>3. SiteLoads => CopyLoads'
    <3>1. SUFFICES ASSUME SiteLoads PROVE CopyLoads'
      OBVIOUS
    <3>2. \A s \in ListedSources' : Source(s)' # Unreadable
      BY <1>0, <2>1, <3>1
    <3>3. \A t \in {job.src[1]} \X Listed(job'.copy) : Source(t)' # Unreadable
      BY <1>0, <2>1, <3>1
    <3>4. ListsLoad([listFile' EXCEPT ![job'.src[1]] = job'.as])
      BY <1>0, <2>1, <3>1
    <3>5. (\A x \in Listed(job.copy) : Source(<<job.src[1], x>>) # Unreadable)'
      BY <2>1, <3>3 DEF Source
    <3> QED
      BY <3>2, <3>4, <3>5 DEF CopyLoads
  <2>4. At("rename")' /\ ~At("rename") /\ ~At("banner")
    <3>1. job' # NoJob
      BY <2>1 DEF NoJob
    <3> QED
      BY <2>1, <3>1 DEF At
  <2>5. KeepsLoading
    BY <2>3, <2>4 DEF KeepsLoading, WillLoad
  <2> QED
    BY <2>2, <2>5
<1>21. CASE RenameList
  <2>1. /\ job.src \in Sources /\ job # NoJob /\ job.step = "rename"
        /\ job.src \notin ListedSources'
        /\ ListedSources' \subseteq ListedSources \cup ({job.src[1]} \X Listed(job.copy))
        /\ \A t : Source(t)' = Source(t)
        /\ job'.kind = "delete" /\ job'.step = "remove" /\ job'.src = job.src
        /\ FilesOK'
        /\ listFile' = [listFile EXCEPT ![job.src[1]] = job.as]
    BY <1>21, RenameListFrame DEF CInv, RenameList, At
  <2>2. CInv'
    BY <1>2, <2>1 DEF CInv, JobInv, InitSteps
  <2>3. CopyLoads => SiteLoads'
    BY <1>0, <2>1 DEF CopyLoads
  <2>4. At("rename") /\ ~At("rename")' /\ ~At("banner")
    BY <2>1 DEF At
  <2>5. KeepsLoading
    BY <2>3, <2>4 DEF KeepsLoading, WillLoad
  <2> QED
    BY <2>2, <2>5
<1>10. CASE DeleteSource
  <2>1. job.src \in Sources /\ job.src \notin ListedSources /\ job.step = "remove"
        /\ EditSource(job.src, Unreadable) /\ job'.step = "outputs" /\ listFile' = listFile
    BY <1>10 DEF DeleteSource, At, To, CInv, JobInv
  <2>2. ListedSources' = ListedSources
        /\ \A t \in Sources : t # job.src => Source(t)' = Source(t)
    BY <2>1, EditSourceFrame DEF CInv
  <2>3. CInv'
    BY <1>2, <2>1 DEF CInv, JobInv, InitSteps, FilesOK
  <2>4. SiteLoads => SiteLoads'
    BY <1>0, <2>1, <2>2
  <2> QED
    BY <2>1, <2>3, <2>4, NoCopy DEF At
<1>11. CASE \E o \in OutNames : RemoveOutput(o)
  <2>1. UNCHANGED inputs /\ UNCHANGED listFile /\ job' = job /\ job.step = "outputs"
        /\ job # NoJob
    BY <1>11 DEF RemoveOutput, DropOutput, At
  <2> QED
    BY <1>2, <1>3, <2>1, NoCopy DEF CInv, JobInv, InitSteps, At
<1>12. CASE RemoveManifest
  <2>1. UNCHANGED inputs /\ UNCHANGED listFile /\ job' = NoJob /\ job.step = "outputs"
    BY <1>12 DEF RemoveManifest, DropManifest, EndJob, At, vars
  <2> QED
    BY <1>2, <1>3, <2>1, NoCopy DEF CInv, JobInv, At
<1>14. CASE StartInit
  BY <1>2, <1>3, <1>14 DEF StartInit, Ready, CInv, JobInv, KeepsLoading, InitSteps, At, files, vars
<1>15. CASE InitSite
  BY <1>2, <1>15 DEF InitSite, At, To, CInv, FilesOK, JobInv, KeepsLoading, InitSteps
<1>16. CASE InitPostsLst
  <2>1. /\ job'.step = "pageslst" /\ job'.kind = "init" /\ job'.todo = Starters
        /\ job.kind = "init" /\ job.step = "postslst" /\ postsLst' = StarterPosts
        /\ listFile' = [listFile EXCEPT !["post"] = "whole"]
    BY <1>16 DEF InitPostsLst, EditPostsLst, Mark, At, To, CInv, JobInv, InitSteps
  <2>2. FilesOK' /\ listFile'["post"] = "whole"
    BY <2>1 DEF CInv, FilesOK, Kinds, FileStates
  <2> QED
    BY <1>2, <2>1, <2>2 DEF CInv, JobInv, KeepsLoading, At, InitSteps
<1>17. CASE InitPagesLst
  <2>1. /\ job'.step = "sources" /\ job'.todo = Starters /\ job'.kind = "init"
        /\ job.kind = "init" /\ job.step = "pageslst"
        /\ listFile' = [listFile EXCEPT !["page"] = "whole"]
    BY <1>17 DEF InitPagesLst, Mark, At, To, CInv, JobInv, InitSteps
  <2>2. FilesOK' /\ listFile'["page"] = "whole" /\ listFile'["post"] = listFile["post"]
    BY <2>1 DEF CInv, FilesOK, Kinds, FileStates
  <2>3. Written(Starters)'
    BY <1>17, <2>2 DEF InitPagesLst, EditPagesLst, At, CInv, JobInv, Written
  <2> QED
    BY <1>2, <2>1, <2>2, <2>3 DEF At, CInv, JobInv, KeepsLoading, InitSteps
<1>18. ASSUME NEW s \in Starters, InitSource(s)
       PROVE  CInv' /\ KeepsLoading
  <2>1. /\ job.step = "sources" /\ job.kind = "init" /\ s \in job.todo
        /\ EditSource(s, StarterSource) /\ Written(job.todo) /\ listFile' = listFile
    BY <1>18 DEF InitSource, At, CInv, JobInv, InitSteps
  <2>2. /\ job'.kind = "init" /\ job'.todo = job.todo \ {s}
        /\ job'.step = IF job.todo = {s} THEN "banner" ELSE "sources"
    BY <1>18, <2>1 DEF InitSource
  <2>3. /\ UNCHANGED <<postsLst, pagesLst>>
        /\ Source(s)' = StarterSource
        /\ \A t \in Sources : t # s => Source(t)' = Source(t)
    BY <2>1, StarterFacts, EditSourceFrame DEF CInv, EditSource, EditPost, EditPage
  <2>4. Written(job.todo \ {s})'
    BY <2>1, <2>2, <2>3, StarterFacts DEF Written
  <2> QED
    BY <1>2, <2>1, <2>2, <2>4 DEF CInv, FilesOK, JobInv, KeepsLoading, At, InitSteps
<1>19. CASE InitBanner
  <2>1. Written({}) /\ job.kind = "init"
    BY <1>19 DEF InitBanner, At, CInv, JobInv, InitSteps
  <2>2. job' = NoJob /\ UNCHANGED <<postsLst, pagesLst, postSrc, pageSrc, listFile>>
    BY <1>19 DEF InitBanner, EndJob, EditConfig
  <2>3. SiteLoads
    BY <1>0b, <1>19 DEF InitBanner
  <2>4. SiteLoads'
    BY <1>0, <2>2, <2>3 DEF ListedSources, Source
  <2> QED
    BY <1>2, <2>1, <2>2, <2>4 DEF CInv, FilesOK, JobInv, KeepsLoading
<1>13. CASE UNCHANGED cvars
  <2>1. UNCHANGED inputs /\ UNCHANGED listFile /\ job' = job
    BY <1>13 DEF cvars, files, vars, inputs
  <2>2. \A todo : Written(todo) => Written(todo)'
    BY <1>3, <2>1 DEF Written, inputs
  <2>3. job # NoJob /\ job.step = "append" => (Source(job.src) = NewSource)'
    BY <1>3, <2>1 DEF CInv, JobInv
  <2>4. Copied => Copied'
    BY <2>1 DEF Copied
  <2>5. JobInv'
    BY <1>3, <2>1, <2>2, <2>3, <2>4 DEF CInv, JobInv, inputs
  <2>6. CopyLoads => CopyLoads'
    BY <1>3, <2>1 DEF CopyLoads
  <2>7. KeepsLoading
    BY <1>3, <1>0b, <2>1, <2>6 DEF KeepsLoading, WillLoad, At
  <2> QED
    BY <1>2, <1>3, <2>1, <2>5, <2>7 DEF CInv
<1> QED
  BY <1>4, <1>5, <1>6, <1>7, <1>8, <1>9, <1>10, <1>11, <1>12, <1>13, <1>14, <1>15, <1>16,
     <1>17, <1>18, <1>19, <1>20, <1>21 DEF CNext, Command

(* The initial states satisfy CInv. *)
LEMMA CInitInv == CInit => CInv
BY DEF CInit, Init, CInv, ListsOK, FilesOK, JobInv

-----------------------------------------------------------------------------
(* The theorems. *)

(* The commands implement BuildSite: they never list a source twice, and   *)
(* change nothing while a build runs.                                      *)
THEOREM CommandsRefine == CSpec => BuildSiteSpec
<1>1. CInit => Init
  BY DEF CInit
<1>2. CInv /\ [CNext]_cvars => [Next]_vars
  BY StepIsEdit DEF cvars, files, vars
<1>3. CInv /\ [CNext]_cvars => CInv'
  BY CommandStep
<1> QED
  BY CInitInv, <1>1, <1>2, <1>3, PTL DEF CSpec, BuildSiteSpec, Spec

(* A site that loads still does wherever `new`, `delete` or `clean` stops  *)
(* (scaffold.c:837-867, 967-972), but for a posts.lst that is lost between *)
(* its removal and the rename of its copy (:206-210) and for a name put    *)
(* behind one that lacked its newline (:141, 159); and one that `init` has *)
(* finished loads (:625-768).                                              *)
THEOREM CommandsLoad == CSpec => CommandsKeepLoadable
<1>1. CInv /\ [CNext]_cvars => CInv'
  BY CommandStep
<1>2. CInv /\ [CNext]_cvars =>
         [/\ job # NoJob /\ job.kind # "init" /\ WillLoad /\ ~WillLoad' =>
                 \/ At("rename") /\ job.src[1] = "post" /\ job' = NoJob
                 \/ At("append") /\ listFile[job.src[1]] = "open"
          /\ At("banner") => SiteLoads']_cvars
  BY CommandStep DEF KeepsLoading, Excused
<1> QED
  BY CInitInv, <1>1, <1>2, PTL DEF CSpec, CommandsKeepLoadable

(* With the commands beside it, a build that reports success still leaves  *)
(* nothing stale among the outputs its manifests knew of.                  *)
THEOREM CommandsFresh ==
    ASSUME NoCollisions, DistinctStamps, DistinctNames
    PROVE  CSpec => []PublishedIsFresh
BY CommandsRefine, FreshPages, PTL DEF BuildSiteSpec

-----------------------------------------------------------------------------
(* A deleted source is gone.                                               *)

(* What an output shows is read off that output alone, and only a page     *)
(* shows anything.                                                         *)
LEMMA ShowsSame ==
    ASSUME NEW o, NEW s
    PROVE  /\ out'[o] = out[o] => (Shows(o, s)' <=> Shows(o, s))
           /\ out'[o].kind # "page" => ~Shows(o, s)'
BY DEF Shows

(* What a build writes shows only sources that are listed.                 *)
LEMMA WrittenIsListed ==
    ASSUME TypeOK, CanBuild, DistinctNames,
           NEW o, NEW b, Writable(o, b), out'[o] = Render(b),
           NEW s \in Sources, Shows(o, s)'
    PROVE  s \in ListedSources
<1>1. out'[o].key = Key
  BY DEF Render
<1>2. CASE s[1] = "page" /\ o = PageOut(s[2])
  <2>1. s[2] \in Pages /\ s = <<"page", s[2]>>
    BY <1>2 DEF Sources
  <2>2. UsedLabels \subseteq Labels
    BY SiteType
  <2>3. o \notin Shared
    BY <1>2, <2>1 DEF DistinctNames, Shared, Index, Archive, About, PageOut
  <2>4. \A l \in UsedLabels : o # LabelOut(l)
    BY <1>2, <2>1, <2>2 DEF DistinctNames, LabelOut, PageOut
  <2>5. \A n : o # PostOut(n)
    BY <1>2 DEF PostOut, PageOut
  <2>6. s[2] \in PublishedPages
    BY <1>2, <2>3, <2>4, <2>5 DEF Writable, PageOut
  <2> QED
    BY <2>1, <2>6 DEF PublishedPages, ListedSources
<1>3. CASE s[1] = "post" /\ s[2] \in DOMAIN out'[o].key.posts
  <2>1. s = <<"post", s[2]>>
    BY <1>3 DEF Sources
  <2>2. s[2] \in PublishedPosts
    BY <1>1, <1>3 DEF Key
  <2> QED
    BY <2>1, <2>2 DEF PublishedPosts, ListedSources
<1> QED
  BY <1>2, <1>3 DEF Shows

(* A step of BuildSite lets an output show only what it showed before and  *)
(* what is listed.                                                         *)
LEMMA NextShows ==
    ASSUME IInv, DistinctNames, [Next]_vars,
           NEW o \in OutNames, NEW s \in Sources, Shows(o, s)'
    PROVE  Shows(o, s) \/ s \in ListedSources
<1> SUFFICES ASSUME ~Shows(o, s) PROVE s \in ListedSources
  OBVIOUS
<1>1. out'[o] # out[o] /\ out'[o].kind = "page"
  BY ShowsSame
<1>2. TypeOK
  BY DEF IInv
<1>3. ASSUME NEW x, NEW b, Write(x, Render(b)), Writable(x, b), pc # "idle"
      PROVE  s \in ListedSources
  <2>1. out' = [out EXCEPT ![x] = Render(b)] /\ DOMAIN out = OutNames
    BY <1>2, <1>3 DEF Write, TypeOK
  <2>2. o = x /\ out'[o] = Render(b)
    BY <1>1, <2>1
  <2>3. CanBuild
    BY <1>3 DEF IInv, Running, Control
  <2> QED
    BY <1>2, <1>3, <2>2, <2>3, WrittenIsListed
<1>4. pc # "idle" => Control
  BY DEF IInv, Running
<1>5. CASE WriteIndex \/ WriteArchive \/ WriteAbout
  <2>1. pc # "idle" /\ \E x \in Shared : Write(x, Render(NoBody))
    BY <1>5 DEF WriteIndex, WriteArchive, WriteAbout, SharedContent, Shared
  <2> QED
    BY <1>3, <2>1 DEF Writable
<1>6. ASSUME NEW p \in Posts, WritePost(p) PROVE s \in ListedSources
  <2>1. pc = "posts" /\ p \in left /\ Write(PostOut(OutNumber(p)), Render(postSrc[p].body))
    BY <1>6 DEF WritePost, PostContent
  <2>2. p \in PublishedPosts
    BY <1>4, <2>1 DEF Control
  <2> QED
    BY <1>3, <2>1, <2>2 DEF Writable
<1>7. ASSUME NEW g \in Pages, WritePage(g) PROVE s \in ListedSources
  <2>1. pc = "pages" /\ g \in left /\ Write(PageOut(g), Render(pageSrc[g].body))
    BY <1>7 DEF WritePage, PageContent
  <2>2. g \in PublishedPages
    BY <1>4, <2>1 DEF Control
  <2> QED
    BY <1>3, <2>1, <2>2 DEF Writable
<1>8. ASSUME NEW l \in Labels, WriteLabel(l) PROVE s \in ListedSources
  <2>1. pc = "labels" /\ l \in left /\ Write(LabelOut(l), Render(NoBody))
    BY <1>8 DEF WriteLabel, SharedContent
  <2>2. l \in UsedLabels
    BY <1>4, <2>1 DEF Control
  <2> QED
    BY <1>3, <2>1, <2>2 DEF Writable
<1>9. ASSUME NEW gone_, Remove(gone_) PROVE FALSE
  BY <1>1, <1>9 DEF Remove, Absent
<1>10. ASSUME NEW x, out' = [out EXCEPT ![x] = Empty] \/ out' = [out EXCEPT ![x] = Absent]
       PROVE  FALSE
  BY <1>1, <1>2, <1>10 DEF TypeOK, Empty, Absent
<1>11. out' # out
  BY <1>1
<1>12. CASE Step
  <2>1. CASE ClearStep
    BY <1>9, <2>1 DEF ClearStep
  <2>2. ASSUME NEW p \in Posts, PostTooLong(p) PROVE FALSE
    BY <1>10, <2>2 DEF PostTooLong
  <2>3. ASSUME NEW g \in Pages, PageTooLong(g) PROVE FALSE
    BY <1>10, <2>3 DEF PageTooLong
  <2>4. \A p : ~SkipPost(p) /\ ~SkipPage(p)
    BY <1>11 DEF SkipPost, SkipPage
  <2>5. ~BuildRefused /\ ~BuildStart /\ ~PostsDone /\ ~PagesDone /\ ~LabelsDone
        /\ ~SaveManifest
    BY <1>11 DEF BuildRefused, BuildStart, PostsDone, PagesDone, LabelsDone, SaveManifest
  <2> QED
    BY <1>5, <1>6, <1>7, <1>8, <1>12, <2>1, <2>2, <2>3, <2>4, <2>5 DEF Step
<1>13. CASE Interruption
  <2>1. ~StopBetween /\ ~StopSaving
    BY <1>11 DEF StopBetween, StopSaving
  <2>2. ~StopClearing
    BY <1>9 DEF StopClearing
  <2>3. \A x : ~StopInside(x)
    BY <1>10 DEF StopInside
  <2> QED
    BY <1>13, <2>1, <2>2, <2>3 DEF Interruption
<1>14. CASE Edit
  BY <1>11, <1>14 DEF Edit, EditConfig, EditPostsLst, EditPagesLst, EditPost, EditPage
<1>15. CASE Drop
  BY <1>10, <1>11, <1>15 DEF Drop, DropManifest, DropOutput
<1> QED
  BY <1>11, <1>12, <1>13, <1>14, <1>15 DEF Next, vars

(* When BUILD.DAT knows all that stands in OUT, the output `delete` finds  *)
(* for a source is the only one that shows it.                             *)
LEMMA FoundIsShown ==
    ASSUME IInv, DistinctNames, pc = "idle", manifest.loaded, torn = {},
           NEW o \in OutNames, NEW s \in Sources, Shows(o, s)
    PROVE  o \in OutputOf(s) \cap Standing
<1>1. o \in Standing
  BY DEF Shows, Standing, Missing
<1>2. RecordedBy(manifest, o)
  BY <1>1 DEF IInv, Accounted, ThisBuild, Running
<1>3. CASE s[1] = "page" /\ o = PageOut(s[2])
  <2>1. s[2] \in Pages
    BY <1>3 DEF Sources
  <2>2. manifest.archives \subseteq Labels
    BY DEF IInv, TypeOK
  <2>3. o \notin Shared
    BY <1>3, <2>1 DEF DistinctNames, Shared, Index, Archive, About, PageOut
  <2>4. \A l \in manifest.archives : o # LabelOut(l)
    BY <1>3, <2>1, <2>2 DEF DistinctNames, LabelOut, PageOut
  <2>5. \A n : o # PostOut(n)
    BY <1>3 DEF PostOut, PageOut
  <2>6. s[2] \in DOMAIN manifest.pages
    BY <1>2, <1>3, <2>3, <2>4, <2>5 DEF RecordedBy, PageOut
  <2> QED
    BY <1>1, <1>3, <2>6 DEF OutputOf
<1>4. CASE /\ s[1] = "post" /\ s[2] \in DOMAIN out[o].key.posts
           /\ o = PostOut(out[o].key.posts[s[2]].out)
  <2>1. PostsUnchanged(manifest, out[o].key)
    BY <1>2 DEF RecordedBy, Describes
  <2>2. s[2] \in DOMAIN manifest.posts /\ manifest.posts[s[2]].out = out[o].key.posts[s[2]].out
    BY <1>4, <2>1 DEF PostsUnchanged
  <2> QED
    BY <1>1, <1>4, <2>2 DEF OutputOf
<1> QED
  BY <1>3, <1>4 DEF Shows

(* The inductive invariant: no build runs beside a command; a delete that  *)
(* is sure of the outputs has all that show its source before it; what is  *)
(* deleted is not listed and not shown.                                    *)
Sure == job # NoJob /\ job.kind = "delete" /\ sure
AllFound == Sure => /\ job.src \in Sources
                    /\ \A o \in OutNames : Shows(o, job.src) => o \in gone
                    /\ job.step \in {"remove", "outputs"} => job.src \notin ListedSources
DInv == /\ job # NoJob => pc = "idle"
        /\ AllFound
        /\ deleted \subseteq Sources
        /\ deleted \cap ListedSources = {}
        /\ DeletedIsGone

LEMMA CInitDInv == CInit => DInv
BY DEF CInit, Init, DInv, AllFound, Sure, DeletedIsGone

(* Steps that change no output and list nothing new.                       *)
LEMMA StandStill ==
    ASSUME DInv, out' = out, deleted' = deleted, ListedSources' \subseteq ListedSources
    PROVE  /\ deleted' \subseteq Sources /\ deleted' \cap ListedSources' = {}
           /\ DeletedIsGone'
<1>1. \A s : \A o : Shows(o, s)' <=> Shows(o, s)
  BY ShowsSame
<1> QED
  BY <1>1 DEF DInv, DeletedIsGone

(* The changes of the user's files leave OUT and the step of the build     *)
(* alone.                                                                  *)
LEMMA EditFrame ==
    /\ \A s, v : EditSource(s, v) => out' = out /\ pc' = pc
    /\ \A c : EditConfig(c) => out' = out /\ pc' = pc /\ ListedSources' = ListedSources
    /\ \A l : EditPostsLst(l) \/ EditPagesLst(l) => out' = out /\ pc' = pc
BY DEF EditSource, EditConfig, EditPostsLst, EditPagesLst,
       EditPost, EditPage, Edited, locals, ListedSources

LEMMA DeleteStep ==
    ASSUME CInv, IInv, DistinctNames, DInv, [CNext]_cvars
    PROVE  DInv'
<1>1. [Next]_vars
  BY StepIsEdit DEF cvars, files, vars
<1>2. ListsOK /\ FilesOK /\ JobInv
  BY DEF CInv
<1>3. ASSUME NEW s, NEW o, out' = out PROVE Shows(o, s)' <=> Shows(o, s)
  BY <1>3, ShowsSame
<1>4. CASE Rest
  <2>1. job' = job /\ gone' = gone /\ sure' = sure /\ job = NoJob
        /\ deleted' = {s \in deleted : s \notin ListedSources'}
    BY <1>4 DEF Rest, RunBuild, StopBuild, UserList, UserEdit, NoCommand, StillDeleted
  <2>2. deleted' \subseteq Sources /\ deleted' \cap ListedSources' = {}
    BY <2>1 DEF DInv
  <2>3. ASSUME NEW s \in deleted', NEW o \in OutNames PROVE ~Shows(o, s)'
    <3>1. s \in deleted /\ s \in Sources /\ s \notin ListedSources /\ ~Shows(o, s)
      BY <2>1, <2>3 DEF DInv, DeletedIsGone
    <3> QED
      BY <1>1, <3>1, NextShows
  <2> QED
    BY <2>1, <2>2, <2>3 DEF DInv, AllFound, Sure, DeletedIsGone
<1>5. CASE Abandon
  <2>1. job' = NoJob /\ out' = out /\ deleted' = deleted /\ UNCHANGED inputs
    BY <1>5 DEF Abandon, EndJob, files, vars
  <2> QED
    BY <2>1, StandStill, SourcesSame DEF DInv, AllFound, Sure
<1>6. ASSUME NEW s \in Sources, StartNew(s) PROVE DInv'
  <2>1. job' = [kind |-> "new", src |-> s, step |-> "write"] /\ pc' = "idle"
        /\ out' = out /\ deleted' = deleted /\ UNCHANGED inputs
    BY <1>6 DEF StartNew, Begin, Ready, files, vars, locals
  <2> QED
    BY <2>1, StandStill, SourcesSame DEF DInv, AllFound, Sure
<1>7. ASSUME NEW s \in Sources, StartDelete(s) PROVE DInv'
  <2>1. job' = [kind |-> "delete", src |-> s, step |-> "unlist"] /\ pc = "idle" /\ pc' = "idle"
        /\ out' = out /\ deleted' = deleted /\ UNCHANGED inputs
        /\ gone' = OutputOf(s) \cap Standing /\ sure' = (manifest.loaded /\ torn = {})
    BY <1>7 DEF StartDelete, Begin, Ready, files, vars, locals
  <2>2. ASSUME sure', NEW o \in OutNames, Shows(o, s)' PROVE o \in gone'
    <3>1. manifest.loaded /\ torn = {}
      BY <2>1, <2>2
    <3>2. Shows(o, s)
      BY <1>3, <2>1, <2>2
    <3> QED
      BY <2>1, <3>1, <3>2, FoundIsShown
  <2>3. AllFound'
    BY <2>1, <2>2 DEF AllFound, Sure
  <2> QED
    BY <2>1, <2>3, StandStill, SourcesSame DEF DInv
<1>8. CASE StartClean
  <2>1. job' = [kind |-> "clean", src |-> "", step |-> "outputs"] /\ pc' = "idle"
        /\ out' = out /\ deleted' = deleted /\ UNCHANGED inputs
    BY <1>8 DEF StartClean, Begin, Ready, files, vars, locals
  <2> QED
    BY <2>1, StandStill, SourcesSame DEF DInv, AllFound, Sure
<1>9. CASE StartInit
  <2>1. job'.kind = "init" /\ pc' = "idle"
        /\ out' = out /\ deleted' = deleted /\ UNCHANGED inputs
    BY <1>9 DEF StartInit, Ready, files, vars, locals
  <2> QED
    BY <2>1, StandStill, SourcesSame DEF DInv, AllFound, Sure
<1>10. CASE NewWrite \/ DeleteSource
  <2>1. PICK v : EditSource(job.src, v)
    BY <1>10 DEF NewWrite, DeleteSource
  <2>2. job.src \in Sources /\ job # NoJob
    BY <1>2, <1>10 DEF NewWrite, DeleteSource, At, JobInv
  <2>3. ListedSources' = ListedSources /\ out' = out /\ pc' = pc
    BY <1>2, <2>1, <2>2, EditSourceFrame, EditFrame
  <2>4. /\ gone' = gone /\ sure' = sure /\ deleted' = deleted
        /\ job'.kind = job.kind /\ job'.src = job.src
    <3>1. CASE NewWrite
      BY <3>1 DEF NewWrite, To
    <3>2. CASE DeleteSource
      BY <3>2 DEF DeleteSource, To
    <3> QED
      BY <1>10, <3>1, <3>2
  <2>5. job'.step = "append" \/ job.step = "remove"
    <3>1. CASE NewWrite
      BY <3>1 DEF NewWrite, To, At
    <3>2. CASE DeleteSource
      BY <3>2 DEF DeleteSource, At
    <3> QED
      BY <1>10, <3>1, <3>2
  <2>6. AllFound'
    BY <1>3, <2>2, <2>3, <2>4, <2>5 DEF DInv, AllFound, Sure
  <2> QED
    BY <2>2, <2>3, <2>4, <2>6, StandStill DEF DInv
<1>11. CASE RemoveList \/ RenameList
  <2>1. /\ job # NoJob /\ out' = out /\ pc' = pc /\ job'.src = job.src
        /\ job.src \in Sources /\ job.src \notin ListedSources'
        /\ job'.kind = "delete" /\ job.kind = "delete"
    BY <1>2, <1>11, RemoveListFrame, RenameListFrame DEF RemoveList, RenameList, At, JobInv
  <2>2. /\ gone' = gone /\ sure' = sure
        /\ deleted' = {s \in deleted : s \notin ListedSources'}
    BY <1>11 DEF RemoveList, RenameList, StillDeleted
  <2>3. AllFound'
    BY <1>3, <2>1, <2>2 DEF DInv, AllFound, Sure
  <2>4. deleted' \subseteq Sources /\ deleted' \cap ListedSources' = {} /\ DeletedIsGone'
    BY <1>3, <2>1, <2>2 DEF DInv, DeletedIsGone
  <2> QED
    BY <2>1, <2>3, <2>4 DEF DInv
<1>12. CASE NewAppend \/ InitPostsLst \/ InitPagesLst
  <2>1. out' = out /\ pc' = pc /\ job # NoJob
    <3>1. CASE NewAppend
      <4>1. job # NoJob /\ job.src \in Sources /\ job.src \notin ListedSources
            /\ AppendEntry(job.src)
        BY <1>2, <3>1 DEF NewAppend, At, JobInv
      <4> QED
        BY <1>2, <4>1, AppendEntryFrame
    <3> QED
      BY <1>12, <3>1, EditFrame DEF InitPostsLst, InitPagesLst, At
  <2>2. deleted' = {s \in deleted : s \notin ListedSources'}
    BY <1>12 DEF NewAppend, InitPostsLst, InitPagesLst, StillDeleted
  <2>3. deleted' \subseteq Sources /\ deleted' \cap ListedSources' = {} /\ DeletedIsGone'
    BY <1>3, <2>1, <2>2 DEF DInv, DeletedIsGone
  <2>4. job' = NoJob \/ job'.kind = "init"
    <3>1. CASE NewAppend
      BY <3>1 DEF NewAppend, EndJob
    <3>2. CASE InitPostsLst
      BY <1>2, <3>2 DEF InitPostsLst, To, At, JobInv, InitSteps
    <3>3. CASE InitPagesLst
      BY <1>2, <3>3 DEF InitPagesLst, To, At, JobInv, InitSteps
    <3> QED
      BY <1>12, <3>1, <3>2, <3>3
  <2> QED
    BY <2>1, <2>3, <2>4 DEF DInv, AllFound, Sure
<1>13. CASE InitSite \/ InitBanner
  <2>1. out' = out /\ pc' = pc /\ job # NoJob /\ deleted' = deleted
        /\ ListedSources' = ListedSources
    BY <1>13, EditFrame DEF InitSite, InitBanner, At
  <2>2. job' = NoJob \/ job'.kind = "init"
    <3>1. CASE InitSite
      BY <1>2, <3>1 DEF InitSite, To, At, JobInv, InitSteps
    <3>2. CASE InitBanner
      BY <3>2 DEF InitBanner, EndJob
    <3> QED
      BY <1>13, <3>1, <3>2
  <2> QED
    BY <2>1, <2>2, StandStill DEF DInv, AllFound, Sure
<1>14. ASSUME NEW s \in Starters, InitSource(s) PROVE DInv'
  <2>1. job # NoJob /\ deleted' = deleted /\ EditSource(s, StarterSource) /\ job'.kind = "init"
    BY <1>2, <1>14 DEF InitSource, At, JobInv, InitSteps
  <2>2. out' = out /\ pc' = pc /\ ListedSources' = ListedSources
    BY <1>2, <2>1, StarterFacts, EditSourceFrame, EditFrame
  <2> QED
    BY <2>1, <2>2, StandStill DEF DInv, AllFound, Sure
<1>15. ASSUME NEW x \in OutNames, RemoveOutput(x) PROVE DInv'
  <2>1. /\ job # NoJob /\ job' = job /\ sure' = sure /\ deleted' = deleted
        /\ gone' = gone \ {x} /\ out' = [out EXCEPT ![x] = Absent] /\ pc' = pc
        /\ UNCHANGED inputs
    BY <1>15 DEF RemoveOutput, DropOutput, Edited, locals, At
  <2>2. ListedSources' = ListedSources
    BY <2>1, SourcesSame
  <2>3. x \in DOMAIN out
    BY DEF IInv, TypeOK
  <2>4. ASSUME NEW s, NEW o \in OutNames, Shows(o, s)' PROVE Shows(o, s) /\ o # x
    <3>1. out'[x].kind # "page"
      BY <2>1, <2>3 DEF Absent
    <3>2. o # x
      BY <2>4, <3>1, ShowsSame
    <3>3. out'[o] = out[o]
      BY <2>1, <3>2
    <3> QED
      BY <2>4, <3>2, <3>3, ShowsSame
  <2>5. AllFound'
    BY <2>1, <2>2, <2>4 DEF DInv, AllFound, Sure
  <2>6. DeletedIsGone'
    BY <2>1, <2>4 DEF DInv, DeletedIsGone
  <2> QED
    BY <2>1, <2>2, <2>5, <2>6 DEF DInv
<1>16. CASE RemoveManifest
  <2>1. /\ job # NoJob /\ job' = NoJob /\ job.step = "outputs" /\ gone = {}
        /\ out' = out /\ UNCHANGED inputs
        /\ deleted' = IF job.kind = "delete" /\ sure THEN deleted \cup {job.src} ELSE deleted
    BY <1>16 DEF RemoveManifest, DropManifest, EndJob, At, vars
  <2>2. ListedSources' = ListedSources
    BY <2>1, SourcesSame
  <2>3. CASE job.kind = "delete" /\ sure
    <3>1. /\ job.src \in Sources /\ job.src \notin ListedSources
          /\ \A o \in OutNames : ~Shows(o, job.src)
      BY <2>1, <2>3 DEF DInv, AllFound, Sure
    <3>2. deleted' = deleted \cup {job.src}
      BY <2>1, <2>3
    <3>3. DeletedIsGone'
      BY <1>3, <2>1, <3>1, <3>2 DEF DInv, DeletedIsGone
    <3> QED
      BY <2>1, <2>2, <3>1, <3>2, <3>3 DEF DInv, AllFound, Sure
  <2>4. CASE ~(job.kind = "delete" /\ sure)
    BY <2>1, <2>2, <2>4, StandStill DEF DInv, AllFound, Sure
  <2> QED
    BY <2>3, <2>4
<1>17. CASE UNCHANGED cvars
  <2>1. UNCHANGED <<job, gone, sure, deleted, out, pc>> /\ UNCHANGED inputs
    BY <1>17 DEF cvars, files, vars, locals
  <2>2. ListedSources' = ListedSources
    BY <2>1, SourcesSame
  <2>3. AllFound'
    BY <1>3, <2>1, <2>2 DEF DInv, AllFound, Sure
  <2> QED
    BY <2>1, <2>2, <2>3, StandStill DEF DInv
<1> QED
  BY <1>4, <1>5, <1>6, <1>7, <1>8, <1>9, <1>10, <1>11, <1>12, <1>13, <1>14, <1>15, <1>16,
     <1>17 DEF CNext, Command

(* A source that was deleted while BUILD.DAT knew what stood in OUT is     *)
(* shown by no output, whatever is edited, built and interrupted later, so *)
(* long as it is not listed again (scaffold.c:905-1014).                   *)
THEOREM DeletedStaysGone ==
    ASSUME NoCollisions, DistinctNames
    PROVE  CSpec => []DeletedIsGone
<1>1. CSpec => []IInv
  BY CommandsRefine, Invariant, PTL DEF BuildSiteSpec
<1>2. CInv /\ IInv /\ DInv /\ [CNext]_cvars => CInv' /\ DInv'
  BY CommandStep, DeleteStep
<1>3. DInv => DeletedIsGone
  BY DEF DInv
<1> QED
  BY CInitInv, CInitDInv, <1>1, <1>2, <1>3, PTL DEF CSpec
=============================================================================
