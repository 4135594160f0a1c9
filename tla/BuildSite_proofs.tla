-------------------------- MODULE BuildSite_proofs --------------------------
(***************************************************************************)
(* The build publishes the current site: for every set of posts, pages,    *)
(* archives, versions and configurations, IInv of BuildSite is inductive,  *)
(* and with it a successful build leaves no stale output and none behind.  *)
(***************************************************************************)
EXTENDS BuildSite, FiniteSetTheorems, TLAPS

-----------------------------------------------------------------------------
(* Lists and output numbers. *)

(* A name on a list has a place, and the list has no other names. *)
LEMMA ListFacts ==
    ASSUME NEW S, IsFiniteSet(S), NEW l \in Lists(S)
    PROVE  /\ Listed(l) \subseteq S
           /\ \A p \in Listed(l) : Place(l, p) \in Nat /\ l[Place(l, p)] = p
<1>1. PICK n \in 0 .. Cardinality(S) : l \in [1 .. n -> S]
  BY DEF Lists
<1>2. Listed(l) \subseteq S
  BY <1>1 DEF Listed
<1>3. ASSUME NEW p \in Listed(l)
      PROVE  Place(l, p) \in Nat /\ l[Place(l, p)] = p
  <2>1. \E i \in DOMAIN l : l[i] = p
    BY DEF Listed
  <2>2. Place(l, p) \in DOMAIN l /\ l[Place(l, p)] = p
    BY <2>1 DEF Place
  <2>3. DOMAIN l = 1 .. n /\ n \in Nat
    BY <1>1, FS_CardinalityType
  <2> QED
    BY <2>2, <2>3
<1> QED
  BY <1>2, <1>3

(* The published posts are finitely many of Posts. *)
LEMMA PublishedFinite ==
    ASSUME postsLst \in Lists(Posts)
    PROVE  /\ PublishedPosts \subseteq Posts /\ IsFiniteSet(PublishedPosts)
           /\ \A p \in PublishedPosts :
                 Place(postsLst, p) \in Nat /\ postsLst[Place(postsLst, p)] = p
<1>1. PublishedPosts \subseteq Listed(postsLst)
  BY DEF PublishedPosts
<1>2. Listed(postsLst) \subseteq Posts
  BY ListFacts, PostsAssumption
<1>3. IsFiniteSet(PublishedPosts)
  BY <1>1, <1>2, FS_Subset, PostsAssumption
<1> QED
  BY <1>1, <1>2, <1>3, ListFacts, PostsAssumption

(* Every published post has a number, at most the number of posts. *)
LEMMA OutNumberType ==
    ASSUME postsLst \in Lists(Posts), NEW p \in PublishedPosts
    PROVE  OutNumber(p) \in 1 .. Cardinality(Posts)
<1>1. UpTo(p) \subseteq PublishedPosts /\ p \in UpTo(p)
  BY PublishedFinite DEF UpTo
<1>2. UpTo(p) \subseteq Posts /\ IsFiniteSet(UpTo(p))
  BY <1>1, PublishedFinite, FS_Subset
<1>3. Cardinality(UpTo(p)) \in Nat /\ Cardinality(UpTo(p)) <= Cardinality(Posts)
  BY <1>2, FS_Subset, FS_CardinalityType, PostsAssumption
<1>4. Cardinality(UpTo(p)) # 0
  BY <1>1, <1>2, FS_EmptySet
<1>5. Cardinality(Posts) \in Nat
  BY PostsAssumption, FS_CardinalityType
<1> QED
  BY <1>3, <1>4, <1>5 DEF OutNumber

(* Two published posts never share a number. *)
LEMMA OutNumberInjective ==
    ASSUME postsLst \in Lists(Posts),
           NEW p \in PublishedPosts, NEW q \in PublishedPosts,
           OutNumber(p) = OutNumber(q)
    PROVE  p = q
<1>1. ASSUME NEW a \in PublishedPosts, NEW b \in PublishedPosts,
             Place(postsLst, a) < Place(postsLst, b)
      PROVE  Cardinality(UpTo(a)) < Cardinality(UpTo(b))
  <2>1. UpTo(a) \subseteq UpTo(b) /\ b \in UpTo(b) /\ b \notin UpTo(a)
    BY <1>1, PublishedFinite DEF UpTo
  <2>2. IsFiniteSet(UpTo(b))
    BY PublishedFinite, FS_Subset DEF UpTo
  <2>3. UpTo(a) # UpTo(b)
    BY <2>1
  <2> QED
    BY <2>1, <2>2, <2>3, FS_Subset, FS_CardinalityType
<1>2. Place(postsLst, p) \in Nat /\ Place(postsLst, q) \in Nat
  BY PublishedFinite
<1>3. IsFiniteSet(UpTo(p)) /\ IsFiniteSet(UpTo(q))
  BY PublishedFinite, FS_Subset DEF UpTo
<1>4. Cardinality(UpTo(p)) \in Nat /\ Cardinality(UpTo(q)) \in Nat
  BY <1>3, FS_CardinalityType
<1>5. Place(postsLst, p) = Place(postsLst, q)
  BY <1>1, <1>2, <1>4 DEF OutNumber
<1> QED
  BY <1>5, PublishedFinite

-----------------------------------------------------------------------------
(* What the inputs determine. *)

(* A step that leaves the files alone leaves alone what is read from them. *)
LEMMA InputsSame ==
    ASSUME UNCHANGED inputs
    PROVE  /\ PublishedPosts' = PublishedPosts /\ PublishedPages' = PublishedPages
           /\ \A p : OutNumber(p)' = OutNumber(p)
           /\ UsedLabels' = UsedLabels /\ CanBuild' = CanBuild
           /\ Key' = Key /\ SidebarOrder' = SidebarOrder
           /\ \A b : Render(b)' = Render(b)
           /\ CurrentManifest' = CurrentManifest
           /\ ExpectedOutputs' = ExpectedOutputs
<1>1. /\ config' = config /\ postsLst' = postsLst /\ pagesLst' = pagesLst
      /\ postSrc' = postSrc /\ pageSrc' = pageSrc
  BY DEF inputs
<1>2. PublishedPosts' = PublishedPosts /\ PublishedPages' = PublishedPages
  BY <1>1 DEF PublishedPosts, PublishedPages
<1>3. \A p : UpTo(p)' = UpTo(p)
  BY <1>1, <1>2 DEF UpTo
<1>4. \A p : OutNumber(p)' = OutNumber(p)
  BY <1>3 DEF OutNumber
<1>5. UsedLabels' = UsedLabels
  BY <1>1, <1>2 DEF UsedLabels
<1>6. CanBuild' = CanBuild
  BY <1>1, <1>5 DEF CanBuild, Loadable
<1>7. Key' = Key
  BY <1>1, <1>2, <1>4 DEF Key
<1>8. SidebarOrder' = SidebarOrder
  BY <1>1, <1>2 DEF SidebarOrder
<1>9. \A b : Render(b)' = Render(b)
  BY <1>7, <1>8 DEF Render
<1>10. CurrentManifest' = CurrentManifest
  BY <1>1, <1>2, <1>4, <1>5 DEF CurrentManifest
<1>11. ExpectedOutputs' = ExpectedOutputs
  BY <1>2, <1>4, <1>5 DEF ExpectedOutputs
<1> QED
  BY <1>2, <1>4, <1>5, <1>6, <1>7, <1>8, <1>9, <1>10, <1>11

(* When every listed source loads, the site is made of known headers. *)
LEMMA SiteType ==
    ASSUME TypeOK, CanBuild
    PROVE  /\ \A p \in PublishedPosts : p \in Posts /\ postSrc[p] \in Versions
           /\ \A g \in PublishedPages : g \in Pages /\ pageSrc[g] \in Versions
           /\ UsedLabels \subseteq Labels
           /\ Key \in Keys
           /\ \A b : Render(b).kind = "page" /\ Render(b).key = Key /\ Render(b).body = b
           /\ ExpectedOutputs \subseteq OutNames
<1>1. ASSUME NEW p \in PublishedPosts
      PROVE  p \in Posts /\ postSrc[p] \in Versions
  <2>1. p \in Posts /\ p \in Listed(postsLst)
    BY PublishedFinite DEF TypeOK, PublishedPosts
  <2> QED
    BY <2>1 DEF TypeOK, CanBuild, Loadable
<1>2. ASSUME NEW g \in PublishedPages
      PROVE  g \in Pages /\ pageSrc[g] \in Versions
  <2>1. g \in Listed(pagesLst) /\ g \in Pages
    BY DEF TypeOK, PublishedPages, Lists, Listed
  <2> QED
    BY <2>1 DEF TypeOK, CanBuild, Loadable
<1>3. UsedLabels \subseteq Labels
  BY <1>1, VersionsAssumption DEF UsedLabels
<1>4. Key \in Keys
  <2>1. \A p \in PublishedPosts : postSrc[p].meta \in Metas
    BY <1>1 DEF Metas
  <2>2. \A g \in PublishedPages : pageSrc[g].meta \in Metas
    BY <1>2 DEF Metas
  <2>3. \A p \in PublishedPosts : OutNumber(p) \in 1 .. Cardinality(Posts)
    BY OutNumberType DEF TypeOK
  <2>4. Key.posts \in [PublishedPosts -> [out : 1 .. Cardinality(Posts), meta : Metas]]
    BY <2>1, <2>3 DEF Key
  <2>5. Key.pages \in [PublishedPages -> Metas]
    BY <2>2 DEF Key
  <2>6. PublishedPosts \in SUBSET Posts /\ PublishedPages \in SUBSET Pages
    BY <1>1, <1>2
  <2>7. Key.config \in Configs
    BY DEF Key, TypeOK
  <2> DEFINE KP == UNION {[D -> [out : 1 .. Cardinality(Posts), meta : Metas]] : D \in SUBSET Posts}
             KG == UNION {[D -> Metas] : D \in SUBSET Pages}
  <2>8. Key.posts \in KP
    BY <2>4, <2>6
  <2>9. Key.pages \in KG
    BY <2>5, <2>6
  <2>10. Key = [config |-> Key.config, posts |-> Key.posts, pages |-> Key.pages]
    BY DEF Key
  <2> HIDE DEF KP, KG
  <2>11. Key \in [config : Configs, posts : KP, pages : KG]
    BY <2>7, <2>8, <2>9, <2>10
  <2> QED
    BY <2>11 DEF Keys, KP, KG
<1>5. \A b : Render(b).kind = "page" /\ Render(b).key = Key /\ Render(b).body = b
  BY DEF Render
<1>6. ExpectedOutputs \subseteq OutNames
  BY <1>1, <1>2, <1>3, OutNumberType DEF ExpectedOutputs, OutNames, TypeOK
<1> QED
  BY <1>1, <1>2, <1>3, <1>4, <1>5, <1>6

(* A manifest describes one site only. *)
LEMMA DescribesOne ==
    ASSUME NoCollisions, NEW m, NEW k \in Keys, NEW j \in Keys,
           Describes(m, k), Describes(m, j)
    PROVE  k = j
<1>1. k.config \in Configs /\ j.config \in Configs
  BY DEF Keys
<1>2. k.config = j.config
  BY <1>1 DEF Describes, NoCollisions
<1>3. PICK D \in SUBSET Posts : k.posts \in [D -> [out : 1 .. Cardinality(Posts), meta : Metas]]
  BY DEF Keys
<1>4. PICK E \in SUBSET Posts : j.posts \in [E -> [out : 1 .. Cardinality(Posts), meta : Metas]]
  BY DEF Keys
<1>5. D = E
  BY <1>3, <1>4 DEF Describes, PostsUnchanged
<1>6. ASSUME NEW p \in D PROVE k.posts[p] = j.posts[p]
  <2>1. k.posts[p] \in [out : 1 .. Cardinality(Posts), meta : Metas]
    BY <1>3
  <2>2. j.posts[p] \in [out : 1 .. Cardinality(Posts), meta : Metas]
    BY <1>4, <1>5
  <2>3. k.posts[p].out = j.posts[p].out
    BY <1>3, <1>4, <1>5 DEF Describes, PostsUnchanged
  <2>4. MetaHash[k.posts[p].meta] = MetaHash[j.posts[p].meta]
    BY <1>3, <1>4, <1>5 DEF Describes, PostsUnchanged
  <2>5. k.posts[p].meta = j.posts[p].meta
    BY <2>1, <2>2, <2>4 DEF NoCollisions
  <2> QED
    BY <2>1, <2>2, <2>3, <2>5
<1>7. k.posts = j.posts
  BY <1>3, <1>4, <1>5, <1>6
<1>8. PICK F \in SUBSET Pages : k.pages \in [F -> Metas]
  BY DEF Keys
<1>9. PICK G \in SUBSET Pages : j.pages \in [G -> Metas]
  BY DEF Keys
<1>10. F = G
  BY <1>8, <1>9 DEF Describes, PagesUnchanged
<1>11. ASSUME NEW g \in F PROVE k.pages[g] = j.pages[g]
  <2>1. k.pages[g] \in Metas /\ j.pages[g] \in Metas
    BY <1>8, <1>9, <1>10
  <2>2. MetaHash[k.pages[g]] = MetaHash[j.pages[g]]
    BY <1>8, <1>9, <1>10 DEF Describes, PagesUnchanged
  <2> QED
    BY <2>1, <2>2 DEF NoCollisions
<1>12. k.pages = j.pages
  BY <1>8, <1>9, <1>10, <1>11
<1> QED
  BY <1>2, <1>7, <1>12 DEF Keys

(* A saved manifest describes the site it was saved for. *)
LEMMA CurrentDescribes == Describes(CurrentManifest, Key)
  BY DEF Describes, PostsUnchanged, PagesUnchanged, CurrentManifest, Key

-----------------------------------------------------------------------------
(* Steps that leave OUT alone, and steps that write one output.            *)

(* What a manifest records is removed by the next full rebuild. *)
LEMMA RecordedIsPrevious ==
    ASSUME NEW m, NEW o, RecordedBy(m, o)
    PROVE  o \in PreviousOutputs(m)
BY DEF RecordedBy, PreviousOutputs

(* The record of an output depends on that output and the manifest. *)
LEMMA RecordedSame ==
    ASSUME NEW o, out'[o] = out[o], manifest' = manifest
    PROVE  RecordedBy(manifest, o)' = RecordedBy(manifest, o)
BY DEF RecordedBy, RecordedBody

(* A step of the build that writes nothing. *)
LEMMA QuietStep ==
    ASSUME UNCHANGED <<inputs, out, manifest, rebuildAll, wrote>>
    PROVE  /\ \A o : Missing(o)' = Missing(o)
           /\ \A o : RecordedBy(manifest, o)' = RecordedBy(manifest, o)
           /\ \A o : WrittenNow(o)' = WrittenNow(o)
           /\ \A p \in PublishedPosts : PostDone(p)' = PostDone(p)
           /\ \A g \in PublishedPages : PageDone(g)' = PageDone(g)
           /\ Standing' = Standing /\ SharedMissing' = SharedMissing
           /\ RebuildAll' = RebuildAll
<1>1. \A o : Missing(o)' = Missing(o)
  BY DEF Missing
<1>2. \A o : RecordedBy(manifest, o)' = RecordedBy(manifest, o)
  BY DEF RecordedBy, RecordedBody
<1>3. /\ postSrc' = postSrc /\ pageSrc' = pageSrc
  BY DEF inputs
<1>4. \A o : WrittenNow(o)' = WrittenNow(o)
  BY <1>3, InputsSame DEF WrittenNow
<1>5. \A p : PostAsRecorded(p)' = PostAsRecorded(p)
  BY <1>3 DEF PostAsRecorded
<1>6. \A g : PageAsRecorded(g)' = PageAsRecorded(g)
  BY <1>3 DEF PageAsRecorded
<1>7. \A p \in PublishedPosts : PostDone(p)' = PostDone(p)
  BY <1>1, <1>5, InputsSame DEF PostDone
<1>8. \A g \in PublishedPages : PageDone(g)' = PageDone(g)
  BY <1>1, <1>6, InputsSame DEF PageDone
<1>9. Standing' = Standing
  BY <1>1 DEF Standing
<1>10. SharedMissing' = SharedMissing
  BY <1>1, InputsSame DEF SharedMissing
<1>11. RebuildAll' = RebuildAll
  BY InputsSame DEF RebuildAll
<1> QED
  BY <1>1, <1>2, <1>4, <1>7, <1>8, <1>9, <1>10, <1>11

(* The outputs a build may write, with what it writes there. *)
Writable(o, b) ==
    \/ o \in Shared /\ b = NoBody
    \/ \E l \in UsedLabels : o = LabelOut(l) /\ b = NoBody
    \/ \E p \in PublishedPosts : o = PostOut(OutNumber(p)) /\ b = postSrc[p].body
    \/ \E g \in PublishedPages : o = PageOut(g) /\ b = pageSrc[g].body

(* A step of the build that writes one output. *)
LEMMA WriteStep ==
    ASSUME TypeOK, CanBuild, Accounted, Running, Running',
           \A x \in wrote : WrittenNow(x),
           NEW o, NEW b, Writable(o, b), Write(o, Render(b))
    PROVE  /\ o \in OutNames
           /\ DOMAIN out' = OutNames
           /\ \A x \in OutNames : out'[x].kind \in {"absent", "empty", "page"}
           /\ wrote' = wrote \cup {o} /\ wrote' \subseteq OutNames
           /\ Accounted'
           /\ \A x \in wrote' : WrittenNow(x)'
           /\ Standing' = Standing \cup {o}
           /\ \A p \in PublishedPosts : PostDone(p) => PostDone(p)'
           /\ \A g \in PublishedPages : PageDone(g) => PageDone(g)'
           /\ ~SharedMissing => ~SharedMissing'
           /\ RebuildAll' = RebuildAll
<1>1. /\ out' = [out EXCEPT ![o] = Render(b)]
      /\ wrote' = wrote \cup {o}
      /\ UNCHANGED inputs /\ manifest' = manifest
      /\ rebuildAll' = rebuildAll /\ torn' = torn
  BY DEF Write
<1>2. o \in ExpectedOutputs
  BY DEF Writable, ExpectedOutputs
<1>3. o \in OutNames
  BY <1>2, SiteType
<1>4. DOMAIN out' = OutNames /\ out'[o] = Render(b)
  BY <1>1, <1>3 DEF TypeOK
<1>5. \A x : x # o => out'[x] = out[x]
  BY <1>1
<1>6. Render(b).kind = "page" /\ Render(b).key = Key /\ Render(b).body = b
  BY SiteType
<1>7. \A x \in OutNames : out'[x].kind \in {"absent", "empty", "page"}
  BY <1>4, <1>5, <1>6 DEF TypeOK
<1>8. /\ \A x \in OutNames : x # o => Missing(x)' = Missing(x)
      /\ ~Missing(o)'
  BY <1>4, <1>5, <1>6 DEF Missing
<1>9. Standing' = Standing \cup {o}
  BY <1>3, <1>8 DEF Standing
<1>10. Accounted'
  <2>1. SUFFICES ASSUME NEW x \in Standing' \ (torn' \cup ThisBuild')
                 PROVE  RecordedBy(manifest, x)'
    BY DEF Accounted
  <2>2. x # o /\ x \in Standing \ (torn \cup ThisBuild)
    BY <2>1, <1>1, <1>9 DEF ThisBuild
  <2> QED
    BY <2>2, <1>1, <1>5, RecordedSame DEF Accounted
<1>11. ASSUME NEW x \in wrote' PROVE WrittenNow(x)'
  <2>1. postSrc' = postSrc /\ pageSrc' = pageSrc
    BY <1>1 DEF inputs
  <2>2. CASE x = o
    BY <2>1, <2>2, <1>1, <1>4, <1>6, InputsSame DEF WrittenNow, Writable
  <2>3. CASE x # o
    <3>1. WrittenNow(x) /\ out'[x] = out[x]
      BY <2>3, <1>1, <1>5
    <3> QED
      BY <3>1, <2>1, <1>1, InputsSame DEF WrittenNow
  <2> QED
    BY <2>2, <2>3
<1>12. \A x \in OutNames : ~Missing(x) => ~Missing(x)'
  BY <1>8
<1>13. ASSUME NEW p \in PublishedPosts, PostDone(p) PROVE PostDone(p)'
  <2>1. PostOut(OutNumber(p)) \in OutNames
    BY SiteType DEF ExpectedOutputs
  <2>2. PostAsRecorded(p)' = PostAsRecorded(p)
    BY <1>1 DEF PostAsRecorded, inputs
  <2>3. OutNumber(p)' = OutNumber(p)
    BY <1>1, InputsSame
  <2> QED
    BY <1>1, <1>12, <1>13, <2>1, <2>2, <2>3 DEF PostDone
<1>14. ASSUME NEW g \in PublishedPages, PageDone(g) PROVE PageDone(g)'
  <2>1. PageOut(g) \in OutNames
    BY SiteType DEF ExpectedOutputs
  <2>2. PageAsRecorded(g)' = PageAsRecorded(g)
    BY <1>1 DEF PageAsRecorded, inputs
  <2> QED
    BY <1>1, <1>12, <1>14, <2>1, <2>2 DEF PageDone
<1>15. ASSUME ~SharedMissing PROVE ~SharedMissing'
  <2>1. Shared \cup {LabelOut(l) : l \in UsedLabels} \subseteq OutNames
    BY SiteType DEF ExpectedOutputs
  <2> QED
    BY <2>1, <1>1, <1>12, <1>15, InputsSame DEF SharedMissing
<1>16. RebuildAll' = RebuildAll
  BY <1>1, InputsSame DEF RebuildAll
<1> QED
  BY <1>1, <1>2, <1>3, <1>4, <1>7, <1>9, <1>10, <1>11, <1>13, <1>14, <1>15,
     <1>16 DEF TypeOK

-----------------------------------------------------------------------------
(* The invariant, one lemma per kind of step.                              *)

(* The program starts with an empty OUT. *)
LEMMA InitInv == Init => IInv
<1> SUFFICES ASSUME Init PROVE IInv
  OBVIOUS
<1>1. TypeOK
  BY DEF Init, TypeOK, NoManifest, NoEntries, Absent
<1>2. Standing = {}
  BY DEF Init, Standing, Missing, Absent
<1>3. Accounted
  BY <1>2 DEF Accounted
<1>4. ~Running /\ Success
  BY DEF Init, Running, Success
<1> QED
  BY <1>1, <1>3, <1>4 DEF IInv

(* A refused build changes nothing but the report. *)
LEMMA RefusedInv ==
    ASSUME IInv, BuildRefused
    PROVE  IInv'
<1>1. /\ UNCHANGED <<inputs, out, manifest, locals, torn>>
      /\ pc = "idle" /\ verdict' = "refused" /\ wrote' = {} /\ noop' = FALSE
  BY DEF BuildRefused
<1>2. pc' = "idle" /\ left' = left /\ rebuildAll' = rebuildAll /\ buildShared' = buildShared
  BY <1>1 DEF locals
<1>3. TypeOK'
  BY <1>1, <1>2 DEF IInv, TypeOK, inputs
<1>4. Standing' = Standing
  BY <1>1 DEF Standing, Missing
<1>5. Accounted'
  BY <1>1, <1>2, <1>4, RecordedSame DEF IInv, Accounted, ThisBuild, Running
<1>6. ~Running' /\ Success'
  BY <1>1, <1>2 DEF Running, Success
<1> QED
  BY <1>3, <1>5, <1>6 DEF IInv

(* The build starts with nothing written and every loop to go. *)
LEMMA StartInv ==
    ASSUME IInv, BuildStart
    PROVE  IInv'
<1>1. /\ pc = "idle" /\ CanBuild
      /\ rebuildAll' = RebuildAll
      /\ buildShared' = (RebuildAll \/ SharedMissing)
      /\ pc' = IF RebuildAll THEN "clear"
               ELSE IF SharedMissing \/ IndexStale THEN "index" ELSE "posts"
      /\ left' = PublishedPosts
      /\ wrote' = {} /\ noop' = (verdict = "ok") /\ verdict' = "running"
      /\ UNCHANGED <<inputs, out, manifest, torn>>
  BY DEF BuildStart
<1>2. TypeOK /\ Accounted
  BY DEF IInv
<1>3. RebuildAll \in BOOLEAN /\ SharedMissing \in BOOLEAN
  BY DEF RebuildAll, SharedMissing
<1>4. TypeOK'
  <2>1. PublishedPosts \subseteq Posts
    BY <1>1, <1>2, SiteType
  <2>2. pc' \in {"clear", "index", "posts"}
    BY <1>1
  <2> QED
    BY <1>1, <1>2, <1>3, <2>1, <2>2 DEF TypeOK, inputs
<1>5. /\ Standing' = Standing /\ SharedMissing' = SharedMissing
      /\ RebuildAll' = RebuildAll
  <2>1. \A o : Missing(o)' = Missing(o)
    BY <1>1 DEF Missing
  <2> QED
    BY <1>1, <2>1, InputsSame DEF Standing, SharedMissing, RebuildAll
<1>6. Accounted'
  BY <1>1, <1>2, <1>5, RecordedSame DEF Accounted, ThisBuild, Running
<1>7. Control'
  <2>1. CanBuild' /\ PublishedPosts' = PublishedPosts
    BY <1>1, InputsSame
  <2>2. rebuildAll' = RebuildAll'
    BY <1>1, <1>5
  <2>3. pc' \in {"clear", "index", "posts"} /\ (pc' = "clear" <=> RebuildAll)
    BY <1>1
  <2>4. RebuildAll => buildShared'
    BY <1>1, <1>3
  <2>5. left' = PublishedPosts'
    BY <1>1, <2>1
  <2> QED
    BY <1>1, <2>1, <2>2, <2>3, <2>4, <2>5 DEF Control
<1>8. Progress'
  <2>1. PublishedPosts' = PublishedPosts
    BY <1>1, InputsSame
  <2>2. pc' \in {"clear", "index", "posts"}
    BY <1>1
  <2>3. pc' = "posts" => ~buildShared'
    BY <1>1
  <2> QED
    BY <1>1, <1>5, <2>1, <2>2, <2>3 DEF Progress
<1>9. Success' /\ \A o \in wrote' : WrittenNow(o)'
  BY <1>1 DEF Success
<1> QED
  BY <1>4, <1>6, <1>7, <1>8, <1>9 DEF IInv

(* A full rebuild removes what the manifest records, so that what is left  *)
(* is what no manifest accounts for.                                       *)
LEMMA ClearInv ==
    ASSUME IInv, ClearStep
    PROVE  IInv'
<1>1. /\ pc = "clear" /\ pc' = "index"
      /\ out' = [o \in OutNames |-> IF o \in PreviousOutputs(manifest)
                                    THEN Absent ELSE out[o]]
      /\ UNCHANGED <<inputs, manifest, rebuildAll, buildShared, left,
                     wrote, verdict, noop, torn>>
  BY DEF ClearStep, Remove, history
<1>2. TypeOK /\ Accounted /\ Control /\ Progress /\ Running
  BY <1>1 DEF IInv, Running
<1>3. TypeOK'
  BY <1>1, <1>2 DEF TypeOK, inputs, Absent
<1>4. Standing' \subseteq torn
  <2>1. SUFFICES ASSUME NEW o \in Standing', o \notin torn PROVE FALSE
    OBVIOUS
  <2>2. o \in OutNames /\ o \notin PreviousOutputs(manifest) /\ out'[o] = out[o]
    BY <2>1, <1>1 DEF Standing, Missing, Absent
  <2>3. o \in Standing \ (torn \cup ThisBuild)
    BY <2>1, <2>2, <1>1, <1>2 DEF Standing, Missing, Control, ThisBuild
  <2>4. RecordedBy(manifest, o)
    BY <2>3, <1>2 DEF Accounted
  <2> QED
    BY <2>2, <2>4, RecordedIsPrevious
<1>5. Accounted'
  BY <1>1, <1>4 DEF Accounted
<1>6. Control'
  <2>1. CanBuild' /\ RebuildAll' = RebuildAll /\ PublishedPosts' = PublishedPosts
    BY <1>1, <1>2, InputsSame DEF Control, RebuildAll
  <2> QED
    BY <1>1, <1>2, <1>4, <2>1 DEF Control
<1>7. Progress'
  BY <1>1, <1>2 DEF Progress, Control
<1>8. Success' /\ \A o \in wrote' : WrittenNow(o)'
  BY <1>1, <1>2 DEF Success, Control
<1> QED
  BY <1>3, <1>5, <1>6, <1>7, <1>8 DEF IInv

(* What every step that writes one output preserves, wherever it leads. *)
LEMMA WriteFrame ==
    ASSUME IInv, pc \notin {"idle", "clear"},
           pc' \in {"index", "archive", "about", "posts", "pages", "labels", "save"},
           left' \subseteq Posts \cup Pages \cup Labels,
           NEW o, NEW b, Writable(o, b), Write(o, Render(b))
    PROVE  /\ TypeOK' /\ Accounted' /\ Success'
           /\ \A x \in wrote' : WrittenNow(x)'
           /\ CanBuild' /\ rebuildAll' = RebuildAll' /\ verdict' = "running"
           /\ rebuildAll' => buildShared'
           /\ rebuildAll' => Standing' \subseteq torn' \cup wrote'
<1>1. /\ TypeOK /\ Accounted /\ Control /\ Running /\ Running'
      /\ \A x \in wrote : WrittenNow(x)
  BY DEF IInv, Running
<1>2. UNCHANGED <<inputs, manifest, rebuildAll, buildShared, verdict, noop, torn>>
  BY DEF Write
<1>3. CanBuild /\ rebuildAll = RebuildAll /\ verdict = "running"
      /\ (rebuildAll => buildShared) /\ (rebuildAll => Standing \subseteq torn \cup wrote)
  BY <1>1 DEF Control
<1>4. /\ o \in OutNames
      /\ DOMAIN out' = OutNames
      /\ \A x \in OutNames : out'[x].kind \in {"absent", "empty", "page"}
      /\ wrote' = wrote \cup {o} /\ wrote' \subseteq OutNames
      /\ Accounted' /\ \A x \in wrote' : WrittenNow(x)'
      /\ Standing' = Standing \cup {o} /\ RebuildAll' = RebuildAll
  BY <1>1, <1>3, WriteStep
<1>5. TypeOK'
  BY <1>1, <1>2, <1>4 DEF TypeOK, inputs
<1>6. CanBuild'
  BY <1>2, <1>3, InputsSame
<1>7. Success'
  BY <1>2, <1>3 DEF Success
<1> QED
  BY <1>2, <1>3, <1>4, <1>5, <1>6, <1>7

(* The shared pages. *)
LEMMA WriteSharedInv ==
    ASSUME IInv, WriteIndex \/ WriteArchive \/ WriteAbout
    PROVE  IInv'
<1>1. PICK o \in Shared :
         /\ Write(o, Render(NoBody)) /\ left' = left
         /\ \/ pc = "index" /\ o = Index /\ pc' = IF buildShared THEN "archive" ELSE "posts"
            \/ pc = "archive" /\ o = Archive /\ pc' = "about"
            \/ pc = "about" /\ o = About /\ pc' = "posts"
  BY DEF WriteIndex, WriteArchive, WriteAbout, SharedContent, Shared
<1>2. pc \in {"index", "archive", "about"} /\ pc' \in {"archive", "about", "posts"}
  BY <1>1
<1>3. TypeOK /\ Accounted /\ Control /\ Progress /\ Running /\ Running'
      /\ \A x \in wrote : WrittenNow(x)
  BY <1>2 DEF IInv, Running
<1>4. Writable(o, NoBody)
  BY DEF Writable
<1>5. UNCHANGED <<inputs, rebuildAll, buildShared>> /\ wrote' = wrote \cup {o}
  BY <1>1 DEF Write
<1>6. /\ TypeOK' /\ Accounted' /\ Success'
      /\ \A x \in wrote' : WrittenNow(x)'
      /\ CanBuild' /\ rebuildAll' = RebuildAll' /\ verdict' = "running"
      /\ rebuildAll' => buildShared'
      /\ rebuildAll' => Standing' \subseteq torn' \cup wrote'
  BY <1>1, <1>2, <1>3, <1>4, WriteFrame DEF TypeOK
<1>7. left = PublishedPosts /\ PublishedPosts' = PublishedPosts /\ left' = PublishedPosts'
  BY <1>1, <1>2, <1>3, <1>5, InputsSame DEF Control
<1>8. pc' \in {"archive", "about"} => buildShared'
  BY <1>1, <1>2, <1>3, <1>5 DEF Control
<1>9. Control'
  BY <1>2, <1>6, <1>7, <1>8 DEF Control
<1>10. ~buildShared' => ~SharedMissing'
  <2>1. CanBuild
    BY <1>3 DEF Control
  <2>2. ~SharedMissing => ~SharedMissing'
    BY <1>1, <1>3, <1>4, <2>1, WriteStep
  <2> QED
    BY <2>2, <1>3, <1>5 DEF Progress
<1>11. Progress'
  BY <1>1, <1>2, <1>3, <1>5, <1>7, <1>8, <1>10 DEF Progress, Control
<1> QED
  BY <1>6, <1>9, <1>11 DEF IInv

(* A post. *)
LEMMA WritePostInv ==
    ASSUME IInv, NEW p, WritePost(p)
    PROVE  IInv'
<1>1. /\ pc = "posts" /\ pc' = "posts" /\ p \in left /\ left' = left \ {p}
      /\ Write(PostOut(OutNumber(p)), Render(postSrc[p].body))
  BY DEF WritePost, PostContent
<1>2. TypeOK /\ Accounted /\ Control /\ Progress /\ Running /\ Running'
      /\ \A x \in wrote : WrittenNow(x)
  BY <1>1 DEF IInv, Running
<1>3. CanBuild /\ left \subseteq PublishedPosts /\ p \in PublishedPosts
  BY <1>1, <1>2 DEF Control
<1>4. Writable(PostOut(OutNumber(p)), postSrc[p].body)
  BY <1>3 DEF Writable
<1>5. /\ UNCHANGED <<inputs, rebuildAll, buildShared>>
      /\ wrote' = wrote \cup {PostOut(OutNumber(p))}
  BY <1>1 DEF Write
<1>6. /\ TypeOK' /\ Accounted' /\ Success'
      /\ \A x \in wrote' : WrittenNow(x)'
      /\ CanBuild' /\ rebuildAll' = RebuildAll' /\ verdict' = "running"
      /\ rebuildAll' => buildShared'
      /\ rebuildAll' => Standing' \subseteq torn' \cup wrote'
  BY <1>1, <1>2, <1>4, WriteFrame DEF TypeOK
<1>7. /\ PublishedPosts' = PublishedPosts
      /\ \A q : OutNumber(q)' = OutNumber(q)
  BY <1>5, InputsSame
<1>8. Control'
  BY <1>1, <1>3, <1>6, <1>7 DEF Control
<1>9. /\ \A q \in PublishedPosts : PostDone(q) => PostDone(q)'
      /\ ~SharedMissing => ~SharedMissing'
  BY <1>1, <1>2, <1>3, <1>4, WriteStep
<1>10. PostDone(p)'
  BY <1>5, <1>7 DEF PostDone
<1>11. Progress'
  BY <1>1, <1>2, <1>3, <1>5, <1>7, <1>9, <1>10 DEF Progress
<1> QED
  BY <1>6, <1>8, <1>11 DEF IInv

(* A page. *)
LEMMA WritePageInv ==
    ASSUME IInv, NEW g, WritePage(g)
    PROVE  IInv'
<1>1. /\ pc = "pages" /\ pc' = "pages" /\ g \in left /\ left' = left \ {g}
      /\ Write(PageOut(g), Render(pageSrc[g].body))
  BY DEF WritePage, PageContent
<1>2. TypeOK /\ Accounted /\ Control /\ Progress /\ Running /\ Running'
      /\ \A x \in wrote : WrittenNow(x)
  BY <1>1 DEF IInv, Running
<1>3. CanBuild /\ left \subseteq PublishedPages /\ g \in PublishedPages
  BY <1>1, <1>2 DEF Control
<1>4. Writable(PageOut(g), pageSrc[g].body)
  BY <1>3 DEF Writable
<1>5. UNCHANGED <<inputs, rebuildAll, buildShared>> /\ wrote' = wrote \cup {PageOut(g)}
  BY <1>1 DEF Write
<1>6. /\ TypeOK' /\ Accounted' /\ Success'
      /\ \A x \in wrote' : WrittenNow(x)'
      /\ CanBuild' /\ rebuildAll' = RebuildAll' /\ verdict' = "running"
      /\ rebuildAll' => buildShared'
      /\ rebuildAll' => Standing' \subseteq torn' \cup wrote'
  BY <1>1, <1>2, <1>4, WriteFrame DEF TypeOK
<1>7. PublishedPosts' = PublishedPosts /\ PublishedPages' = PublishedPages
  BY <1>5, InputsSame
<1>8. Control'
  BY <1>1, <1>3, <1>6, <1>7 DEF Control
<1>9. /\ \A q \in PublishedPosts : PostDone(q) => PostDone(q)'
      /\ \A h \in PublishedPages : PageDone(h) => PageDone(h)'
      /\ ~SharedMissing => ~SharedMissing'
  BY <1>1, <1>2, <1>3, <1>4, WriteStep
<1>10. PageDone(g)'
  BY <1>5 DEF PageDone
<1>11. Progress'
  BY <1>1, <1>2, <1>3, <1>5, <1>7, <1>9, <1>10 DEF Progress
<1> QED
  BY <1>6, <1>8, <1>11 DEF IInv

(* An archive page. *)
LEMMA WriteLabelInv ==
    ASSUME IInv, NEW l, WriteLabel(l)
    PROVE  IInv'
<1>1. /\ pc = "labels" /\ pc' = "labels" /\ l \in left /\ left' = left \ {l}
      /\ Write(LabelOut(l), Render(NoBody))
  BY DEF WriteLabel, SharedContent
<1>2. TypeOK /\ Accounted /\ Control /\ Progress /\ Running /\ Running'
      /\ \A x \in wrote : WrittenNow(x)
  BY <1>1 DEF IInv, Running
<1>3. CanBuild /\ left \subseteq UsedLabels /\ l \in UsedLabels /\ buildShared
  BY <1>1, <1>2 DEF Control
<1>4. Writable(LabelOut(l), NoBody)
  BY <1>3 DEF Writable
<1>5. UNCHANGED <<inputs, rebuildAll, buildShared>> /\ wrote' = wrote \cup {LabelOut(l)}
  BY <1>1 DEF Write
<1>6. /\ TypeOK' /\ Accounted' /\ Success'
      /\ \A x \in wrote' : WrittenNow(x)'
      /\ CanBuild' /\ rebuildAll' = RebuildAll' /\ verdict' = "running"
      /\ rebuildAll' => buildShared'
      /\ rebuildAll' => Standing' \subseteq torn' \cup wrote'
  BY <1>1, <1>2, <1>4, WriteFrame DEF TypeOK
<1>7. /\ PublishedPosts' = PublishedPosts /\ PublishedPages' = PublishedPages
      /\ UsedLabels' = UsedLabels
  BY <1>5, InputsSame
<1>8. Control'
  BY <1>1, <1>3, <1>5, <1>6, <1>7 DEF Control
<1>9. /\ \A q \in PublishedPosts : PostDone(q) => PostDone(q)'
      /\ \A h \in PublishedPages : PageDone(h) => PageDone(h)'
  BY <1>1, <1>2, <1>3, <1>4, WriteStep
<1>10. Progress'
  BY <1>1, <1>2, <1>3, <1>5, <1>7, <1>9 DEF Progress
<1> QED
  BY <1>6, <1>8, <1>10 DEF IInv

(* The steps of the loops that write nothing: an entry is skipped because  *)
(* its output stands and is recorded, or a loop is over.                   *)
LEMMA QuietInv ==
    ASSUME IInv,
           \/ \E p \in Posts : SkipPost(p)
           \/ PostsDone
           \/ \E g \in Pages : SkipPage(g)
           \/ PagesDone
           \/ LabelsDone
    PROVE  IInv'
<1>1. /\ UNCHANGED <<inputs, out, manifest, rebuildAll, buildShared, history>>
      /\ pc \in {"posts", "pages", "labels"}
      /\ pc' \in {"posts", "pages", "labels", "save"}
  BY DEF SkipPost, PostsDone, SkipPage, PagesDone, LabelsDone
<1>2. /\ UNCHANGED <<inputs, out, manifest, rebuildAll, wrote>>
      /\ buildShared' = buildShared /\ torn' = torn /\ verdict' = verdict /\ noop' = noop
  BY <1>1 DEF history
<1>3. TypeOK /\ Accounted /\ Control /\ Progress /\ Running /\ Running'
      /\ \A x \in wrote : WrittenNow(x)
  BY <1>1 DEF IInv, Running
<1>4. CanBuild /\ rebuildAll = RebuildAll /\ verdict = "running"
      /\ (rebuildAll => buildShared) /\ (rebuildAll => Standing \subseteq torn \cup wrote)
  BY <1>1, <1>3 DEF Control
<1>5. /\ PublishedPosts' = PublishedPosts /\ PublishedPages' = PublishedPages
      /\ UsedLabels' = UsedLabels /\ CanBuild' = CanBuild
  BY <1>2, InputsSame
<1>6. /\ \A x : RecordedBy(manifest, x)' = RecordedBy(manifest, x)
      /\ \A x : WrittenNow(x)' = WrittenNow(x)
      /\ \A p \in PublishedPosts : PostDone(p)' = PostDone(p)
      /\ \A g \in PublishedPages : PageDone(g)' = PageDone(g)
      /\ Standing' = Standing /\ SharedMissing' = SharedMissing
      /\ RebuildAll' = RebuildAll
  BY <1>2, QuietStep
<1>7. PublishedPosts \subseteq Posts /\ PublishedPages \subseteq Pages
      /\ UsedLabels \subseteq Labels
  BY <1>3, <1>4, SiteType
<1>8. /\ pc' = "posts" => left' \subseteq PublishedPosts
      /\ pc' = "pages" => left' \subseteq PublishedPages
      /\ pc' = "labels" => left' \subseteq UsedLabels
      /\ pc' = "save" => left' = {}
  BY <1>3 DEF Control, SkipPost, PostsDone, SkipPage, PagesDone, LabelsDone
<1>9. TypeOK'
  <2>1. left' \subseteq Posts \cup Pages \cup Labels
    BY <1>1, <1>7, <1>8
  <2> QED
    BY <1>1, <1>2, <1>3, <2>1 DEF TypeOK, inputs
<1>10. Accounted' /\ Success' /\ \A x \in wrote' : WrittenNow(x)'
  BY <1>2, <1>3, <1>4, <1>6 DEF Accounted, ThisBuild, Success
<1>11. pc' = "labels" => buildShared'
  BY <1>2, <1>3 DEF Control, SkipPost, PostsDone, SkipPage, PagesDone, LabelsDone
<1>12. Control'
  BY <1>1, <1>2, <1>4, <1>5, <1>6, <1>8, <1>11 DEF Control
<1>13. Progress'
  <2>1. CASE \E p \in Posts : SkipPost(p)
    <3>1. PICK p \in Posts : SkipPost(p)
      BY <2>1
    <3>2. PostDone(p)
      BY <3>1 DEF SkipPost, NeedsPost, PostDone
    <3>3. pc = "posts" /\ pc' = "posts" /\ left' = left \ {p}
      BY <3>1 DEF SkipPost
    <3> QED
      BY <3>2, <3>3, <1>2, <1>3, <1>5, <1>6 DEF Progress
  <2>2. CASE PostsDone
    <3>1. pc = "posts" /\ left = {} /\ pc' = "pages" /\ left' = PublishedPages
      BY <2>2 DEF PostsDone
    <3> QED
      BY <3>1, <1>2, <1>3, <1>5, <1>6 DEF Progress
  <2>3. CASE \E g \in Pages : SkipPage(g)
    <3>1. PICK g \in Pages : SkipPage(g)
      BY <2>3
    <3>2. PageDone(g)
      BY <3>1 DEF SkipPage, NeedsPage, PageDone
    <3>3. pc = "pages" /\ pc' = "pages" /\ left' = left \ {g}
      BY <3>1 DEF SkipPage
    <3> QED
      BY <3>2, <3>3, <1>2, <1>3, <1>5, <1>6 DEF Progress
  <2>4. CASE PagesDone
    <3>1. /\ pc = "pages" /\ left = {}
          /\ \/ buildShared /\ pc' = "labels" /\ left' = UsedLabels
             \/ ~buildShared /\ pc' = "save"
      BY <2>4 DEF PagesDone
    <3> QED
      BY <3>1, <1>2, <1>3, <1>5, <1>6 DEF Progress
  <2>5. CASE LabelsDone
    <3>1. pc = "labels" /\ left = {} /\ pc' = "save"
      BY <2>5 DEF LabelsDone
    <3> QED
      BY <3>1, <1>2, <1>3, <1>5, <1>6 DEF Progress
  <2> QED
    BY <2>1, <2>2, <2>3, <2>4, <2>5
<1> QED
  BY <1>9, <1>10, <1>12, <1>13 DEF IInv

(* The new manifest records every output that stands, and the site is      *)
(* complete: what this build wrote it wrote from the current files, what   *)
(* it skipped was rendered from an equal site.                             *)
LEMMA SaveInv ==
    ASSUME NoCollisions, IInv, SaveManifest
    PROVE  IInv'
<1>1. /\ pc = "save" /\ pc' = "idle" /\ manifest' = CurrentManifest
      /\ rebuildAll' = FALSE /\ buildShared' = FALSE /\ left' = {} /\ verdict' = "ok"
      /\ torn' = torn \ wrote
      /\ UNCHANGED <<inputs, out, wrote, noop>>
  BY DEF SaveManifest, Finish
<1>2. TypeOK /\ Accounted /\ Control /\ Progress /\ Running /\ ~Running'
      /\ \A x \in wrote : WrittenNow(x)
  BY <1>1 DEF IInv, Running
<1>3. CanBuild /\ rebuildAll = RebuildAll
      /\ (rebuildAll => Standing \subseteq torn \cup wrote)
  BY <1>1, <1>2 DEF Control
<1>4. /\ \A p \in PublishedPosts : PostDone(p)
      /\ \A g \in PublishedPages : PageDone(g)
      /\ buildShared => /\ Shared \subseteq wrote
                        /\ \A l \in UsedLabels : LabelOut(l) \in wrote
      /\ ~buildShared => ~SharedMissing
  BY <1>1, <1>2 DEF Progress, Shared
<1>5. /\ \A p \in PublishedPosts : p \in Posts /\ postSrc[p] \in Versions
      /\ \A g \in PublishedPages : g \in Pages /\ pageSrc[g] \in Versions
      /\ UsedLabels \subseteq Labels /\ Key \in Keys
      /\ ExpectedOutputs \subseteq OutNames
  BY <1>2, <1>3, SiteType
<1>6. Standing' = Standing
  BY <1>1 DEF Standing, Missing
<1>7. KeyLabels(Key) = UsedLabels
  BY DEF KeyLabels, Key, UsedLabels
<1>8. TypeOK'
  <2>1. CurrentManifest.loaded = TRUE /\ CurrentManifest.archives = UsedLabels
        /\ DOMAIN CurrentManifest.posts = PublishedPosts
        /\ DOMAIN CurrentManifest.pages = PublishedPages
    BY DEF CurrentManifest
  <2>2. PublishedPosts \subseteq Posts /\ PublishedPages \subseteq Pages
    BY <1>5
  <2> QED
    BY <1>1, <1>2, <1>5, <2>1, <2>2 DEF TypeOK, inputs
<1>9. ASSUME NEW o \in wrote
      PROVE  RecordedBy(CurrentManifest, o)
  <2>1. WrittenNow(o)
    BY <1>2, <1>9
  <2>2. out[o].kind = "page" /\ out[o].key = Key
    BY <2>1 DEF WrittenNow
  <2>3. CurrentManifest.loaded /\ Describes(CurrentManifest, out[o].key)
    BY <2>2, CurrentDescribes DEF CurrentManifest
  <2>4. CASE o \in Shared /\ out[o].body = NoBody
    BY <2>2, <2>3, <2>4, <1>5 DEF RecordedBy
  <2>5. CASE \E l \in UsedLabels : o = LabelOut(l) /\ out[o].body = NoBody
    BY <2>2, <2>3, <2>5, <1>5, <1>7 DEF RecordedBy, CurrentManifest
  <2>6. CASE \E p \in PublishedPosts : o = PostOut(OutNumber(p)) /\ out[o].body = postSrc[p].body
    <3>1. PICK p \in PublishedPosts : o = PostOut(OutNumber(p)) /\ out[o].body = postSrc[p].body
      BY <2>6
    <3>2. p \in DOMAIN CurrentManifest.posts /\ CurrentManifest.posts[p].out = OutNumber(p)
          /\ CurrentManifest.posts[p].stamp = postSrc[p].stamp
      BY DEF CurrentManifest
    <3>3. RecordedBody(CurrentManifest.posts[p].stamp, o)
      BY <3>1, <3>2, <1>5 DEF RecordedBody
    <3> QED
      BY <2>2, <2>3, <3>1, <3>2, <3>3, <1>5 DEF RecordedBy
  <2>7. CASE \E g \in PublishedPages : o = PageOut(g) /\ out[o].body = pageSrc[g].body
    <3>1. PICK g \in PublishedPages : o = PageOut(g) /\ out[o].body = pageSrc[g].body
      BY <2>7
    <3>2. g \in DOMAIN CurrentManifest.pages
          /\ CurrentManifest.pages[g].stamp = pageSrc[g].stamp
      BY DEF CurrentManifest
    <3>3. RecordedBody(CurrentManifest.pages[g].stamp, o)
      BY <3>1, <3>2, <1>5 DEF RecordedBody
    <3> QED
      BY <2>2, <2>3, <3>1, <3>2, <3>3, <1>5 DEF RecordedBy
  <2> QED
    BY <2>1, <2>4, <2>5, <2>6, <2>7 DEF WrittenNow
<1>10. ASSUME NEW o \in Standing, o \notin torn, o \notin wrote
       PROVE  RecordedBy(CurrentManifest, o)
  <2>1. RecordedBy(manifest, o)
    BY <1>2, <1>10 DEF Accounted, ThisBuild
  <2>2. ~rebuildAll
    BY <1>3, <1>10
  <2>3. Describes(manifest, Key)
    BY <2>2, <1>3 DEF RebuildAll
  <2>4. out[o].kind = "page" /\ out[o].key \in Keys /\ Describes(manifest, out[o].key)
    BY <2>1 DEF RecordedBy
  <2>5. out[o].key = Key
    BY <2>3, <2>4, <1>5, DescribesOne
  <2>6. CurrentManifest.loaded /\ Describes(CurrentManifest, out[o].key)
    BY <2>5, CurrentDescribes DEF CurrentManifest
  <2>7. CASE o \in Shared /\ out[o].body = NoBody
    BY <2>4, <2>6, <2>7 DEF RecordedBy
  <2>8. CASE \E l \in manifest.archives \cap KeyLabels(out[o].key) :
                o = LabelOut(l) /\ out[o].body = NoBody
    BY <2>4, <2>5, <2>6, <2>8, <1>7, SMTT(30) DEF RecordedBy, CurrentManifest
  <2>9. CASE \E p \in DOMAIN manifest.posts :
                /\ o = PostOut(manifest.posts[p].out)
                /\ RecordedBody(manifest.posts[p].stamp, o)
    <3>1. PICK p \in DOMAIN manifest.posts : /\ o = PostOut(manifest.posts[p].out)
                                             /\ RecordedBody(manifest.posts[p].stamp, o)
      BY <2>9
    <3>2. p \in PublishedPosts /\ manifest.posts[p].out = OutNumber(p)
      BY <2>3, <3>1 DEF Describes, PostsUnchanged, Key
    <3>3. PostAsRecorded(p)
      BY <1>4, <1>10, <3>1, <3>2 DEF PostDone
    <3>4. CurrentManifest.posts[p].stamp = manifest.posts[p].stamp
          /\ CurrentManifest.posts[p].out = manifest.posts[p].out
          /\ p \in DOMAIN CurrentManifest.posts
      BY <3>2, <3>3 DEF CurrentManifest, PostAsRecorded
    <3> QED
      BY <2>4, <2>6, <3>1, <3>4 DEF RecordedBy
  <2>10. CASE \E g \in DOMAIN manifest.pages :
                 o = PageOut(g) /\ RecordedBody(manifest.pages[g].stamp, o)
    <3>1. PICK g \in DOMAIN manifest.pages :
                 o = PageOut(g) /\ RecordedBody(manifest.pages[g].stamp, o)
      BY <2>10
    <3>2. g \in PublishedPages
      BY <2>3, <3>1 DEF Describes, PagesUnchanged, Key
    <3>3. PageAsRecorded(g)
      BY <1>4, <1>10, <3>1, <3>2 DEF PageDone
    <3>4. CurrentManifest.pages[g].stamp = manifest.pages[g].stamp
          /\ g \in DOMAIN CurrentManifest.pages
      BY <3>2, <3>3 DEF CurrentManifest, PageAsRecorded
    <3> QED
      BY <2>4, <2>6, <3>1, <3>4 DEF RecordedBy
  <2> QED
    BY <2>1, <2>7, <2>8, <2>9, <2>10 DEF RecordedBy
<1>11. Accounted'
  <2>1. SUFFICES ASSUME NEW o \in Standing' \ (torn' \cup ThisBuild')
                 PROVE  RecordedBy(manifest, o)'
    BY DEF Accounted
  <2>2. o \in Standing /\ (o \in wrote \/ o \notin torn)
    BY <2>1, <1>1, <1>6
  <2>3. RecordedBy(CurrentManifest, o)
    BY <2>2, <1>9, <1>10
  <2> QED
    BY <2>3, <1>1 DEF RecordedBy, RecordedBody
<1>12. ExpectedOutputs \subseteq Standing
  <2>1. ASSUME NEW o \in wrote PROVE o \in Standing
    BY <2>1, <1>2 DEF WrittenNow, Standing, Missing, TypeOK
  <2>2. ASSUME NEW o \in ExpectedOutputs PROVE o \in wrote \/ ~Missing(o)
    BY <2>2, <1>4 DEF ExpectedOutputs, SharedMissing, PostDone, PageDone
  <2> QED
    BY <2>1, <2>2, <1>5 DEF Standing
<1>13. Success'
  BY <1>1, <1>3, <1>6, <1>12, InputsSame DEF Success
<1> QED
  BY <1>2, <1>8, <1>11, <1>13 DEF IInv

(* A build that stops leaves every output either as the old manifest       *)
(* records it, or gone, or among the torn ones.                            *)
LEMMA StopFrame ==
    ASSUME IInv, pc # "idle", NEW more \in SUBSET OutNames, Stop(more),
           DOMAIN out' = OutNames,
           \A o \in OutNames : out'[o].kind \in {"absent", "empty", "page"},
           \/ /\ manifest' = manifest
              /\ \A o \in OutNames \ torn' : out'[o] = out[o] \/ Missing(o)'
           \/ /\ Standing' \subseteq torn'
              /\ manifest'.loaded \in BOOLEAN /\ manifest'.archives \subseteq Labels
              /\ DOMAIN manifest'.posts \subseteq Posts
              /\ DOMAIN manifest'.pages \subseteq Pages
    PROVE  IInv'
<1>1. /\ pc' = "idle" /\ rebuildAll' = FALSE /\ buildShared' = FALSE /\ left' = {}
      /\ verdict' = "failed" /\ torn' = torn \cup wrote \cup more /\ wrote' = {}
      /\ UNCHANGED <<inputs, noop>>
  BY DEF Stop, Finish
<1>2. TypeOK /\ Accounted /\ Running /\ ~Running' /\ Success'
  BY <1>1 DEF IInv, Running, Success
<1>3. TypeOK'
  BY <1>1, <1>2 DEF TypeOK, inputs
<1>4. Accounted'
  <2>1. SUFFICES ASSUME NEW o \in Standing' \ torn' PROVE RecordedBy(manifest, o)'
    BY DEF Accounted
  <2>2. o \in OutNames /\ ~Missing(o)' /\ o \notin torn /\ o \notin wrote
    BY <2>1, <1>1 DEF Standing
  <2>3. manifest' = manifest /\ out'[o] = out[o]
    BY <2>1, <2>2
  <2>4. o \in Standing \ (torn \cup ThisBuild)
    BY <2>2, <2>3, <1>2 DEF Standing, Missing, ThisBuild
  <2> QED
    BY <2>3, <2>4, <1>2, RecordedSame DEF Accounted
<1> QED
  BY <1>2, <1>3, <1>4 DEF IInv

(* A step that stops while, at most, the output o is open. *)
LEMMA StopOneInv ==
    ASSUME IInv, pc # "idle", NEW o \in OutNames,
           \/ out' = out /\ Stop({})
           \/ out' = [out EXCEPT ![o] = Empty] /\ Stop({o}),
           manifest' = manifest
    PROVE  IInv'
<1>1. TypeOK
  BY DEF IInv
<1>2. CASE out' = out /\ Stop({})
  <2>1. /\ DOMAIN out' = OutNames
        /\ \A x \in OutNames : out'[x].kind \in {"absent", "empty", "page"}
        /\ \A x \in OutNames \ torn' : out'[x] = out[x]
        /\ {} \in SUBSET OutNames
    BY <1>1, <1>2 DEF TypeOK
  <2> QED
    BY <2>1, <1>2, StopFrame
<1>3. CASE out' = [out EXCEPT ![o] = Empty] /\ Stop({o})
  <2>1. o \in torn' /\ {o} \in SUBSET OutNames
    BY <1>3 DEF Stop
  <2>2. /\ DOMAIN out' = OutNames
        /\ \A x \in OutNames : out'[x].kind \in {"absent", "empty", "page"}
        /\ \A x \in OutNames \ torn' : out'[x] = out[x]
    BY <1>1, <1>3, <2>1 DEF TypeOK, Empty
  <2> QED
    BY <2>1, <2>2, <1>3, StopFrame
<1> QED
  BY <1>2, <1>3

(* A body that is too long. *)
LEMMA TooLongInv ==
    ASSUME IInv,
           \/ \E p \in Posts : PostTooLong(p)
           \/ \E g \in Pages : PageTooLong(g)
    PROVE  IInv'
<1>1. Control /\ TypeOK
  BY DEF IInv, Running, PostTooLong, PageTooLong
<1>2. /\ \A p \in PublishedPosts : PostOut(OutNumber(p)) \in OutNames
      /\ \A g \in PublishedPages : PageOut(g) \in OutNames
  BY <1>1, SiteType DEF Control, ExpectedOutputs
<1>3. CASE \E p \in Posts : PostTooLong(p)
  <2>1. PICK p \in Posts : PostTooLong(p)
    BY <1>3
  <2>2. p \in PublishedPosts /\ pc # "idle"
    BY <2>1, <1>1 DEF PostTooLong, Control
  <2> QED
    BY <2>1, <2>2, <1>2, StopOneInv DEF PostTooLong
<1>4. CASE \E g \in Pages : PageTooLong(g)
  <2>1. PICK g \in Pages : PageTooLong(g)
    BY <1>4
  <2>2. g \in PublishedPages /\ pc # "idle"
    BY <2>1, <1>1 DEF PageTooLong, Control
  <2> QED
    BY <2>1, <2>2, <1>2, StopOneInv DEF PageTooLong
<1> QED
  BY <1>3, <1>4

(* The other ways to stop. *)
LEMMA InterruptionInv ==
    ASSUME IInv, Interruption
    PROVE  IInv'
<1>1. TypeOK
  BY DEF IInv
<1>2. CASE StopBetween
  <2>1. Index \in OutNames
    BY DEF OutNames, Shared
  <2> QED
    BY <1>2, <2>1, StopOneInv DEF StopBetween
<1>3. CASE \E o \in OutNames : StopInside(o)
  <2>1. PICK o \in OutNames : StopInside(o)
    BY <1>3
  <2>2. pc # "idle"
    BY <2>1 DEF StopInside, InFlight
  <2> QED
    BY <2>1, <2>2, StopOneInv DEF StopInside
<1>4. CASE StopClearing
  <2>1. PICK gone : out' = [o \in OutNames |-> IF o \in gone THEN Absent ELSE out[o]]
    BY <1>4 DEF StopClearing, Remove
  <2>2. pc # "idle" /\ Stop({}) /\ manifest' = manifest /\ {} \in SUBSET OutNames
    BY <1>4 DEF StopClearing
  <2>3. /\ DOMAIN out' = OutNames
        /\ \A o \in OutNames : out'[o].kind \in {"absent", "empty", "page"}
        /\ \A o \in OutNames : out'[o] = out[o] \/ Missing(o)'
    BY <2>1, <1>1 DEF TypeOK, Absent, Missing
  <2> QED
    BY <2>2, <2>3, StopFrame
<1>5. CASE StopSaving
  <2>1. /\ pc = "save" /\ Stop(Standing) /\ out' = out
        /\ manifest' \in {NoManifest} \cup CutManifests
    BY <1>5 DEF StopSaving
  <2>2. Standing \in SUBSET OutNames /\ Standing' = Standing /\ Standing' \subseteq torn'
    BY <2>1 DEF Standing, Missing, Stop
  <2>3. /\ DOMAIN out' = OutNames
        /\ \A o \in OutNames : out'[o].kind \in {"absent", "empty", "page"}
    BY <2>1, <1>1 DEF TypeOK
  <2>4. Control
    BY <2>1 DEF IInv, Running
  <2>5. PublishedPosts \subseteq Posts /\ PublishedPages \subseteq Pages
    BY <2>4, <1>1, SiteType DEF Control
  <2>6. DOMAIN NoEntries = {}
    BY DEF NoEntries
  <2>7. /\ manifest'.loaded \in BOOLEAN /\ manifest'.archives \subseteq Labels
        /\ DOMAIN manifest'.posts \subseteq Posts
        /\ DOMAIN manifest'.pages \subseteq Pages
    <3>1. CASE manifest' = NoManifest
      BY <3>1, <2>6 DEF NoManifest
    <3>2. CASE manifest' \in CutManifests
      <4>1. /\ CurrentManifest.loaded = TRUE
            /\ DOMAIN CurrentManifest.posts = PublishedPosts
            /\ DOMAIN CurrentManifest.pages = PublishedPages
            /\ CurrentManifest.archives = UsedLabels
            /\ DOMAIN CurrentManifest = {"loaded", "site", "posts", "pages", "archives"}
        BY DEF CurrentManifest
      <4>2. UsedLabels \subseteq Labels
        BY <2>4, <1>1, SiteType DEF Control
      <4>3. ASSUME NEW sections \in 0 .. 3
            PROVE  /\ CutManifest(sections).loaded = TRUE
                   /\ CutManifest(sections).archives = {}
                   /\ DOMAIN CutManifest(sections).posts \subseteq Posts
                   /\ DOMAIN CutManifest(sections).pages \subseteq Pages
                   /\ DOMAIN CutManifest(sections) =
                         {"loaded", "site", "posts", "pages", "archives"}
        BY <4>1, <2>5, <2>6 DEF CutManifest
      <4>4. CASE manifest' = CurrentManifest
        BY <4>4, <4>1, <4>2, <2>5
      <4>5. CASE \E sections \in 0 .. 3 : manifest' = CutManifest(sections)
        BY <4>5, <4>3
      <4>6. CASE manifest' = [CutManifest(0) EXCEPT !.site = CutNumber]
        <5>1. 0 \in 0 .. 3 /\ "site" # "loaded" /\ "site" # "posts"
              /\ "site" # "pages" /\ "site" # "archives"
          OBVIOUS
        <5>2. /\ manifest'.loaded = CutManifest(0).loaded
              /\ manifest'.archives = CutManifest(0).archives
              /\ manifest'.posts = CutManifest(0).posts
              /\ manifest'.pages = CutManifest(0).pages
          BY <5>1, <4>6, <4>3
        <5> QED
          BY <5>1, <5>2, <4>3
      <4>7. CASE \E p \in PublishedPosts :
                    manifest' = [CutManifest(2) EXCEPT !.posts[p].stamp = CutNumber]
        <5>1. PICK p \in PublishedPosts :
                    manifest' = [CutManifest(2) EXCEPT !.posts[p].stamp = CutNumber]
          BY <4>7
        <5> DEFINE m == CutManifest(2)
        <5>2. 2 \in 0 .. 3
          OBVIOUS
        <5>3. /\ m.loaded = TRUE /\ m.archives = {}
              /\ DOMAIN m.posts \subseteq Posts /\ DOMAIN m.pages \subseteq Pages
              /\ DOMAIN m = {"loaded", "site", "posts", "pages", "archives"}
          BY <5>2, <4>3, Zenon
        <5>4. /\ manifest'.loaded = m.loaded /\ manifest'.archives = m.archives
              /\ manifest'.pages = m.pages
              /\ DOMAIN manifest'.posts = DOMAIN m.posts
          <6> HIDE DEF m
          <6>1. manifest' = [m EXCEPT !.posts[p].stamp = CutNumber]
            BY <5>1 DEF m
          <6> QED
            BY <6>1, <5>3
        <5> QED
          BY <5>3, <5>4
      <4>8. CASE \E g \in PublishedPages :
                    manifest' = [CutManifest(3) EXCEPT !.pages[g].stamp = CutNumber]
        <5>1. PICK g \in PublishedPages :
                    manifest' = [CutManifest(3) EXCEPT !.pages[g].stamp = CutNumber]
          BY <4>8
        <5> DEFINE m == CutManifest(3)
        <5>2. 3 \in 0 .. 3
          OBVIOUS
        <5>3. /\ m.loaded = TRUE /\ m.archives = {}
              /\ DOMAIN m.posts \subseteq Posts /\ DOMAIN m.pages \subseteq Pages
              /\ DOMAIN m = {"loaded", "site", "posts", "pages", "archives"}
          BY <5>2, <4>3, Zenon
        <5>4. /\ manifest'.loaded = m.loaded /\ manifest'.archives = m.archives
              /\ manifest'.posts = m.posts
              /\ DOMAIN manifest'.pages = DOMAIN m.pages
          <6> HIDE DEF m
          <6>1. manifest' = [m EXCEPT !.pages[g].stamp = CutNumber]
            BY <5>1 DEF m
          <6> QED
            BY <6>1, <5>3
        <5> QED
          BY <5>3, <5>4
      <4>9. CASE \E l \in UsedLabels :
                    manifest' = [CurrentManifest EXCEPT !.archives = @ \ {l}]
        BY <4>9, <4>1, <4>2, <2>5
      <4> QED
        BY <3>2, <4>4, <4>5, <4>6, <4>7, <4>8, <4>9 DEF CutManifests
    <3> QED
      BY <2>1, <3>1, <3>2
  <2> QED
    BY <2>1, <2>2, <2>3, <2>7, StopFrame
<1> QED
  BY <1>2, <1>3, <1>4, <1>5 DEF Interruption

(* The user edits files and deletes outputs between builds. *)
LEMMA EditInv ==
    ASSUME IInv, Edit
    PROVE  IInv'
<1>1. /\ pc = "idle" /\ verdict' = "edited"
      /\ UNCHANGED <<locals, wrote, noop, out, manifest, torn>>
  BY DEF Edit, Edited, EditConfig, EditPostsLst, EditPagesLst, EditPost, EditPage
<1>2. TypeOK /\ Accounted /\ pc' = "idle"
  BY <1>1 DEF IInv, locals
<1>3. /\ config' \in Configs
      /\ postsLst' \in Lists(Posts) /\ pagesLst' \in Lists(Pages)
      /\ postSrc' \in [Posts -> Versions \cup {Unreadable}]
      /\ pageSrc' \in [Pages -> Versions \cup {Unreadable}]
  BY <1>2 DEF TypeOK, Edit, EditConfig, EditPostsLst, EditPagesLst, EditPost, EditPage
<1>4. TypeOK'
  BY <1>1, <1>2, <1>3 DEF TypeOK, locals
<1>5. Standing' = Standing
  BY <1>1 DEF Standing, Missing
<1>6. Accounted'
  BY <1>1, <1>2, <1>5, RecordedSame DEF Accounted, ThisBuild, Running
<1> QED
  BY <1>1, <1>2, <1>4, <1>6 DEF IInv, Running, Success

LEMMA DropInv ==
    ASSUME IInv, Drop
    PROVE  IInv'
<1>1. /\ pc = "idle" /\ verdict' = "edited" /\ UNCHANGED <<locals, wrote, noop, inputs>>
  BY DEF Drop, DropManifest, DropOutput, Edited
<1>2. TypeOK /\ Accounted /\ pc' = "idle"
  BY <1>1 DEF IInv, locals
<1>3. CASE DropManifest
  <2>1. manifest' = NoManifest /\ torn' = torn \cup Standing /\ out' = out
    BY <1>3 DEF DropManifest
  <2>2. TypeOK'
    BY <2>1, <1>1, <1>2 DEF TypeOK, locals, inputs, NoManifest, NoEntries, Standing
  <2>3. Accounted'
    BY <2>1 DEF Accounted, Standing, Missing
  <2> QED
    BY <2>2, <2>3, <1>1, <1>2 DEF IInv, Running, Success
<1>4. CASE \E o \in OutNames : DropOutput(o)
  <2>1. PICK o \in OutNames : out' = [out EXCEPT ![o] = Absent]
    BY <1>4 DEF DropOutput
  <2>2. manifest' = manifest /\ torn' = torn
    BY <1>4 DEF DropOutput
  <2>3. TypeOK'
    BY <2>1, <2>2, <1>1, <1>2 DEF TypeOK, locals, inputs, Absent
  <2>4. \A x \in Standing' : x \in Standing /\ out'[x] = out[x]
    BY <2>1, <1>2 DEF Standing, Missing, TypeOK, Absent
  <2>5. Accounted'
    BY <2>2, <2>4, <1>1, <1>2, RecordedSame DEF Accounted, ThisBuild, Running
  <2> QED
    BY <2>3, <2>5, <1>1, <1>2 DEF IInv, Running, Success
<1> QED
  BY <1>3, <1>4 DEF Drop

(* Nothing happens. *)
LEMMA StutterInv ==
    ASSUME IInv, UNCHANGED vars
    PROVE  IInv'
<1>1. /\ UNCHANGED <<inputs, out, manifest, locals, history>>
      /\ UNCHANGED <<inputs, out, manifest, rebuildAll, wrote>>
  BY DEF vars, locals, history
<1>2. TypeOK'
  BY <1>1 DEF IInv, TypeOK, inputs, locals, history
<1>3. Accounted'
  BY <1>1, QuietStep DEF IInv, Accounted, ThisBuild, Running, locals, history
<1>4. Running' => (\A o \in wrote' : WrittenNow(o)') /\ Control'
  BY <1>1, QuietStep, InputsSame DEF IInv, Running, Control, locals, history
<1>5. Running' => Progress'
  BY <1>1, QuietStep, InputsSame DEF IInv, Running, Progress, locals, history
<1>6. Success'
  BY <1>1, QuietStep, InputsSame DEF IInv, Success, locals, history
<1> QED
  BY <1>2, <1>3, <1>4, <1>5, <1>6 DEF IInv

-----------------------------------------------------------------------------
(* The theorems. *)

(* IInv is inductive: no step of a build, no interruption and no edit      *)
(* breaks the link between BUILD.DAT and what stands in OUT.               *)
THEOREM Invariant ==
    ASSUME NoCollisions
    PROVE  Spec => []IInv
<1>1. ASSUME IInv, [Next]_vars
      PROVE  IInv'
  <2>1. CASE Step
    <3>1. CASE BuildRefused
      BY <1>1, <3>1, RefusedInv
    <3>2. CASE BuildStart
      BY <1>1, <3>2, StartInv
    <3>3. CASE ClearStep
      BY <1>1, <3>3, ClearInv
    <3>4. CASE WriteIndex \/ WriteArchive \/ WriteAbout
      BY <1>1, <3>4, WriteSharedInv
    <3>5. CASE \E p \in Posts : WritePost(p)
      BY <1>1, <3>5, WritePostInv
    <3>6. CASE \E g \in Pages : WritePage(g)
      BY <1>1, <3>6, WritePageInv
    <3>7. CASE \/ \E p \in Posts : PostTooLong(p)
               \/ \E g \in Pages : PageTooLong(g)
      BY <1>1, <3>7, TooLongInv
    <3>8. CASE \/ \E p \in Posts : SkipPost(p)
               \/ PostsDone
               \/ \E g \in Pages : SkipPage(g)
               \/ PagesDone
               \/ LabelsDone
      BY <1>1, <3>8, QuietInv
    <3>9. CASE \E l \in Labels : WriteLabel(l)
      BY <1>1, <3>9, WriteLabelInv
    <3>10. CASE SaveManifest
      BY <1>1, <3>10, SaveInv
    <3> QED
      BY <2>1, <3>1, <3>2, <3>3, <3>4, <3>5, <3>6, <3>7, <3>8, <3>9, <3>10 DEF Step
  <2>2. CASE Interruption
    BY <1>1, <2>2, InterruptionInv
  <2>3. CASE Edit
    BY <1>1, <2>3, EditInv
  <2>4. CASE Drop
    BY <1>1, <2>4, DropInv
  <2>5. CASE UNCHANGED vars
    BY <1>1, <2>5, StutterInv
  <2> QED
    BY <1>1, <2>1, <2>2, <2>3, <2>4, <2>5 DEF Next
<1> QED
  BY InitInv, <1>1, PTL DEF Spec

(* The state of a build has its type. *)
THEOREM TypeCorrect ==
    ASSUME NoCollisions
    PROVE  Spec => []TypeOK
<1>1. IInv => TypeOK
  BY DEF IInv
<1> QED
  BY Invariant, <1>1, PTL

(* After a build that reports success everything expected stands, and      *)
(* whatever else stands was torn by an interrupted command (site.c:446,    *)
(* remove_previous_outputs, has removed the rest).                         *)
THEOREM NothingLeft ==
    ASSUME NoCollisions
    PROVE  Spec => []NothingLeftBehind
<1>1. ASSUME IInv, verdict = "ok"
      PROVE  /\ ExpectedOutputs \subseteq Standing
             /\ Standing \subseteq ExpectedOutputs \cup torn
  <2>1. TypeOK /\ Accounted /\ pc = "idle" /\ CanBuild /\ manifest = CurrentManifest
        /\ ExpectedOutputs \subseteq Standing
    BY <1>1 DEF IInv, Success
  <2>2. ASSUME NEW o \in Standing, o \notin torn
        PROVE  o \in ExpectedOutputs
    <3>1. RecordedBy(CurrentManifest, o)
      BY <2>1, <2>2 DEF Accounted, ThisBuild, Running
    <3>2. /\ DOMAIN CurrentManifest.posts = PublishedPosts
          /\ \A p \in PublishedPosts : CurrentManifest.posts[p].out = OutNumber(p)
          /\ DOMAIN CurrentManifest.pages = PublishedPages
          /\ CurrentManifest.archives = UsedLabels
      BY DEF CurrentManifest
    <3> QED
      BY <3>1, <3>2 DEF RecordedBy, ExpectedOutputs
  <2> QED
    BY <2>1, <2>2
<1>2. IInv => NothingLeftBehind
  BY <1>1 DEF NothingLeftBehind
<1> QED
  BY Invariant, <1>2, PTL

(* A successful build leaves every output of the site recorded, and        *)
(* rendered from the site as it is.                                        *)
LEMMA RecordedNow ==
    ASSUME NoCollisions, IInv, verdict = "ok",
           NEW o \in ExpectedOutputs, o \notin torn
    PROVE  /\ RecordedBy(CurrentManifest, o)
           /\ out[o].kind = "page" /\ out[o].key = Key
<1>1. TypeOK /\ Accounted /\ pc = "idle" /\ CanBuild /\ manifest = CurrentManifest
      /\ o \in Standing
  BY DEF IInv, Success
<1>2. RecordedBy(CurrentManifest, o)
  BY <1>1 DEF Accounted, ThisBuild, Running
<1>3. out[o].kind = "page" /\ out[o].key \in Keys
      /\ Describes(CurrentManifest, out[o].key)
  BY <1>2 DEF RecordedBy
<1>4. Key \in Keys
  BY <1>1, SiteType
<1> QED
  BY <1>2, <1>3, <1>4, CurrentDescribes, DescribesOne

(* After a build that reports success every output is what the current     *)
(* files render to, torn ones excepted: the comparison of hashes and time  *)
(* stamps (site.c:337-407) skips nothing that has changed, provided hashes *)
(* do not collide, edits change the time stamp and names are distinct.     *)
THEOREM FreshPages ==
    ASSUME NoCollisions, DistinctStamps, DistinctNames
    PROVE  Spec => []PublishedIsFresh
<1>1. ASSUME IInv, verdict = "ok"
      PROVE  /\ \A o \in Shared \cup {LabelOut(l) : l \in UsedLabels} :
                   Fresh(o, SharedContent)
             /\ \A p \in PublishedPosts : Fresh(PostOut(OutNumber(p)), PostContent(p))
             /\ \A g \in PublishedPages : Fresh(PageOut(g), PageContent(g))
  <2>1. TypeOK /\ CanBuild
    BY <1>1 DEF IInv, Success
  <2>2. /\ \A p \in PublishedPosts : p \in Posts /\ postSrc[p] \in Versions
        /\ \A g \in PublishedPages : g \in Pages /\ pageSrc[g] \in Versions
        /\ UsedLabels \subseteq Labels
        /\ \A b : Render(b).kind = "page" /\ Render(b).key = Key /\ Render(b).body = b
    BY <2>1, SiteType
  <2>3. /\ DOMAIN CurrentManifest.posts = PublishedPosts
        /\ \A p \in PublishedPosts : /\ CurrentManifest.posts[p].out = OutNumber(p)
                                     /\ CurrentManifest.posts[p].stamp = postSrc[p].stamp
        /\ DOMAIN CurrentManifest.pages = PublishedPages
        /\ \A g \in PublishedPages : CurrentManifest.pages[g].stamp = pageSrc[g].stamp
        /\ CurrentManifest.archives = UsedLabels
    BY DEF CurrentManifest
  <2>4. ASSUME NEW o \in ExpectedOutputs, o \notin torn
        PROVE  /\ out[o].kind = "page" /\ out[o].key = Key
               /\ \/ o \in Shared /\ out[o].body = NoBody
                  \/ \E l \in UsedLabels : o = LabelOut(l) /\ out[o].body = NoBody
                  \/ \E p \in PublishedPosts :
                        o = PostOut(OutNumber(p)) /\ RecordedBody(postSrc[p].stamp, o)
                  \/ \E g \in PublishedPages :
                        o = PageOut(g) /\ RecordedBody(pageSrc[g].stamp, o)
    BY <1>1, <2>3, <2>4, RecordedNow DEF RecordedBy
  <2>5. ASSUME NEW v \in Versions, NEW o, RecordedBody(v.stamp, o)
        PROVE  out[o].body = v.body
    BY <2>5 DEF RecordedBody, DistinctStamps
  <2>6. ASSUME NEW o \in Shared, o \notin torn
        PROVE  out[o].kind = "page" /\ out[o].key = Key /\ out[o].body = NoBody
    <3>1. o \in ExpectedOutputs
      BY <2>6 DEF ExpectedOutputs
    <3>2. \A n : o # PostOut(n)
      BY <2>6 DEF Shared, Index, Archive, About, PostOut
    <3>3. \A g \in Pages : o # PageOut(g)
      BY <2>6 DEF Shared, Index, Archive, About, PageOut, DistinctNames
    <3> QED
      BY <2>2, <2>4, <2>6, <3>1, <3>2, <3>3
  <2>7. ASSUME NEW l \in UsedLabels, LabelOut(l) \notin torn
        PROVE  /\ out[LabelOut(l)].kind = "page" /\ out[LabelOut(l)].key = Key
               /\ out[LabelOut(l)].body = NoBody
    <3>1. LabelOut(l) \in ExpectedOutputs /\ l \in Labels
      BY <2>2 DEF ExpectedOutputs
    <3>2. \A n : LabelOut(l) # PostOut(n)
      BY DEF LabelOut, PostOut
    <3>3. \A g \in Pages : LabelOut(l) # PageOut(g)
      BY <3>1 DEF LabelOut, PageOut, DistinctNames
    <3> QED
      BY <2>2, <2>4, <2>7, <3>1, <3>2, <3>3
  <2>8. ASSUME NEW p \in PublishedPosts, PostOut(OutNumber(p)) \notin torn
        PROVE  /\ out[PostOut(OutNumber(p))].kind = "page"
               /\ out[PostOut(OutNumber(p))].key = Key
               /\ out[PostOut(OutNumber(p))].body = postSrc[p].body
    <3> DEFINE o == PostOut(OutNumber(p))
    <3>1. o \in ExpectedOutputs
      BY DEF ExpectedOutputs
    <3>2. o \notin Shared /\ (\A l : o # LabelOut(l)) /\ (\A g : o # PageOut(g))
      BY DEF Shared, Index, Archive, About, PostOut, LabelOut, PageOut
    <3>3. out[o].kind = "page" /\ out[o].key = Key
          /\ \E q \in PublishedPosts :
                o = PostOut(OutNumber(q)) /\ RecordedBody(postSrc[q].stamp, o)
      BY <2>4, <2>8, <3>1, <3>2
    <3>4. PICK q \in PublishedPosts :
                o = PostOut(OutNumber(q)) /\ RecordedBody(postSrc[q].stamp, o)
      BY <3>3
    <3>5. OutNumber(q) = OutNumber(p)
      BY <3>4 DEF PostOut
    <3>6. q = p
      BY <3>5, <2>1, OutNumberInjective DEF TypeOK
    <3> QED
      BY <2>2, <2>5, <3>3, <3>4, <3>6
  <2>9. ASSUME NEW g \in PublishedPages, PageOut(g) \notin torn
        PROVE  /\ out[PageOut(g)].kind = "page" /\ out[PageOut(g)].key = Key
               /\ out[PageOut(g)].body = pageSrc[g].body
    <3> DEFINE o == PageOut(g)
    <3>1. o \in ExpectedOutputs /\ g \in Pages
      BY <2>2 DEF ExpectedOutputs
    <3>2. o \notin Shared
      BY <3>1 DEF Shared, Index, Archive, About, PageOut, DistinctNames
    <3>3. (\A l \in UsedLabels : o # LabelOut(l)) /\ (\A n : o # PostOut(n))
      BY <2>2, <3>1 DEF LabelOut, PageOut, PostOut, DistinctNames
    <3>4. out[o].kind = "page" /\ out[o].key = Key
          /\ \E h \in PublishedPages : o = PageOut(h) /\ RecordedBody(pageSrc[h].stamp, o)
      BY <2>4, <2>9, <3>1, <3>2, <3>3
    <3>5. RecordedBody(pageSrc[g].stamp, o)
      BY <3>4 DEF PageOut
    <3> QED
      BY <2>2, <2>5, <3>4, <3>5
  <2> QED
    BY <2>2, <2>6, <2>7, <2>8, <2>9
       DEF Fresh, Same, SharedContent, PostContent, PageContent
<1>2. IInv => PublishedIsFresh
  BY <1>1 DEF PublishedIsFresh
<1> QED
  BY Invariant, <1>2, PTL

(* A build that starts without a manifest, or with one of another site,    *)
(* writes the whole site and nothing besides before it saves BUILD.DAT,    *)
(* whatever earlier commands left in OUT (site.c:1714-1765).               *)
THEOREM FullRebuild ==
    ASSUME NoCollisions
    PROVE  Spec => []FullRebuildWritesAll
<1>1. ASSUME IInv, pc = "save", rebuildAll
      PROVE  wrote = ExpectedOutputs
  <2>1. Control /\ Progress /\ \A o \in wrote : WrittenNow(o)
    BY <1>1 DEF IInv, Running
  <2>2. wrote \subseteq ExpectedOutputs
    BY <2>1 DEF WrittenNow, ExpectedOutputs
  <2>3. buildShared
    BY <1>1, <2>1 DEF Control
  <2>4. /\ Shared \subseteq wrote
        /\ \A l \in UsedLabels : LabelOut(l) \in wrote
    BY <1>1, <2>1, <2>3 DEF Progress, Shared
  <2>5. /\ \A p \in PublishedPosts : PostOut(OutNumber(p)) \in wrote
        /\ \A g \in PublishedPages : PageOut(g) \in wrote
    BY <1>1, <2>1 DEF Progress, PostDone, PageDone
  <2> QED
    BY <2>2, <2>4, <2>5 DEF ExpectedOutputs
<1>2. IInv => FullRebuildWritesAll
  BY <1>1 DEF FullRebuildWritesAll
<1> QED
  BY Invariant, <1>2, PTL

(* What is known while a build runs right after a successful one. *)
Quiet ==
    noop /\ verdict \in {"running", "ok"} =>
        /\ wrote \subseteq (IF config.banner THEN {Index} ELSE {})
        /\ verdict = "running" =>
              /\ manifest = CurrentManifest /\ ExpectedOutputs \subseteq Standing
              /\ ~buildShared /\ ~rebuildAll
              /\ pc \in {"index", "posts", "pages", "save"}
              /\ pc = "index" => config.banner

(* A quiet build finds every post and page as BUILD.DAT records it. *)
LEMMA NothingNeeded ==
    ASSUME IInv, Quiet, noop, verdict = "running"
    PROVE  /\ pc = "posts" => \A p \in left : ~NeedsPost(p)
           /\ pc = "pages" => \A g \in left : ~NeedsPage(g)
<1>1. manifest = CurrentManifest /\ ExpectedOutputs \subseteq Standing /\ ~rebuildAll
      /\ pc # "idle"
  BY DEF Quiet
<1>2. Control
  BY <1>1 DEF IInv, Running
<1>3. ASSUME NEW p \in PublishedPosts PROVE ~NeedsPost(p)
  <2>1. ~Missing(PostOut(OutNumber(p)))
    BY <1>1 DEF ExpectedOutputs, Standing
  <2>2. PostAsRecorded(p)
    BY <1>1 DEF PostAsRecorded, CurrentManifest
  <2> QED
    BY <1>1, <2>1, <2>2 DEF NeedsPost
<1>4. ASSUME NEW g \in PublishedPages PROVE ~NeedsPage(g)
  <2>1. ~Missing(PageOut(g))
    BY <1>1 DEF ExpectedOutputs, Standing
  <2>2. PageAsRecorded(g)
    BY <1>1 DEF PageAsRecorded, CurrentManifest
  <2> QED
    BY <1>1, <2>1, <2>2 DEF NeedsPage
<1> QED
  BY <1>2, <1>3, <1>4 DEF Control

(* The start of a build after a successful one. *)
LEMMA QuietStart ==
    ASSUME IInv, BuildStart
    PROVE  Quiet'
<1> SUFFICES ASSUME verdict = "ok" PROVE Quiet'
  BY DEF BuildStart, Quiet
<1>1. manifest = CurrentManifest /\ ExpectedOutputs \subseteq Standing
  BY DEF IInv, Success
<1>2. ~RebuildAll
  BY <1>1, CurrentDescribes DEF RebuildAll
<1>3. ~SharedMissing /\ ~Missing(Index)
  BY <1>1 DEF SharedMissing, ExpectedOutputs, Standing, Shared
<1>4. /\ wrote' = {} /\ ~buildShared' /\ ~rebuildAll'
      /\ pc' = IF config.banner THEN "index" ELSE "posts"
      /\ UNCHANGED <<inputs, out, manifest>>
  BY <1>2, <1>3 DEF BuildStart, IndexStale
<1>5. config' = config /\ Standing' = Standing
  BY <1>4 DEF inputs, Standing, Missing
<1>6. manifest' = CurrentManifest' /\ ExpectedOutputs' \subseteq Standing'
  BY <1>1, <1>4, <1>5, InputsSame
<1> QED
  BY <1>4, <1>5, <1>6 DEF Quiet

(* A step of a quiet build keeps it quiet. *)
LEMMA QuietStays ==
    ASSUME IInv, Quiet, Step, ~BuildStart
    PROVE  Quiet'
<1>1. CASE BuildRefused
  BY <1>1 DEF BuildRefused, Quiet
<1>2. CASE \/ \E p \in Posts : PostTooLong(p)
           \/ \E g \in Pages : PageTooLong(g)
  BY <1>2 DEF PostTooLong, PageTooLong, Stop, Finish, Quiet
<1>3. CASE ~BuildRefused /\ ~(\/ \E p \in Posts : PostTooLong(p)
                              \/ \E g \in Pages : PageTooLong(g))
  <2>1. pc # "idle"
    BY <1>3 DEF Step, ClearStep, WriteIndex, WriteArchive, WriteAbout, SkipPost,
                WritePost, PostsDone, SkipPage, WritePage, PagesDone, WriteLabel,
                LabelsDone, SaveManifest
  <2>2. Control /\ verdict = "running" /\ TypeOK
    BY <2>1 DEF IInv, Running, Control
  <2>3. inputs' = inputs /\ noop' = noop
    BY <1>3 DEF Step, ClearStep, WriteIndex, WriteArchive, WriteAbout, SkipPost,
                WritePost, PostsDone, SkipPage, WritePage, PagesDone, WriteLabel,
                LabelsDone, SaveManifest, Write, history
  <2> SUFFICES ASSUME noop PROVE Quiet'
    BY <2>3 DEF Quiet
  <2>4. /\ wrote \subseteq (IF config.banner THEN {Index} ELSE {})
        /\ manifest = CurrentManifest /\ ExpectedOutputs \subseteq Standing
        /\ ~buildShared /\ ~rebuildAll
        /\ pc \in {"index", "posts", "pages", "save"}
        /\ pc = "index" => config.banner
    BY <2>2 DEF Quiet
  <2>5. config' = config
    BY <2>3 DEF inputs
  <2>6. CASE WriteIndex
    <3>1. /\ out' = [out EXCEPT ![Index] = SharedContent] /\ wrote' = wrote \cup {Index}
          /\ manifest' = manifest /\ buildShared' = buildShared
          /\ rebuildAll' = rebuildAll /\ pc' = "posts" /\ config.banner
      BY <2>4, <2>6 DEF WriteIndex, Write
    <3>2. Standing \subseteq Standing'
      BY <3>1, <2>2 DEF Standing, Missing, TypeOK, SharedContent, Render
    <3> QED
      BY <3>1, <3>2, <2>3, <2>4, <2>5, InputsSame DEF Quiet
  <2>7. CASE \/ \E p \in Posts : SkipPost(p)
             \/ PostsDone
             \/ \E g \in Pages : SkipPage(g)
             \/ PagesDone
    <3>1. /\ UNCHANGED <<out, manifest, rebuildAll, buildShared, wrote, verdict>>
          /\ pc' \in {"posts", "pages", "save"}
      BY <2>4, <2>7 DEF SkipPost, PostsDone, SkipPage, PagesDone, history
    <3>2. Standing' = Standing
      BY <3>1 DEF Standing, Missing
    <3> QED
      BY <3>1, <3>2, <2>3, <2>4, <2>5, InputsSame DEF Quiet
  <2>8. CASE SaveManifest
    BY <2>4, <2>5, <2>8 DEF SaveManifest, Finish, Quiet
  <2>9. ~\E p \in Posts : WritePost(p)
    BY <2>2, NothingNeeded DEF WritePost
  <2>10. ~\E g \in Pages : WritePage(g)
    BY <2>2, NothingNeeded DEF WritePage
  <2>11. ~(ClearStep \/ WriteArchive \/ WriteAbout \/ LabelsDone)
         /\ ~\E l \in Labels : WriteLabel(l)
    BY <2>4 DEF ClearStep, WriteArchive, WriteAbout, LabelsDone, WriteLabel
  <2> QED
    BY <1>3, <2>6, <2>7, <2>8, <2>9, <2>10, <2>11 DEF Step
<1> QED
  BY <1>1, <1>2, <1>3

(* A build right after a successful one writes at most INDEX.HTM, and that *)
(* only when BANNER.TXT is there (site.c:433-444, README.md:377).          *)
THEOREM NoOp ==
    ASSUME NoCollisions
    PROVE  Spec => []NoOpWritesOnlyIndex
<1>1. Init => Quiet
  BY DEF Init, Quiet
<1>2. ASSUME IInv, Quiet, [Next]_vars
      PROVE  Quiet'
  <2>1. CASE Step
    BY <1>2, <2>1, QuietStart, QuietStays
  <2>2. CASE Interruption
    BY <2>2 DEF Interruption, StopBetween, StopInside, StopClearing, StopSaving,
                Stop, Finish, Quiet
  <2>3. CASE Edit
    BY <2>3 DEF Edit, Edited, EditConfig, EditPostsLst, EditPagesLst, EditPost,
                EditPage, Quiet
  <2>4. CASE Drop
    BY <2>4 DEF Drop, DropOutput, DropManifest, Edited, Quiet
  <2>5. CASE UNCHANGED vars
    <3>1. /\ UNCHANGED <<inputs, out, manifest, pc, rebuildAll, buildShared, wrote,
                         verdict, noop>>
          /\ config' = config /\ Standing' = Standing
      BY <2>5 DEF vars, locals, history, inputs, Standing, Missing
    <3> QED
      BY <1>2, <3>1, InputsSame DEF Quiet
  <2> QED
    BY <1>2, <2>1, <2>2, <2>3, <2>4, <2>5 DEF Next
<1>3. Quiet => NoOpWritesOnlyIndex
  BY DEF Quiet, NoOpWritesOnlyIndex
<1> QED
  BY Invariant, <1>1, <1>2, <1>3, PTL DEF Spec

-----------------------------------------------------------------------------
(* The build implements the publisher. *)

(* What is due changes only with the user's files. *)
LEMMA GoalSame ==
    ASSUME UNCHANGED inputs
    PROVE  Goal' = Goal
<1>1. postSrc' = postSrc /\ pageSrc' = pageSrc
  BY DEF inputs
<1>2. /\ SharedContent' = SharedContent
      /\ \A p : PostContent(p)' = PostContent(p)
      /\ \A g : PageContent(g)' = PageContent(g)
  BY <1>1, InputsSame DEF SharedContent, PostContent, PageContent
<1> QED
  BY <1>2, InputsSame DEF Goal

(* A site that can be built has exactly the expected outputs due. *)
LEMMA GoalIs ==
    ASSUME CanBuild
    PROVE  /\ Goal # {}
           /\ Promise!GoalNames = ExpectedOutputs
           /\ \A o \in Shared : Due(o, SharedContent) \in Goal
           /\ \A l \in UsedLabels : Due(LabelOut(l), SharedContent) \in Goal
           /\ \A p \in PublishedPosts : Due(PostOut(OutNumber(p)), PostContent(p)) \in Goal
           /\ \A g \in PublishedPages : Due(PageOut(g), PageContent(g)) \in Goal
<1>1. /\ \A o \in Shared : Due(o, SharedContent) \in Goal
      /\ \A l \in UsedLabels : Due(LabelOut(l), SharedContent) \in Goal
      /\ \A p \in PublishedPosts : Due(PostOut(OutNumber(p)), PostContent(p)) \in Goal
      /\ \A g \in PublishedPages : Due(PageOut(g), PageContent(g)) \in Goal
  BY DEF Goal
<1>2. Goal # {}
  BY <1>1 DEF Shared
<1>3. \A o, c : Due(o, c).name = o
  BY DEF Due
<1>4. Promise!GoalNames \subseteq ExpectedOutputs
  BY <1>3 DEF Promise!GoalNames, Goal, ExpectedOutputs
<1>5. ExpectedOutputs \subseteq Promise!GoalNames
  BY <1>1, <1>3 DEF Promise!GoalNames, ExpectedOutputs
<1> QED
  BY <1>1, <1>2, <1>4, <1>5

(* What is shown of an output tells whether it stands, and all of a page   *)
(* but the order of the sidebar.                                           *)
LEMMA ViewFacts ==
    /\ \A c : View(c) = Absent <=> c.kind = "absent"
    /\ \A c, d : Same(c, d) /\ d.kind = "page" => View(c) = View(d)
BY DEF View, Absent, Same

(* One output written from the files as they are is one Put. *)
LEMMA WriteIsPut ==
    ASSUME Running, Running', UNCHANGED inputs, UNCHANGED torn,
           NEW o, NEW c, Due(o, c) \in Goal, DOMAIN out = OutNames,
           out' = [out EXCEPT ![o] = c], wrote' = wrote \cup {o}
    PROVE  Promise!Next
<1>1. Due(o, c).name = o /\ Due(o, c).content = View(c)
  BY DEF Due
<1>2. Shown' = [Shown EXCEPT ![o] = View(c)]
  BY DEF Shown
<1>3. ThisBuild' = ThisBuild \cup {o}
  BY DEF ThisBuild
<1>4. Promise!Put(Due(o, c))
  BY <1>1, <1>2, <1>3, GoalSame DEF Promise!Put
<1> QED
  BY <1>4 DEF Promise!Next

(* Any way to stop early, whatever it spoils, is an Abort. *)
LEMMA StopIsAbort ==
    ASSUME NEW more, Running, Stop(more), DOMAIN out = OutNames, DOMAIN out' = OutNames,
           \A o \in OutNames : \/ o \in more
                               \/ out'[o] = out[o]
                               \/ out'[o] = Absent
    PROVE  Promise!Next
<1>1. ~Running' /\ ThisBuild = wrote /\ ThisBuild' = {} /\ UNCHANGED inputs
      /\ torn' = torn \cup wrote \cup more
  BY DEF Stop, Finish, Running, ThisBuild
<1>2. \A o \in OutNames : o \in torn' \/ Shown'[o] \in {Shown[o], Absent}
  BY <1>1, ViewFacts DEF Shown, Absent
<1>3. Promise!Abort
  BY <1>1, <1>2, GoalSame DEF Promise!Abort, Shown
<1> QED
  BY <1>3 DEF Promise!Next

(* Saving the manifest is completing the site: this is where freshness and *)
(* completeness of the outputs are used.                                   *)
LEMMA SaveIsComplete ==
    ASSUME IInv, PublishedIsFresh', NothingLeftBehind', SaveManifest
    PROVE  Promise!Next
<1>1. /\ Running /\ ~Running' /\ ThisBuild = wrote /\ ThisBuild' = {}
      /\ UNCHANGED inputs /\ out' = out /\ torn' = torn \ wrote /\ verdict' = "ok"
  BY DEF SaveManifest, Finish, Running, ThisBuild
<1>2. CanBuild
  BY <1>1 DEF IInv, Control
<1>3. /\ Goal' = Goal /\ ExpectedOutputs' = ExpectedOutputs /\ Standing' = Standing
      /\ SharedContent' = SharedContent /\ Shown' = Shown
  BY <1>1, GoalSame, InputsSame DEF Standing, Missing, SharedContent, Shown
<1>4. /\ ExpectedOutputs \subseteq Standing
      /\ Standing \subseteq ExpectedOutputs \cup torn
  BY <1>1, <1>3 DEF NothingLeftBehind
<1>5. Standing \subseteq OutNames /\ \A o \in OutNames : Shown[o] = Absent <=> o \notin Standing
  BY ViewFacts DEF Standing, Missing, Shown
<1>6. \A g \in Goal : g.name \in ExpectedOutputs
  BY <1>2, GoalIs DEF Promise!GoalNames
<1>7. ASSUME NEW g \in Goal, g.name \notin torn \ wrote
      PROVE  Shown[g.name] = g.content
  <2>1. /\ \A p : PostContent(p)' = PostContent(p)
        /\ \A p : PageContent(p)' = PageContent(p)
        /\ PublishedPosts' = PublishedPosts /\ PublishedPages' = PublishedPages
        /\ UsedLabels' = UsedLabels /\ \A p : OutNumber(p)' = OutNumber(p)
        /\ postSrc' = postSrc /\ pageSrc' = pageSrc
    BY <1>1, InputsSame DEF PostContent, PageContent, inputs
  <2>2. PICK o, c : /\ g = Due(o, c) /\ c.kind = "page"
                    /\ \/ o \in torn \ wrote
                       \/ Same(out[o], c)
    <3>1. SharedContent.kind = "page" /\ (\A p : PostContent(p).kind = "page")
          /\ \A p : PageContent(p).kind = "page"
      BY DEF SharedContent, PostContent, PageContent, Render
    <3>2. /\ \A o \in Shared \cup {LabelOut(l) : l \in UsedLabels} :
                o \in torn \ wrote \/ Same(out[o], SharedContent)
          /\ \A p \in PublishedPosts : PostOut(OutNumber(p)) \in torn \ wrote
                \/ Same(out[PostOut(OutNumber(p))], PostContent(p))
          /\ \A q \in PublishedPages : PageOut(q) \in torn \ wrote
                \/ Same(out[PageOut(q)], PageContent(q))
      BY <1>1, <1>3, <2>1 DEF PublishedIsFresh, Fresh, Same
    <3>3. CASE \E o \in Shared : g = Due(o, SharedContent)
      BY <3>1, <3>2, <3>3
    <3>4. CASE \E l \in UsedLabels : g = Due(LabelOut(l), SharedContent)
      BY <3>1, <3>2, <3>4
    <3>5. CASE \E p \in PublishedPosts : g = Due(PostOut(OutNumber(p)), PostContent(p))
      BY <3>1, <3>2, <3>5
    <3>6. CASE \E q \in PublishedPages : g = Due(PageOut(q), PageContent(q))
      BY <3>1, <3>2, <3>6
    <3> QED
      BY <1>2, <3>3, <3>4, <3>5, <3>6 DEF Goal
  <2>3. g.name = o /\ g.content = View(c)
    BY <2>2 DEF Due
  <2>4. View(out[o]) = View(c)
    BY <1>7, <2>2, <2>3, ViewFacts
  <2>5. o \in OutNames
    BY <1>4, <1>5, <1>6, <2>3
  <2> QED
    BY <2>3, <2>4, <2>5 DEF Shown
<1>8. Promise!Complete
  BY <1>1, <1>2, <1>3, <1>4, <1>5, <1>6, <1>7, GoalIs DEF Promise!Complete
<1> QED
  BY <1>8 DEF Promise!Next

(* The steps of the user, and those of the build that write nothing. *)
LEMMA OtherSteps ==
    ASSUME IInv, \/ BuildRefused \/ BuildStart \/ ClearStep
                 \/ PostsDone \/ PagesDone \/ LabelsDone
                 \/ \E p \in Posts : SkipPost(p)
                 \/ \E g \in Pages : SkipPage(g)
                 \/ Edit \/ Drop \/ UNCHANGED vars
    PROVE  Promise!Next \/ UNCHANGED Promise!vars
<1>0. DOMAIN out = OutNames
  BY DEF IInv, TypeOK
<1>1. CASE BuildRefused \/ UNCHANGED vars
  <2>1. UNCHANGED <<inputs, out, pc, torn>> /\ (Running => wrote' = wrote)
    BY <1>1 DEF BuildRefused, locals, vars, history, Running
  <2> QED
    BY <2>1, GoalSame DEF Promise!vars, Shown, ThisBuild, Running
<1>2. CASE BuildStart
  <2>1. /\ ~Running /\ Running' /\ ThisBuild = {} /\ ThisBuild' = {} /\ CanBuild
        /\ UNCHANGED <<inputs, out, torn>>
    BY <1>2 DEF BuildStart, Running, ThisBuild
  <2>2. Promise!Begin
    BY <2>1, GoalSame, GoalIs DEF Promise!Begin, Shown
  <2> QED
    BY <2>2 DEF Promise!Next
<1>3. CASE ClearStep
  <2>1. /\ Running /\ Running' /\ wrote = {} /\ UNCHANGED <<inputs, wrote, torn>>
        /\ Remove(PreviousOutputs(manifest))
    BY <1>3 DEF ClearStep, history, IInv, Running, Control
  <2>2. \A o \in OutNames : Shown'[o] \in {Shown[o], Absent}
    BY <2>1, ViewFacts DEF Remove, Shown, Absent
  <2>3. Promise!Withdraw
    BY <2>1, <2>2, GoalSame DEF Promise!Withdraw, Shown, ThisBuild
  <2> QED
    BY <2>3 DEF Promise!Next
<1>4. CASE \/ PostsDone \/ PagesDone \/ LabelsDone
           \/ \E p \in Posts : SkipPost(p)
           \/ \E g \in Pages : SkipPage(g)
  <2>1. Running /\ Running' /\ UNCHANGED <<inputs, out, wrote, torn>>
    BY <1>4 DEF PostsDone, PagesDone, LabelsDone, SkipPost, SkipPage, history, Running
  <2> QED
    BY <2>1, GoalSame DEF Promise!vars, Shown, ThisBuild
<1>5. CASE Edit
  <2>1. ~Running /\ Running' = Running /\ UNCHANGED <<out, torn>>
    BY <1>5 DEF Edit, Edited, EditConfig, EditPostsLst, EditPagesLst, EditPost,
                EditPage, locals, Running
  <2>2. Promise!Edit
    BY <2>1 DEF Promise!Edit, Shown, ThisBuild
  <2> QED
    BY <2>2 DEF Promise!Next
<1>6. CASE DropManifest
  <2>1. ~Running /\ Running' = Running /\ UNCHANGED <<inputs, out>>
        /\ torn' = torn \cup Standing
    BY <1>6 DEF DropManifest, Edited, locals, Running
  <2>2. Standing = {n \in OutNames : Shown[n] # Absent}
    BY ViewFacts DEF Standing, Missing, Shown
  <2>3. Promise!Forget
    BY <2>1, <2>2, GoalSame DEF Promise!Forget, Shown, ThisBuild
  <2> QED
    BY <2>3 DEF Promise!Next
<1>7. CASE \E o \in OutNames : DropOutput(o)
  <2>1. PICK o \in OutNames : DropOutput(o)
    BY <1>7
  <2>2. ~Running /\ Running' = Running /\ UNCHANGED <<inputs, torn>>
        /\ out' = [out EXCEPT ![o] = Absent]
    BY <2>1 DEF DropOutput, Edited, locals, Running
  <2>3. Shown' = [Shown EXCEPT ![o] = Absent]
    BY <1>0, <2>2, ViewFacts DEF Shown, Absent
  <2>4. Promise!Lose(o)
    BY <2>2, <2>3, GoalSame DEF Promise!Lose, ThisBuild
  <2> QED
    BY <2>4 DEF Promise!Next
<1> QED
  BY <1>1, <1>2, <1>3, <1>4, <1>5, <1>6, <1>7 DEF Drop

(* The outputs a build writes. *)
LEMMA Writes ==
    ASSUME IInv, \/ WriteIndex \/ WriteArchive \/ WriteAbout
                 \/ \E p \in Posts : WritePost(p)
                 \/ \E g \in Pages : WritePage(g)
                 \/ \E l \in Labels : WriteLabel(l)
    PROVE  Promise!Next
<1>1. /\ DOMAIN out = OutNames /\ CanBuild /\ Running
      /\ pc = "posts" => left \subseteq PublishedPosts
      /\ pc = "pages" => left \subseteq PublishedPages
      /\ pc = "labels" => left \subseteq UsedLabels
  BY DEF IInv, TypeOK, Running, Control, WriteIndex, WriteArchive, WriteAbout,
         WritePost, WritePage, WriteLabel
<1>2. Running'
  BY DEF Running, WriteIndex, WriteArchive, WriteAbout, WritePost, WritePage, WriteLabel
<1>3. ASSUME NEW o, NEW c, Write(o, c), Due(o, c) \in Goal
      PROVE  Promise!Next
  BY <1>1, <1>2, <1>3, WriteIsPut DEF Write
<1>4. CASE WriteIndex \/ WriteArchive \/ WriteAbout
  <2>1. \E o \in Shared : Write(o, SharedContent)
    BY <1>4 DEF WriteIndex, WriteArchive, WriteAbout, Shared
  <2> QED
    BY <1>1, <1>3, <2>1, GoalIs
<1>5. CASE \E p \in Posts : WritePost(p)
  <2>1. \E p \in PublishedPosts : Write(PostOut(OutNumber(p)), PostContent(p))
    BY <1>1, <1>5 DEF WritePost
  <2> QED
    BY <1>1, <1>3, <2>1, GoalIs
<1>6. CASE \E g \in Pages : WritePage(g)
  <2>1. \E g \in PublishedPages : Write(PageOut(g), PageContent(g))
    BY <1>1, <1>6 DEF WritePage
  <2> QED
    BY <1>1, <1>3, <2>1, GoalIs
<1>7. CASE \E l \in Labels : WriteLabel(l)
  <2>1. \E l \in UsedLabels : Write(LabelOut(l), SharedContent)
    BY <1>1, <1>7 DEF WriteLabel
  <2> QED
    BY <1>1, <1>3, <2>1, GoalIs
<1> QED
  BY <1>4, <1>5, <1>6, <1>7

(* The ways to stop early. *)
LEMMA Stops ==
    ASSUME IInv, \/ Interruption
                 \/ \E p \in Posts : PostTooLong(p)
                 \/ \E g \in Pages : PageTooLong(g)
    PROVE  Promise!Next
<1>1. DOMAIN out = OutNames
  BY DEF IInv, TypeOK
<1>2. CASE StopBetween \/ StopSaving
  <2>1. Running /\ out' = out /\ \E more : Stop(more)
    BY <1>2 DEF StopBetween, StopSaving, Running
  <2> QED
    BY <1>1, <2>1, StopIsAbort
<1>3. CASE StopClearing
  <2>1. Running /\ Stop({}) /\ \E gone : Remove(gone)
    BY <1>3 DEF StopClearing, Running
  <2>2. DOMAIN out' = OutNames /\ \A o \in OutNames : out'[o] = out[o] \/ out'[o] = Absent
    BY <2>1 DEF Remove
  <2> QED
    BY <1>1, <2>1, <2>2, StopIsAbort
<1>4. CASE \/ \E o \in OutNames : StopInside(o)
           \/ \E p \in Posts : PostTooLong(p)
           \/ \E g \in Pages : PageTooLong(g)
  <2>1. Running
    BY <1>4 DEF StopInside, PostTooLong, PageTooLong, InFlight, Running
  <2>2. PICK o : Stop({o}) /\ out' = [out EXCEPT ![o] = Empty]
    BY <1>4 DEF StopInside, PostTooLong, PageTooLong
  <2> QED
    BY <1>1, <2>1, <2>2, StopIsAbort
<1> QED
  BY <1>2, <1>3, <1>4 DEF Interruption

(* The build implements the publisher of Publisher.tla: it puts only what  *)
(* the files describe, withdraws only before it puts, admits every file an *)
(* interruption may have spoilt, and reports success only of a complete    *)
(* and exact site (site.c:1684-1846).                                      *)
THEOREM Implements ==
    ASSUME NoCollisions, DistinctStamps, DistinctNames
    PROVE  Spec => BuildPublishes
<1>1. Init => Promise!Init
  BY ViewFacts DEF Init, Promise!Init, Shown, Running, ThisBuild, Absent
<1>2. ASSUME IInv, PublishedIsFresh', NothingLeftBehind', [Next]_vars
      PROVE  [Promise!Next]_Promise!vars
  <2>1. CASE \/ WriteIndex \/ WriteArchive \/ WriteAbout
             \/ \E p \in Posts : WritePost(p)
             \/ \E g \in Pages : WritePage(g)
             \/ \E l \in Labels : WriteLabel(l)
    BY <1>2, <2>1, Writes
  <2>2. CASE \/ Interruption
             \/ \E p \in Posts : PostTooLong(p)
             \/ \E g \in Pages : PageTooLong(g)
    BY <1>2, <2>2, Stops
  <2>3. CASE SaveManifest
    BY <1>2, <2>3, SaveIsComplete
  <2>4. CASE \/ BuildRefused \/ BuildStart \/ ClearStep
             \/ PostsDone \/ PagesDone \/ LabelsDone
             \/ \E p \in Posts : SkipPost(p)
             \/ \E g \in Pages : SkipPage(g)
             \/ Edit \/ Drop \/ UNCHANGED vars
    BY <1>2, <2>4, OtherSteps
  <2> QED
    BY <1>2, <2>1, <2>2, <2>3, <2>4 DEF Next, Step
<1> QED
  BY Invariant, FreshPages, NothingLeft, <1>1, <1>2, PTL
     DEF Spec, BuildPublishes, Promise!Spec

=============================================================================
