-------------------------- MODULE SiteTables_proofs --------------------------
(***************************************************************************)
(* What the tables hold when they are handed to the rest of the build, for *)
(* every list, every size of the tables and every choice of archive names. *)
(***************************************************************************)
EXTENDS SiteTables, FiniteSetTheorems, FunctionTheorems, TLAPS

Phases == Lists \cup {"loaded", "sort", "archives", "done", "refused"}

(* A post and a label of it, as collect_archives visits them. *)
LEMMA LabelIsALabel ==
    ASSUME TypeOK, AtLabel
    PROVE  /\ at \in DOMAIN posts /\ posts[at].source \in Sources
           /\ Kind \in Kinds /\ Label \in Labels
<1>1. at \in DOMAIN posts /\ posts \in Seq(Record)
  BY DEF TypeOK, AtLabel, posts, Lists
<1>2. posts[at].source \in Sources
  <2>1. posts[at] \in Record
    BY <1>1
  <2> QED
    BY <2>1 DEF Record
<1>3. posts[at].source.category \in Labels /\ posts[at].source.tags \in Seq(Labels)
  BY <1>2, ArchivesAssumption
<1>4. use # 0 => use \in 1 .. Len(posts[at].source.tags)
  BY <1>3 DEF TypeOK, AtLabel
<1>5. use # 0 => posts[at].source.tags[use] \in Labels
  BY <1>3, <1>4
<1> QED
  BY <1>1, <1>2, <1>3, <1>5 DEF Kind, Kinds, Label

LEMMA TookIsTyped ==
    ASSUME TypeOK, NEW l \in Lists, NEW n \in Names \cup {Skipped, Invalid}, Took(l, n)
    PROVE  lines' \in [Lists -> Seq(Names \cup {Skipped, Invalid})]
BY DEF TypeOK, Took

LEMMA RememberIsTyped ==
    ASSUME TypeOK, NEW l \in Lists, NEW n \in Names, Remember(l, n)
    PROVE  seen' \in Seq(Names) /\ Len(seen') <= Remembered
<1>1. Remembered \in Nat
  BY CapsAssumption DEF Remembered
<1> QED
  BY <1>1 DEF TypeOK, Remember

(* A record goes into a table that has room for it. *)
LEMMA FiledIsTyped ==
    ASSUME TypeOK, NEW l \in Lists, NEW n \in Names, Filed(l, n),
           sources[l][n] # Refused, Len(table[l]) < Capacity[l]
    PROVE  /\ table' \in [Lists -> Seq(Record)]
           /\ \A k \in Lists : Len(table'[k]) <= Capacity[k]
<1> DEFINE r == IF l = "posts" THEN Post(n, Len(table[l]) + 1) ELSE Page(n)
<1>1. table[l] \in Seq(Record) /\ sources[l][n] \in Sources /\ Capacity[l] \in Nat
  BY CapsAssumption DEF TypeOK, Capacity, Lists
<1>2. r \in Record
  BY <1>1 DEF Record, Post, Page, Lists
<1>3. table' = [table EXCEPT ![l] = Append(table[l], r)]
  BY DEF Filed
<1> HIDE DEF r
<1>4. table'[l] = Append(table[l], r) /\ \A k \in Lists \ {l} : table'[k] = table[k]
  BY <1>3 DEF TypeOK
<1>5. Append(table[l], r) \in Seq(Record) /\ Len(Append(table[l], r)) = Len(table[l]) + 1
  BY <1>1, <1>2
<1>6. table' \in [Lists -> Seq(Record)]
  BY <1>3, <1>5 DEF TypeOK
<1>7. Len(table[l]) + 1 <= Capacity[l]
  BY <1>1
<1> QED
  BY <1>4, <1>5, <1>6, <1>7 DEF TypeOK

(* An exchange of two records leaves a table of the same length. *)
LEMMA SwapIsTyped ==
    ASSUME TypeOK, outer \in DOMAIN posts, inner \in DOMAIN posts
    PROVE  /\ Swapped \in Seq(Record) /\ Len(Swapped) = Len(posts)
           /\ Swapped = [i \in DOMAIN posts |->
                           IF i = inner THEN posts[outer]
                           ELSE IF i = outer THEN posts[inner] ELSE posts[i]]
<1>1. posts \in Seq(Record)
  BY DEF TypeOK, posts, Lists
<1> QED
  BY <1>1 DEF Swapped

LEMMA CompareIsTyped ==
    ASSUME TypeOK, Compare
    PROVE  /\ table' \in [Lists -> Seq(Record)]
           /\ \A k \in Lists : Len(table'[k]) = Len(table[k])
           /\ posts' = IF Date(inner) > Date(outer) THEN Swapped ELSE posts
<1>1. posts \in Seq(Record) /\ "posts" \in Lists
  BY DEF TypeOK, posts, Lists
<1>2. inner \in DOMAIN posts /\ outer \in DOMAIN posts
  BY <1>1 DEF Compare, TypeOK
<1>3. Swapped \in Seq(Record) /\ Len(Swapped) = Len(posts)
  BY <1>2, SwapIsTyped
<1>4. table' = IF Date(inner) > Date(outer) THEN [table EXCEPT !["posts"] = Swapped] ELSE table
  BY DEF Compare
<1>5. CASE Date(inner) > Date(outer)
  <2>1. /\ table' = [table EXCEPT !["posts"] = Swapped]
        /\ table'["posts"] = Swapped /\ \A k \in Lists \ {"posts"} : table'[k] = table[k]
    BY <1>1, <1>4, <1>5 DEF TypeOK
  <2>2. table' \in [Lists -> Seq(Record)]
    BY <1>3, <2>1 DEF TypeOK
  <2> QED
    BY <1>3, <1>5, <2>1, <2>2 DEF posts
<1>6. CASE ~(Date(inner) > Date(outer))
  BY <1>4, <1>6 DEF TypeOK, posts
<1> QED
  BY <1>5, <1>6

LEMMA NextUseIsTyped ==
    ASSUME TypeOK, AtLabel, NextUse
    PROVE  at' \in Nat \ {0} /\ use' \in Nat
BY DEF TypeOK, NextUse

LEMMA AddIsTyped ==
    ASSUME TypeOK, AddArchive
    PROVE  /\ archives' \in [Kinds -> Seq(ArchiveRef)]
           /\ \A k \in Kinds : Len(archives'[k]) <= MaxArchives
           /\ \E n \in 1 .. Attempts :
                LET out == Candidate[Kind][Label][n] IN
                /\ ~Conflicts(out)
                /\ archives'[Kind] = Append(archives[Kind], [label |-> Label, out |-> out])
                /\ \A k \in Kinds \ {Kind} : archives'[k] = archives[k]
<1>1. AtLabel /\ Kind \in Kinds /\ Label \in Labels
  BY LabelIsALabel DEF AddArchive
<1>2. PICK n \in 1 .. Attempts :
          /\ Free(Kind, Label, n)
          /\ archives' = [archives EXCEPT ![Kind] =
                Append(@, [label |-> Label, out |-> Candidate[Kind][Label][n]])]
  BY DEF AddArchive
<1> DEFINE ref == [label |-> Label, out |-> Candidate[Kind][Label][n]]
<1>3. ref \in ArchiveRef
  BY <1>1 DEF ArchiveRef, Candidates
<1>4. archives[Kind] \in Seq(ArchiveRef) /\ Len(archives[Kind]) < MaxArchives
  BY <1>1 DEF TypeOK, AddArchive
<1>5. archives'[Kind] = Append(archives[Kind], ref)
      /\ \A k \in Kinds \ {Kind} : archives'[k] = archives[k]
  BY <1>1, <1>2 DEF TypeOK
<1> HIDE DEF ref
<1>6. Append(archives[Kind], ref) \in Seq(ArchiveRef)
      /\ Len(Append(archives[Kind], ref)) = Len(archives[Kind]) + 1
  BY <1>3, <1>4
<1>7. archives' \in [Kinds -> Seq(ArchiveRef)]
  BY <1>2, <1>6 DEF TypeOK, ref
<1>8. Len(archives[Kind]) + 1 <= MaxArchives
  BY <1>4, ArchivesAssumption
<1>9. \A k \in Kinds : Len(archives'[k]) <= MaxArchives
  BY <1>5, <1>6, <1>8 DEF TypeOK
<1>10. ~Conflicts(Candidate[Kind][Label][n])
  BY <1>2 DEF Free
<1> QED
  BY <1>5, <1>7, <1>9, <1>10 DEF ref

-----------------------------------------------------------------------------
LEMMA InitTypeOK == Init => TypeOK
<1> SUFFICES ASSUME Init PROVE TypeOK
  OBVIOUS
<1>1. Remembered \in Nat /\ \A l \in Lists : Capacity[l] \in Nat
  BY CapsAssumption DEF Remembered, Capacity, Lists
<1> QED
  BY <1>1, ArchivesAssumption DEF Init, LoadInit, TypeOK, Lists

LEMMA ReadLineTypeOK ==
    ASSUME TypeOK, NEW l \in Lists, ReadLine(l), UNCHANGED <<outer, inner, archives, at, use>>
    PROVE  TypeOK'
<1>1. CASE SkipLine(l)
  BY <1>1, TookIsTyped DEF SkipLine, TypeOK
<1>2. CASE InvalidLine(l)
  BY <1>2, TookIsTyped DEF InvalidLine, Refuse, TypeOK
<1>3. ASSUME NEW n \in Names,
             \/ RepeatedName(l, n) \/ BadSource(l, n) \/ TableFull(l, n)
             \/ DraftEntry(l, n) \/ PublishedEntry(l, n)
      PROVE  TypeOK'
  <2>1. CASE RepeatedName(l, n) \/ BadSource(l, n) \/ TableFull(l, n)
    BY <2>1, TookIsTyped DEF RepeatedName, BadSource, TableFull, Refuse, TypeOK
  <2>2. CASE DraftEntry(l, n)
    BY <2>2, TookIsTyped, RememberIsTyped DEF DraftEntry, TypeOK
  <2>3. CASE PublishedEntry(l, n)
    <3>1. lines' \in [Lists -> Seq(Names \cup {Skipped, Invalid})]
      BY <2>3, TookIsTyped DEF PublishedEntry
    <3>2. seen' \in Seq(Names) /\ Len(seen') <= Remembered
      BY <2>3, RememberIsTyped DEF PublishedEntry
    <3>3. /\ table' \in [Lists -> Seq(Record)]
          /\ \A k \in Lists : Len(table'[k]) <= Capacity[k]
      BY <2>3, FiledIsTyped DEF PublishedEntry
    <3> QED
      BY <2>3, <3>1, <3>2, <3>3 DEF PublishedEntry, TypeOK
  <2> QED
    BY <1>3, <2>1, <2>2, <2>3
<1> QED
  BY <1>1, <1>2, <1>3 DEF ReadLine

LEMMA NextTypeOK == TypeOK /\ [Next]_vars => TypeOK'
<1> SUFFICES ASSUME TypeOK, [Next]_vars PROVE TypeOK'
  OBVIOUS
<1>1. CASE Load
  <2> USE <1>1 DEF Load
  <2>1. CASE NoPostsLst
    BY <2>1 DEF NoPostsLst, Refuse, TypeOK
  <2>2. ASSUME NEW l \in Lists, ReadLine(l) PROVE TypeOK'
    BY <2>2, ReadLineTypeOK
  <2>3. ASSUME NEW l \in Lists, TwinSlugs(l) PROVE TypeOK'
    BY <2>3 DEF TwinSlugs, Refuse, TypeOK
  <2>4. ASSUME NEW l \in Lists, ListLoaded(l) PROVE TypeOK'
    <3>1. Remembered \in Nat
      BY CapsAssumption DEF Remembered
    <3> QED
      BY <2>4, <3>1 DEF ListLoaded, TypeOK, Lists
  <2> QED
    BY <2>1, <2>2, <2>3, <2>4 DEF LoadNext
<1>2. CASE StartSort
  BY <1>2 DEF StartSort, TypeOK
<1>3. CASE Compare
  BY <1>3, CompareIsTyped DEF Compare, TypeOK
<1>4. CASE NextOuter
  BY <1>4 DEF NextOuter, TypeOK, loadVars
<1>5. CASE StartArchives
  BY <1>5, ArchivesAssumption DEF StartArchives, TypeOK
<1>6. CASE LabelIsThere
  BY <1>6, NextUseIsTyped DEF LabelIsThere, TypeOK, loadVars
<1>7. CASE AddArchive
  BY <1>7, NextUseIsTyped, AddIsTyped DEF AddArchive, TypeOK, loadVars
<1>8. CASE TooManyArchives
  BY <1>8 DEF TooManyArchives, Refuse, TypeOK
<1>9. CASE NoNameIsFree
  BY <1>9 DEF NoNameIsFree, Refuse, TypeOK
<1>10. CASE ArchivesDone
  BY <1>10 DEF ArchivesDone, TypeOK
<1>11. CASE UNCHANGED vars
  BY <1>11 DEF vars, loadVars, TypeOK
<1> QED
  BY <1>1, <1>2, <1>3, <1>4, <1>5, <1>6, <1>7, <1>8, <1>9, <1>10, <1>11
     DEF Next, SortNext, ArchivesNext

(* The variables keep their types: the tables their sizes, whatever the    *)
(* lists hold.                                                             *)
THEOREM TablesTyped == Spec => []TypeOK
BY InitTypeOK, NextTypeOK, PTL DEF Spec

-----------------------------------------------------------------------------
(* The sort.  The posts before `outer` are in their places: none of them   *)
(* is older than a post behind it; and the one at `outer` is not older     *)
(* than those it was compared with, the ones before `inner`.               *)
Ordered(i, j) == Date(i) >= Date(j)

SortInv ==
    /\ pc = "sort" => outer < inner
    /\ pc = "sort" => \A k, m \in DOMAIN posts :
          k < m /\ (k < outer \/ (k = outer /\ m < inner)) => Ordered(k, m)
    /\ NewestFirst

LEMMA DatesAreNumbers ==
    ASSUME TypeOK
    PROVE  posts \in Seq(Record) /\ \A i \in DOMAIN posts : Date(i) \in Nat
<1>1. posts \in Seq(Record)
  BY DEF TypeOK, posts, Lists
<1>2. ASSUME NEW i \in DOMAIN posts PROVE Date(i) \in Nat
  <2>1. posts[i] \in Record
    BY <1>1
  <2>2. posts[i].source \in Sources
    BY <2>1 DEF Record
  <2> QED
    BY <2>2, SourcesAssumption DEF Date
<1> QED
  BY <1>1, <1>2

LEMMA CompareSorts ==
    ASSUME TypeOK, SortInv, Compare
    PROVE  SortInv'
<1>1. /\ posts \in Seq(Record) /\ \A i \in DOMAIN posts : Date(i) \in Nat
      /\ pc = "sort" /\ pc' = "sort" /\ outer' = outer /\ inner' = inner + 1
      /\ outer \in Nat /\ inner \in Nat
  BY DatesAreNumbers DEF Compare, TypeOK
<1>2. outer \in DOMAIN posts /\ inner \in DOMAIN posts
  BY <1>1 DEF Compare, TypeOK
<1>3. posts' = IF Date(inner) > Date(outer) THEN Swapped ELSE posts
  BY CompareIsTyped
<1>4. Swapped = [i \in DOMAIN posts |->
                   IF i = inner THEN posts[outer]
                   ELSE IF i = outer THEN posts[inner] ELSE posts[i]]
  BY <1>2, SwapIsTyped
<1>10. outer < inner
  BY <1>1 DEF SortInv
<1>5. SUFFICES ASSUME NEW k \in DOMAIN posts', NEW m \in DOMAIN posts',
                      k < m, k < outer \/ (k = outer /\ m < inner + 1)
               PROVE  Date(k)' >= Date(m)'
  BY <1>1, <1>10 DEF SortInv, Ordered, NewestFirst
<1>6. k \in DOMAIN posts /\ m \in DOMAIN posts /\ k \in Nat /\ m \in Nat
  <2>1. DOMAIN Swapped = DOMAIN posts
    BY <1>4
  <2>2. DOMAIN posts' = DOMAIN posts
    BY <1>3, <2>1
  <2> QED
    BY <1>1, <1>5, <2>2
<1>7. \A i, j \in DOMAIN posts :
         i < j /\ (i < outer \/ (i = outer /\ j < inner)) => Date(i) >= Date(j)
  BY <1>1 DEF SortInv, Ordered
<1>8. CASE Date(inner) > Date(outer)
  <2>9. \A i \in DOMAIN posts :
           Date(i)' = IF i = inner THEN Date(outer)
                      ELSE IF i = outer THEN Date(inner) ELSE Date(i)
    BY <1>3, <1>4, <1>8 DEF Date
  <2>1. CASE k < outer
    <3>1. Date(k)' = Date(k)
      BY <1>1, <1>6, <2>9, <1>10, <2>1
    <3>2. Date(k) >= Date(outer) /\ Date(k) >= Date(inner)
      BY <1>1, <1>2, <1>6, <1>7, <1>10, <2>1
    <3>3. Date(k) >= Date(m)
      BY <1>6, <1>7, <1>5, <2>1
    <3> QED
      BY <1>6, <2>9, <3>1, <3>2, <3>3
  <2>2. CASE k = outer /\ m = inner
    BY <1>1, <1>2, <1>8, <2>9, <1>10, <2>2
  <2>3. CASE k = outer /\ m < inner
    <3>1. Date(k)' = Date(inner) /\ Date(m)' = Date(m)
      BY <1>1, <1>5, <1>6, <2>9, <1>10, <2>3
    <3>2. Date(outer) >= Date(m)
      BY <1>5, <1>6, <1>7, <2>3
    <3>3. Date(inner) \in Nat /\ Date(outer) \in Nat /\ Date(m) \in Nat
      BY <1>1, <1>2, <1>6
    <3> QED
      BY <1>8, <3>1, <3>2, <3>3
  <2> QED
    BY <1>1, <1>5, <1>6, <2>1, <2>2, <2>3
<1>9. CASE ~(Date(inner) > Date(outer))
  <2>1. posts' = posts
    BY <1>3, <1>9
  <2>2. Date(k)' = Date(k) /\ Date(m)' = Date(m)
    BY <2>1 DEF Date
  <2>3. k = outer /\ m = inner => Date(k) >= Date(m)
    BY <1>1, <1>2, <1>9
  <2> QED
    BY <1>1, <1>5, <1>6, <1>7, <2>2, <2>3
<1> QED
  BY <1>8, <1>9

LEMMA NextOuterSorts ==
    ASSUME TypeOK, SortInv, NextOuter
    PROVE  SortInv'
<1>1. /\ posts \in Seq(Record) /\ posts' = posts
      /\ pc = "sort" /\ pc' = "sort" /\ outer' = outer + 1 /\ inner' = outer + 2
      /\ outer \in Nat /\ inner \in Nat /\ inner > Len(posts)
  BY DatesAreNumbers DEF NextOuter, TypeOK, loadVars, posts
<1>2. \A k, m \in DOMAIN posts : Ordered(k, m)' <=> Ordered(k, m)
  BY <1>1 DEF Ordered, Date
<1>3. ASSUME NEW k \in DOMAIN posts, NEW m \in DOMAIN posts, k < m,
             k < outer + 1 \/ (k = outer + 1 /\ m < outer + 2)
      PROVE  Ordered(k, m)
  <2>1. k \in Nat /\ m \in Nat /\ m <= Len(posts)
    BY <1>1
  <2>2. k < outer \/ (k = outer /\ m < inner)
    BY <1>1, <1>3, <2>1
  <2> QED
    BY <1>1, <1>3, <2>2 DEF SortInv
<1>4. outer + 1 < outer + 2
  BY <1>1
<1> QED
  BY <1>1, <1>2, <1>3, <1>4 DEF SortInv, NewestFirst

LEMMA StartArchivesSorts ==
    ASSUME TypeOK, SortInv, StartArchives
    PROVE  SortInv'
<1>1. /\ posts \in Seq(Record) /\ posts' = posts /\ pc = "sort" /\ pc' = "archives"
      /\ outer \in Nat /\ outer >= Len(posts)
  BY DatesAreNumbers DEF StartArchives, TypeOK, posts
<1>2. ASSUME NEW i \in DOMAIN posts, NEW j \in DOMAIN posts, i < j
      PROVE  Date(i) >= Date(j)
  <2>1. i < outer
    BY <1>1, <1>2
  <2> QED
    BY <1>1, <1>2, <2>1 DEF SortInv, Ordered
<1>3. \A i \in DOMAIN posts : Date(i)' = Date(i)
  BY <1>1 DEF Date
<1> QED
  BY <1>1, <1>2, <1>3 DEF SortInv, NewestFirst

LEMMA NextSorts == TypeOK /\ SortInv /\ [Next]_vars => SortInv'
<1> SUFFICES ASSUME TypeOK, SortInv, [Next]_vars PROVE SortInv'
  OBVIOUS
<1>1. ASSUME pc' \notin {"sort", "archives", "done"} PROVE SortInv'
  BY <1>1 DEF SortInv, NewestFirst
<1>2. CASE Load
  <2>1. pc' \in Lists \cup {"loaded", "refused"}
    BY <1>2 DEF Load, LoadNext, NoPostsLst, ReadLine, TwinSlugs, ListLoaded, SkipLine,
       InvalidLine, RepeatedName, BadSource, TableFull, DraftEntry, PublishedEntry, Refuse, Lists
  <2> QED
    BY <1>1, <2>1 DEF Lists
<1>3. CASE StartSort
  <2>1. /\ posts \in Seq(Record) /\ posts' = posts
        /\ pc' = "sort" /\ outer' = 1 /\ inner' = 2
    BY <1>3, DatesAreNumbers DEF StartSort, posts
  <2>2. \A k, m \in DOMAIN posts :
           ~(k < m /\ (k < outer' \/ (k = outer' /\ m < inner')))
    BY <2>1
  <2> QED
    BY <2>1, <2>2 DEF SortInv, NewestFirst
<1>4. CASE Compare
  BY <1>4, CompareSorts
<1>5. CASE NextOuter
  BY <1>5, NextOuterSorts
<1>6. CASE StartArchives
  BY <1>6, StartArchivesSorts
<1>7. CASE TooManyArchives \/ NoNameIsFree
  BY <1>7, <1>1 DEF TooManyArchives, NoNameIsFree, Refuse
<1>8. CASE \/ LabelIsThere \/ AddArchive \/ ArchivesDone \/ UNCHANGED vars
  <2>1. posts' = posts /\ outer' = outer /\ inner' = inner
    BY <1>8 DEF LabelIsThere, AddArchive, ArchivesDone, vars, loadVars, posts
  <2>2. \/ pc' = pc
        \/ pc = "archives" /\ pc' = "done"
    BY <1>8 DEF LabelIsThere, AddArchive, ArchivesDone, vars, loadVars
  <2>3. \A i \in DOMAIN posts : Date(i)' = Date(i)
    BY <2>1 DEF Date
  <2> QED
    BY <2>1, <2>2, <2>3 DEF SortInv, NewestFirst, Ordered
<1> QED
  BY <1>2, <1>3, <1>4, <1>5, <1>6, <1>7, <1>8 DEF Next, SortNext, ArchivesNext

(* The exchange sort of main.c:17-32 puts the posts newest first.          *)
THEOREM PostsAreSorted == Spec => []NewestFirst
<1>1. Init => SortInv
  BY DEF Init, LoadInit, SortInv, NewestFirst
<1>2. SortInv => NewestFirst
  BY DEF SortInv
<1> QED
  BY InitTypeOK, NextTypeOK, NextSorts, <1>1, <1>2, PTL DEF Spec

-----------------------------------------------------------------------------
(* The names of the archives.  Nothing is in their tables before the posts *)
(* are sorted, and the tables of posts and pages rest from then on.  Where *)
(* no name was found, all the candidates of one label are taken.           *)
Collecting == pc \in {"archives", "done"} \/ error \in {"archives", "allocate"}

ArchivesInv ==
    /\ ~Collecting => \A k \in Kinds : archives[k] = <<>>
    /\ Collecting => pc \in {"archives", "done", "refused"}
    /\ pc # "refused" => error = "none"
    /\ ArchiveNamesApart
    /\ error = "allocate" => \E k \in Kinds, w \in Labels :
          \A n \in 1 .. Attempts : Conflicts(Candidate[k][w][n])

(* A step of the loader or of the sort leaves the archives without names,  *)
(* a step that only moves on leaves them as they are.                      *)
LEMMA NoArchivesYet ==
    ASSUME archives' = archives, \A k \in Kinds : archives[k] = <<>>,
           ~Collecting', error' # "allocate", pc' # "refused" => error' = "none"
    PROVE  ArchivesInv'
<1>1. \A k \in Kinds : DOMAIN archives'[k] = {} /\ archives'[k] = <<>>
  OBVIOUS
<1>2. ArchiveNamesApart'
  BY <1>1 DEF ArchiveNamesApart, OutsOf
<1> QED
  BY <1>1, <1>2 DEF ArchivesInv

LEMMA ArchivesRest ==
    ASSUME ArchivesInv, archives' = archives, table' = table,
           Collecting' = Collecting, pc' \in {"archives", "done", "refused"} \/ pc' = pc,
           pc' # "refused" => error' = "none",
           error' = "allocate" => \E k \in Kinds, w \in Labels :
               \A n \in 1 .. Attempts : Conflicts(Candidate[k][w][n])
    PROVE  ArchivesInv'
<1>1. PageOuts' = PageOuts /\ \A k \in Kinds : OutsOf(archives[k])' = OutsOf(archives[k])
  BY DEF PageOuts, OutsOf
<1>2. ArchiveNamesApart'
  BY <1>1 DEF ArchivesInv, ArchiveNamesApart
<1>3. ASSUME NEW out PROVE Conflicts(out)' <=> Conflicts(out)
  BY <1>1 DEF Conflicts
<1> QED
  BY <1>2, <1>3 DEF ArchivesInv

LEMMA AddKeepsApart ==
    ASSUME TypeOK, ArchiveNamesApart, AddArchive
    PROVE  ArchiveNamesApart'
<1>1. PICK n \in 1 .. Attempts :
        /\ ~Conflicts(Candidate[Kind][Label][n])
        /\ archives'[Kind] =
              Append(archives[Kind], [label |-> Label, out |-> Candidate[Kind][Label][n]])
        /\ \A k \in Kinds \ {Kind} : archives'[k] = archives[k]
  BY AddIsTyped
<1>2. Kind \in Kinds
  BY LabelIsALabel DEF AddArchive
<1> DEFINE out == Candidate[Kind][Label][n]
           K == Kind
           last == Len(archives[K]) + 1
<1>3. \A k \in Kinds : archives[k] \in Seq(ArchiveRef) /\ DOMAIN archives[k] = 1 .. Len(archives[k])
  BY DEF TypeOK
<1>4. /\ DOMAIN archives'[K] = DOMAIN archives[K] \cup {last} /\ last \notin DOMAIN archives[K]
      /\ archives'[K][last].out = out
      /\ \A i \in DOMAIN archives[K] : archives'[K][i] = archives[K][i]
  BY <1>1, <1>2, <1>3
<1>5. PageOuts' = PageOuts
  BY DEF AddArchive, loadVars, PageOuts
<1>6. out \notin PageOuts /\ \A k \in Kinds : \A i \in DOMAIN archives[k] : archives[k][i].out # out
  BY <1>1 DEF Conflicts, OutsOf
<1>7. \A k \in Kinds \ {K} : archives'[k] = archives[k]
  BY <1>1
<1> HIDE DEF out, K, last
<1>8. \A k \in Kinds : \A i \in DOMAIN archives'[k] :
         \/ k = K /\ i = last /\ archives'[k][i].out = out
         \/ i \in DOMAIN archives[k] /\ archives'[k][i].out = archives[k][i].out
  BY <1>4, <1>7
<1>9. ASSUME NEW k \in Kinds, NEW m \in Kinds,
             NEW i \in DOMAIN archives'[k], NEW j \in DOMAIN archives'[m],
             archives'[k][i].out = archives'[m][j].out
      PROVE  k = m /\ i = j
  BY <1>6, <1>8, <1>9 DEF ArchiveNamesApart
<1>10. ASSUME NEW k \in Kinds, NEW i \in DOMAIN archives'[k] PROVE archives'[k][i].out \notin PageOuts
  BY <1>6, <1>8 DEF ArchiveNamesApart, OutsOf
<1> QED
  BY <1>5, <1>9, <1>10 DEF ArchiveNamesApart, OutsOf

LEMMA NextArchives == TypeOK /\ ArchivesInv /\ [Next]_vars => ArchivesInv'
<1> SUFFICES ASSUME TypeOK, ArchivesInv, [Next]_vars PROVE ArchivesInv'
  OBVIOUS
<1>1. CASE Load \/ StartSort \/ Compare \/ NextOuter
  <2>1. /\ archives' = archives
        /\ pc \in Lists \cup {"loaded", "sort"} /\ pc' \in Lists \cup {"loaded", "sort", "refused"}
        /\ \/ error' = error
           \/ error' \in {"missing", "invalid", "repeated", "source", "full", "twins"}
        /\ pc' # "refused" => error' = error
    BY <1>1 DEF Load, LoadNext, NoPostsLst, ReadLine, TwinSlugs, ListLoaded, SkipLine,
       InvalidLine, RepeatedName, BadSource, TableFull, DraftEntry, PublishedEntry, Refuse, Lists,
       StartSort, Compare, NextOuter, loadVars
  <2>2. error = "none" /\ ~Collecting
    BY <2>1 DEF ArchivesInv, Collecting, Lists
  <2>3. ~Collecting' /\ error' # "allocate" /\ (pc' # "refused" => error' = "none")
    BY <2>1, <2>2 DEF Collecting, Lists
  <2>4. \A k \in Kinds : archives[k] = <<>>
    BY <2>2 DEF ArchivesInv
  <2> QED
    BY <2>1, <2>3, <2>4, NoArchivesYet
<1>2. CASE StartArchives
  <2>1. \A k \in Kinds : archives'[k] = <<>> /\ DOMAIN archives'[k] = {}
    BY <1>2 DEF StartArchives
  <2>2. error = "none" /\ error' = error /\ pc' = "archives"
    BY <1>2 DEF StartArchives, ArchivesInv
  <2> QED
    BY <2>1, <2>2 DEF ArchivesInv, ArchiveNamesApart, OutsOf, Collecting
<1>3. CASE LabelIsThere \/ ArchivesDone
  <2>1. /\ archives' = archives /\ table' = table /\ error' = error
        /\ pc = "archives" /\ pc' \in {"archives", "done"}
    BY <1>3 DEF LabelIsThere, ArchivesDone, AtLabel, loadVars
  <2> QED
    BY <2>1, ArchivesRest DEF ArchivesInv, Collecting
<1>4. CASE AddArchive
  <2>1. pc = "archives" /\ pc' = pc /\ error' = error
    BY <1>4 DEF AddArchive, AtLabel, loadVars
  <2>2. ArchiveNamesApart'
    BY <1>4, AddKeepsApart DEF ArchivesInv
  <2> QED
    BY <2>1, <2>2 DEF ArchivesInv, Collecting
<1>5. CASE TooManyArchives
  <2>1. /\ archives' = archives /\ table' = table /\ error' = "archives"
        /\ pc = "archives" /\ pc' = "refused"
    BY <1>5 DEF TooManyArchives, AtLabel, Refuse
  <2> QED
    BY <2>1, ArchivesRest DEF Collecting
<1>6. CASE NoNameIsFree
  <2>1. /\ archives' = archives /\ table' = table /\ error' = "allocate"
        /\ pc = "archives" /\ pc' = "refused"
        /\ \A n \in 1 .. Attempts : Conflicts(Candidate[Kind][Label][n])
    BY <1>6 DEF NoNameIsFree, AtLabel, Refuse
  <2>2. Kind \in Kinds /\ Label \in Labels
    BY <1>6, LabelIsALabel DEF NoNameIsFree
  <2>3. \E k \in Kinds, w \in Labels : \A n \in 1 .. Attempts : Conflicts(Candidate[k][w][n])
    BY <2>1, <2>2
  <2> QED
    BY <2>1, <2>3, ArchivesRest DEF Collecting
<1>7. CASE UNCHANGED vars
  BY <1>7, ArchivesRest DEF vars, loadVars, ArchivesInv, Collecting
<1> QED
  BY <1>1, <1>2, <1>3, <1>4, <1>5, <1>6, <1>7 DEF Next, SortNext, ArchivesNext

LEMMA InitArchives == Init => ArchivesInv
<1> SUFFICES ASSUME Init PROVE ArchivesInv
  OBVIOUS
<1>1. \A k \in Kinds : archives[k] = <<>> /\ DOMAIN archives[k] = {}
  BY DEF Init
<1> QED
  BY <1>1 DEF Init, LoadInit, ArchivesInv, ArchiveNamesApart, OutsOf, Collecting

(* collect_archives never gives two archives one file, nor an archive the  *)
(* file of a page, whatever the hash makes of the labels (site.c:804-853). *)
THEOREM NamesAreApart == Spec => []ArchiveNamesApart
<1>1. ArchivesInv => ArchiveNamesApart
  BY DEF ArchivesInv
<1> QED
  BY InitTypeOK, NextTypeOK, InitArchives, NextArchives, <1>1, PTL DEF Spec

(* The candidates of one label differ from each other, as the attempts of  *)
(* make_archive_output_name do (util.c:486-495, 509-531).                  *)
DistinctCandidates == \A k \in Kinds, w \in Labels : \A n, m \in 1 .. Attempts :
    Candidate[k][w][n] = Candidate[k][w][m] => n = m

LEMMA TakenIsFinite ==
    ASSUME TypeOK
    PROVE  IsFiniteSet(PageOuts \cup UNION {OutsOf(archives[k]) : k \in Kinds})
<1>1. ASSUME NEW n \in Nat, NEW f PROVE IsFiniteSet({f[i] : i \in 1 .. n})
  <2> DEFINE S == {f[i] : i \in 1 .. n}
             g == [i \in 1 .. n |-> f[i]]
  <2>1. g \in Surjection(1 .. n, S)
    BY DEF Surjection
  <2>2. IsFiniteSet(1 .. n)
    BY FS_Interval
  <2> QED
    BY <2>1, <2>2, FS_Surjection
<1>2. IsFiniteSet(PageOuts)
  <2>1. table["pages"] \in Seq(Record)
    BY DEF TypeOK, Lists
  <2>2. Len(table["pages"]) \in Nat /\ DOMAIN table["pages"] = 1 .. Len(table["pages"])
    BY <2>1
  <2> DEFINE f == [i \in DOMAIN table["pages"] |-> PageFile[table["pages"][i].name]]
  <2>3. PageOuts = {f[i] : i \in 1 .. Len(table["pages"])}
    BY <2>2 DEF PageOuts
  <2> HIDE DEF f
  <2> QED
    BY <1>1, <2>2, <2>3
<1>3. ASSUME NEW k \in Kinds PROVE IsFiniteSet(OutsOf(archives[k]))
  <2>1. archives[k] \in Seq(ArchiveRef)
    BY DEF TypeOK
  <2>2. Len(archives[k]) \in Nat /\ DOMAIN archives[k] = 1 .. Len(archives[k])
    BY <2>1
  <2> DEFINE f == [i \in DOMAIN archives[k] |-> archives[k][i].out]
  <2>3. OutsOf(archives[k]) = {f[i] : i \in 1 .. Len(archives[k])}
    BY <2>2 DEF OutsOf
  <2> HIDE DEF f
  <2> QED
    BY <1>1, <2>2, <2>3
<1>4. UNION {OutsOf(archives[k]) : k \in Kinds} = OutsOf(archives["C"]) \cup OutsOf(archives["T"])
  BY DEF Kinds
<1>5. IsFiniteSet(OutsOf(archives["C"])) /\ IsFiniteSet(OutsOf(archives["T"]))
  BY <1>3 DEF Kinds
<1> QED
  BY <1>2, <1>4, <1>5, FS_Union

LEMMA RunOut ==
    ASSUME DistinctCandidates, TypeOK, ArchivesInv
    PROVE  NamesRunOut
<1> DEFINE taken == PageOuts \cup UNION {OutsOf(archives[k]) : k \in Kinds}
<1>1. SUFFICES ASSUME error = "allocate" PROVE Cardinality(taken) >= Attempts
  BY DEF NamesRunOut
<1>2. PICK k \in Kinds, w \in Labels : \A n \in 1 .. Attempts : Conflicts(Candidate[k][w][n])
  BY <1>1 DEF ArchivesInv
<1> DEFINE f == [n \in 1 .. Attempts |-> Candidate[k][w][n]]
           tried == {f[n] : n \in 1 .. Attempts}
<1>3. tried \subseteq taken
  BY <1>2 DEF Conflicts
<1>4. f \in Injection(1 .. Attempts, tried) /\ f \in Surjection(1 .. Attempts, tried)
  BY DEF DistinctCandidates, Injection, Surjection, IsInjective
<1>5. IsFiniteSet(1 .. Attempts) /\ Cardinality(1 .. Attempts) = Attempts
  BY ArchivesAssumption, FS_Interval
<1>6. IsFiniteSet(tried) /\ Cardinality(tried) = Attempts
  BY <1>4, <1>5, FS_Surjection
<1>7. IsFiniteSet(taken)
  BY TakenIsFinite
<1>8. Cardinality(tried) <= Cardinality(taken)
  BY <1>3, <1>7, FS_Subset
<1> QED
  BY <1>6, <1>7, <1>8, FS_CardinalityType, ArchivesAssumption

(* The build is refused for want of an archive name only when as many      *)
(* names are taken as there are attempts.                                  *)
THEOREM AttemptsAreUsed == ASSUME DistinctCandidates PROVE Spec => []NamesRunOut
<1>1. TypeOK /\ ArchivesInv => NamesRunOut
  BY RunOut
<1> QED
  BY InitTypeOK, NextTypeOK, InitArchives, NextArchives, <1>1, PTL DEF Spec

-----------------------------------------------------------------------------
(* The labels of the archives.  No two archives of a kind are for one      *)
(* label, and every label that was visited has its archive.                *)
(* The label u of the post i, 0 for the category, and whether it has been  *)
(* visited.                                                                *)
LabelOf(i, u) == IF u = 0 THEN posts[i].source.category ELSE posts[i].source.tags[u]
KindOf(u) == IF u = 0 THEN "C" ELSE "T"
Visited(i, u) == i < at \/ (i = at /\ u < use)

HasOne(k, w) == \E j \in DOMAIN archives[k] : Fold[archives[k][j].label] = Fold[w]
LabelsApart == \A k \in Kinds : \A i, j \in DOMAIN archives[k] :
    Fold[archives[k][i].label] = Fold[archives[k][j].label] => i = j
VisitedHaveOne == \A i \in DOMAIN posts : \A u \in 0 .. Len(posts[i].source.tags) :
    Visited(i, u) => HasOne(KindOf(u), LabelOf(i, u))

LabelInv ==
    /\ pc \in {"archives", "done"} => LabelsApart /\ VisitedHaveOne
    /\ pc = "archives" /\ at <= Len(posts) => use <= Len(posts[at].source.tags)
    /\ pc = "done" => at > Len(posts)

LEMMA LabelsOfPosts ==
    ASSUME TypeOK
    PROVE  /\ posts \in Seq(Record)
           /\ \A i \in DOMAIN posts :
                 /\ posts[i].source.category \in Labels
                 /\ posts[i].source.tags \in Seq(Labels) /\ Len(posts[i].source.tags) \in Nat
<1>1. posts \in Seq(Record)
  BY DEF TypeOK, posts, Lists
<1>2. ASSUME NEW i \in DOMAIN posts
      PROVE  /\ posts[i].source.category \in Labels
             /\ posts[i].source.tags \in Seq(Labels) /\ Len(posts[i].source.tags) \in Nat
  <2>1. posts[i] \in Record
    BY <1>1, <1>2
  <2>2. posts[i].source \in Sources
    BY <2>1 DEF Record
  <2> QED
    BY <2>2, ArchivesAssumption
<1> QED
  BY <1>1, <1>2

(* Nothing but the label at hand is visited in a step to the next one. *)
LEMMA NextVisits ==
    ASSUME TypeOK, AtLabel, NextUse, posts' = posts,
           NEW i \in DOMAIN posts, NEW u \in 0 .. Len(posts[i].source.tags), Visited(i, u)'
    PROVE  Visited(i, u) \/ (i = at /\ u = use)
<1>1. /\ at \in Nat /\ use \in Nat /\ i \in Nat /\ u \in Nat /\ u <= Len(posts[i].source.tags)
      /\ Len(posts[i].source.tags) \in Nat
  BY LabelsOfPosts DEF TypeOK
<1>2. CASE use < Len(posts[at].source.tags)
  <2>1. at' = at /\ use' = use + 1
    BY <1>2 DEF NextUse
  <2> QED
    BY <1>1, <2>1 DEF Visited
<1>3. CASE ~(use < Len(posts[at].source.tags))
  <2>1. at' = at + 1 /\ use' = 0
    BY <1>3 DEF NextUse
  <2>2. use = Len(posts[at].source.tags)
    <3>1. use <= Len(posts[at].source.tags) /\ Len(posts[at].source.tags) \in Nat
      BY LabelIsALabel, LabelsOfPosts DEF AtLabel
    <3> QED
      BY <1>1, <1>3, <3>1
  <2> QED
    BY <1>1, <2>1, <2>2 DEF Visited
<1> QED
  BY <1>2, <1>3

LEMMA NextUseInPost ==
    ASSUME TypeOK, AtLabel, NextUse, posts' = posts
    PROVE  at' <= Len(posts') => use' <= Len(posts'[at'].source.tags)
<1>1. use \in Nat /\ at \in Nat /\ at \in DOMAIN posts /\ Len(posts[at].source.tags) \in Nat
  BY LabelIsALabel, LabelsOfPosts DEF TypeOK
<1>2. CASE use < Len(posts[at].source.tags)
  BY <1>1, <1>2 DEF NextUse
<1>3. CASE ~(use < Len(posts[at].source.tags))
  <2>1. at' = at + 1 /\ use' = 0
    BY <1>3 DEF NextUse
  <2>2. at + 1 <= Len(posts) => at + 1 \in DOMAIN posts
    BY <1>1, LabelsOfPosts
  <2>3. \A i \in DOMAIN posts : 0 <= Len(posts[i].source.tags)
    BY LabelsOfPosts
  <2> QED
    BY <2>1, <2>2, <2>3
<1> QED
  BY <1>2, <1>3

LEMMA ThereKeepsLabels == ASSUME TypeOK, LabelInv, LabelIsThere PROVE LabelInv'
<1>1. /\ AtLabel /\ NextUse /\ posts' = posts /\ archives' = archives /\ pc' = pc
      /\ pc = "archives" /\ Has(Kind, Label)
  BY DEF LabelIsThere, AtLabel, loadVars, posts
<1>2. LabelsApart'
  BY <1>1 DEF LabelInv, LabelsApart
<1>3. VisitedHaveOne'
  <2>1. SUFFICES ASSUME NEW i \in DOMAIN posts, NEW u \in 0 .. Len(posts[i].source.tags),
                        Visited(i, u)'
                 PROVE  HasOne(KindOf(u), LabelOf(i, u))
    BY <1>1 DEF VisitedHaveOne, HasOne, KindOf, LabelOf
  <2>2. Visited(i, u) \/ (i = at /\ u = use)
    BY <1>1, <2>1, NextVisits
  <2>3. CASE Visited(i, u)
    BY <1>1, <2>3 DEF LabelInv, VisitedHaveOne
  <2>4. CASE i = at /\ u = use
    BY <1>1, <2>4 DEF Has, Matches, Kind, Label, HasOne, KindOf, LabelOf
  <2> QED
    BY <2>2, <2>3, <2>4
<1>4. at' <= Len(posts') => use' <= Len(posts'[at'].source.tags)
  BY <1>1, NextUseInPost
<1> QED
  BY <1>1, <1>2, <1>3, <1>4 DEF LabelInv

LEMMA AddKeepsLabels == ASSUME TypeOK, LabelInv, AddArchive PROVE LabelInv'
<1>1. /\ AtLabel /\ NextUse /\ posts' = posts /\ pc' = pc /\ pc = "archives"
      /\ ~Has(Kind, Label) /\ Kind \in Kinds
  BY LabelIsALabel DEF AddArchive, AtLabel, loadVars, posts
<1>2. PICK n \in 1 .. Attempts :
        /\ archives'[Kind] =
              Append(archives[Kind], [label |-> Label, out |-> Candidate[Kind][Label][n]])
        /\ \A k \in Kinds \ {Kind} : archives'[k] = archives[k]
  BY AddIsTyped
<1> DEFINE K == Kind
           last == Len(archives[K]) + 1
           w == Label
<1>3. archives[K] \in Seq(ArchiveRef)
  BY <1>1 DEF TypeOK
<1>4. /\ DOMAIN archives'[K] = DOMAIN archives[K] \cup {last} /\ last \notin DOMAIN archives[K]
      /\ archives'[K][last].label = w
      /\ \A i \in DOMAIN archives[K] : archives'[K][i] = archives[K][i]
  BY <1>2, <1>3, SMTT(30)
<1>5. /\ \A i \in DOMAIN archives[K] : Fold[archives[K][i].label] # Fold[w]
      /\ \A k \in Kinds \ {K} : archives'[k] = archives[k]
      /\ K \in Kinds /\ K = KindOf(use) /\ w = LabelOf(at, use)
  BY <1>1, <1>2 DEF Has, Matches, Kind, Label, KindOf, LabelOf
<1> HIDE DEF K, last, w
<1>6. LabelsApart'
  <2>1. SUFFICES ASSUME NEW k \in Kinds, NEW i \in DOMAIN archives'[k], NEW j \in DOMAIN archives'[k],
                        Fold[archives'[k][i].label] = Fold[archives'[k][j].label]
                 PROVE  i = j
    BY DEF LabelsApart
  <2>2. LabelsApart
    BY <1>1 DEF LabelInv
  <2>3. CASE k = K
    BY <1>4, <1>5, <2>1, <2>2, <2>3 DEF LabelsApart
  <2>4. CASE k # K
    BY <1>5, <2>1, <2>2, <2>4 DEF LabelsApart
  <2> QED
    BY <2>3, <2>4
<1>7. ASSUME NEW k \in Kinds, NEW v, HasOne(k, v) PROVE HasOne(k, v)'
  <2>1. PICK j \in DOMAIN archives[k] : Fold[archives[k][j].label] = Fold[v]
    BY <1>7 DEF HasOne
  <2>2. j \in DOMAIN archives'[k] /\ archives'[k][j] = archives[k][j]
    BY <1>4, <1>5
  <2> QED
    BY <2>1, <2>2 DEF HasOne
<1>8. VisitedHaveOne'
  <2>1. SUFFICES ASSUME NEW i \in DOMAIN posts, NEW u \in 0 .. Len(posts[i].source.tags),
                        Visited(i, u)'
                 PROVE  HasOne(KindOf(u), LabelOf(i, u))'
    BY <1>1 DEF VisitedHaveOne
  <2>2. Visited(i, u) \/ (i = at /\ u = use)
    BY <1>1, <2>1, NextVisits
  <2>a. PICK k \in Kinds : k = KindOf(u)
    BY DEF KindOf, Kinds
  <2>b. PICK v : v = LabelOf(i, u)
    OBVIOUS
  <2>3. k = KindOf(u) /\ v = LabelOf(i, u)
    BY <2>a, <2>b
  <2>4. LabelOf(i, u)' = LabelOf(i, u) /\ KindOf(u)' = KindOf(u)
    BY <1>1 DEF LabelOf, KindOf
  <2>5. HasOne(k, v)'
    <3>1. CASE Visited(i, u)
      BY <1>1, <1>7, <2>3, <3>1 DEF LabelInv, VisitedHaveOne
    <3>2. CASE i = at /\ u = use
      BY <1>4, <1>5, <2>3, <3>2 DEF HasOne
    <3> QED
      BY <2>2, <3>1, <3>2
  <2> QED
    BY <2>3, <2>4, <2>5 DEF HasOne
<1>9. at' <= Len(posts') => use' <= Len(posts'[at'].source.tags)
  BY <1>1, NextUseInPost
<1> QED
  BY <1>1, <1>6, <1>8, <1>9 DEF LabelInv

LEMMA NextLabels == TypeOK /\ LabelInv /\ [Next]_vars => LabelInv'
<1> SUFFICES ASSUME TypeOK, LabelInv, [Next]_vars PROVE LabelInv'
  OBVIOUS
<1>1. CASE Load \/ StartSort \/ Compare \/ NextOuter \/ TooManyArchives \/ NoNameIsFree
  <2>1. pc' \in Lists \cup {"loaded", "sort", "refused"}
    BY <1>1 DEF Load, LoadNext, NoPostsLst, ReadLine, TwinSlugs, ListLoaded, SkipLine,
       InvalidLine, RepeatedName, BadSource, TableFull, DraftEntry, PublishedEntry, Refuse, Lists,
       StartSort, Compare, NextOuter, TooManyArchives, NoNameIsFree, loadVars
  <2> QED
    BY <2>1 DEF LabelInv, Lists
<1>2. CASE StartArchives
  <2>1. /\ \A k \in Kinds : DOMAIN archives'[k] = {}
        /\ at' = 1 /\ use' = 0 /\ pc' = "archives" /\ posts' = posts
    BY <1>2 DEF StartArchives, posts
  <2>2. ASSUME NEW i \in DOMAIN posts, NEW u \in 0 .. Len(posts[i].source.tags)
        PROVE  ~Visited(i, u)'
    <3>1. i \in Nat /\ i >= 1 /\ u \in Nat
      BY LabelsOfPosts
    <3> QED
      BY <2>1, <3>1 DEF Visited
  <2>3. LabelsApart'
    BY <2>1 DEF LabelsApart
  <2>4. VisitedHaveOne'
    BY <2>1, <2>2 DEF VisitedHaveOne
  <2>5. at' <= Len(posts') => use' <= Len(posts'[at'].source.tags)
    <3>1. 1 <= Len(posts) => 1 \in DOMAIN posts
      BY LabelsOfPosts
    <3> QED
      BY <2>1, <3>1, LabelsOfPosts
  <2> QED
    BY <2>1, <2>3, <2>4, <2>5 DEF LabelInv
<1>3. CASE LabelIsThere
  BY <1>3, ThereKeepsLabels
<1>4. CASE AddArchive
  BY <1>4, AddKeepsLabels
<1>5. CASE ArchivesDone \/ UNCHANGED vars
  <2>1. /\ posts' = posts /\ archives' = archives /\ at' = at /\ use' = use
        /\ pc' = pc \/ (pc = "archives" /\ pc' = "done" /\ at > Len(posts))
    BY <1>5 DEF ArchivesDone, vars, loadVars, posts
  <2>2. LabelsApart' <=> LabelsApart
    BY <2>1 DEF LabelsApart
  <2>3. VisitedHaveOne' <=> VisitedHaveOne
    BY <2>1 DEF VisitedHaveOne, Visited, HasOne, KindOf, LabelOf
  <2> QED
    BY <2>1, <2>2, <2>3 DEF LabelInv
<1> QED
  BY <1>1, <1>2, <1>3, <1>4, <1>5 DEF Next, SortNext, ArchivesNext

LEMMA OneEach == ASSUME TypeOK, LabelInv PROVE OneArchivePerLabel
<1> SUFFICES ASSUME pc = "done", NEW i \in DOMAIN posts
             PROVE  /\ Cardinality({j \in DOMAIN archives["C"] :
                          Fold[archives["C"][j].label] = Fold[posts[i].source.category]}) = 1
                    /\ \A u \in DOMAIN posts[i].source.tags :
                          Cardinality({j \in DOMAIN archives["T"] :
                             Fold[archives["T"][j].label] = Fold[posts[i].source.tags[u]]}) = 1
  BY DEF OneArchivePerLabel
<1>1. /\ posts \in Seq(Record) /\ i \in Nat /\ i < at /\ LabelsApart /\ VisitedHaveOne
      /\ posts[i].source.tags \in Seq(Labels) /\ Len(posts[i].source.tags) \in Nat
  BY LabelsOfPosts DEF LabelInv, TypeOK
<1>2. ASSUME NEW k \in Kinds, NEW w, HasOne(k, w)
      PROVE  Cardinality({j \in DOMAIN archives[k] : Fold[archives[k][j].label] = Fold[w]}) = 1
  <2>1. PICK j \in DOMAIN archives[k] : Fold[archives[k][j].label] = Fold[w]
    BY <1>2 DEF HasOne
  <2>2. {m \in DOMAIN archives[k] : Fold[archives[k][m].label] = Fold[w]} = {j}
    BY <1>1, <2>1 DEF LabelsApart
  <2> QED
    BY <2>2, FS_Singleton
<1>3. \A u \in 0 .. Len(posts[i].source.tags) : HasOne(KindOf(u), LabelOf(i, u))
  BY <1>1 DEF VisitedHaveOne, Visited
<1>4. HasOne("C", posts[i].source.category)
  BY <1>1, <1>3 DEF KindOf, LabelOf
<1>5. ASSUME NEW u \in DOMAIN posts[i].source.tags PROVE HasOne("T", posts[i].source.tags[u])
  <2>1. u \in 0 .. Len(posts[i].source.tags) /\ u # 0
    BY <1>1
  <2> QED
    BY <1>3, <2>1 DEF KindOf, LabelOf
<1> QED
  BY <1>2, <1>4, <1>5 DEF Kinds

(* When collect_archives is done, every category and every tag of a post   *)
(* has one archive and no more, whatever the labels and their spellings    *)
(* (site.c:866-891).                                                       *)
THEOREM LabelsHaveArchives == Spec => []OneArchivePerLabel
<1>1. Init => LabelInv
  BY DEF Init, LoadInit, LabelInv
<1>2. TypeOK /\ LabelInv => OneArchivePerLabel
  BY OneEach
<1> QED
  BY InitTypeOK, NextTypeOK, NextLabels, <1>1, <1>2, PTL DEF Spec

-----------------------------------------------------------------------------
(* The loader: what the tables have to do with the lines of the lists.     *)

(* The record that stands for the line k, and the names before it. *)
EntryOf(l, k) == IF l = "posts" THEN Post(lines[l][k], Rank(l, k)) ELSE Page(lines[l][k])
NamesBefore(l, k) == {lines[l][m] : m \in {n \in Entry(l) : n < k}}

(* A table that is not sorted yet has the published entries in their       *)
(* order.                                                                  *)
InOrder(l) ==
    /\ Len(table[l]) = Cardinality(Published(l))
    /\ \A k \in Published(l) :
          Rank(l, k) \in DOMAIN table[l] /\ table[l][Rank(l, k)] = EntryOf(l, k)
    /\ \A i \in DOMAIN table[l] : \E k \in Published(l) : i = Rank(l, k)

(* What the names of the list that is read have to do with its lines. *)
SeenInv(l) ==
    /\ \A i, j \in DOMAIN seen : seen[i] = seen[j] => i = j
    /\ \A i \in DOMAIN seen : \E k \in Entry(l) : seen[i] = lines[l][k]
    /\ Len(seen) = Remembered \/ \A k \in Entry(l) : Known(lines[l][k])

(* A name that repeats was forgotten, for want of room. *)
Forgotten(l) == \A j, k \in Entry(l) :
    j < k /\ lines[l][j] = lines[l][k] => Cardinality(NamesBefore(l, k)) > Remembered

OnceOnly(l) == \A j, k \in Published(l) : lines[l][j] = lines[l][k] => j = k

PostsNumbered ==
    /\ Len(posts) = Cardinality(Published("posts"))
    /\ {posts[i] : i \in DOMAIN posts} = {EntryOf("posts", k) : k \in Published("posts")}

Unsorted == Lists \cup {"loaded"}

LoadInv == pc # "refused" =>
    /\ \A l \in Lists : Forgotten(l)
    /\ \A l \in Lists : pc = l => SeenInv(l)
    /\ InOrder("pages")
    /\ pc \in Unsorted => InOrder("posts")
    /\ pc \notin Unsorted => PostsNumbered
    /\ pc = "posts" => lines["pages"] = <<>>
    /\ pc # "posts" => OnceOnly("posts")
    /\ pc \notin Lists => OnceOnly("pages")

LEMMA LineFacts ==
    ASSUME TypeOK, NEW l \in Lists
    PROVE  /\ Len(lines[l]) \in Nat /\ DOMAIN lines[l] = 1 .. Len(lines[l])
           /\ Entry(l) \subseteq DOMAIN lines[l] /\ Published(l) \subseteq Entry(l)
           /\ IsFiniteSet(Entry(l)) /\ IsFiniteSet(Published(l))
           /\ Cardinality(Published(l)) \in Nat
<1>1. lines[l] \in Seq(Names \cup {Skipped, Invalid})
  BY DEF TypeOK
<1>2. Len(lines[l]) \in Nat /\ DOMAIN lines[l] = 1 .. Len(lines[l])
  BY <1>1
<1>3. Entry(l) \subseteq DOMAIN lines[l] /\ Published(l) \subseteq Entry(l)
  BY DEF Entry, Published
<1>4. IsFiniteSet(1 .. Len(lines[l]))
  <2>1. \A n \in Nat : IsFiniteSet(1 .. n)
    BY FS_Interval
  <2> QED
    BY <1>2, <2>1
<1>5. IsFiniteSet(Entry(l)) /\ IsFiniteSet(Published(l))
  BY <1>2, <1>3, <1>4, FS_Subset
<1> QED
  BY <1>2, <1>3, <1>5, FS_CardinalityType

(* A line is added: it is an entry, or a published one, or neither. *)
LEMMA LineAdded ==
    ASSUME TypeOK, NEW l \in Lists, NEW n \in Names \cup {Skipped, Invalid}, Took(l, n),
           sources' = sources, NEW K, K = Len(lines[l]) + 1
    PROVE  /\ K \in Nat /\ K \notin Entry(l) /\ \A k \in Entry(l) : k \in Nat /\ k < K
           /\ lines'[l][K] = n /\ \A k \in DOMAIN lines[l] : lines'[l][k] = lines[l][k]
           /\ Entry(l)' = IF n \in Names THEN Entry(l) \cup {K} ELSE Entry(l)
           /\ Published(l)' = IF n \in Names /\ ~sources[l][n].draft
                              THEN Published(l) \cup {K} ELSE Published(l)
           /\ \A m \in Lists \ {l} : lines'[m] = lines[m]
<1>1. lines[l] \in Seq(Names \cup {Skipped, Invalid}) /\ Len(lines[l]) \in Nat
      /\ DOMAIN lines[l] = 1 .. Len(lines[l])
  BY LineFacts DEF TypeOK
<1>2. /\ lines'[l] = Append(lines[l], n)
      /\ \A m \in Lists \ {l} : lines'[m] = lines[m]
  BY DEF Took, TypeOK
<1>3. /\ DOMAIN lines'[l] = DOMAIN lines[l] \cup {K} /\ K \notin DOMAIN lines[l]
      /\ lines'[l][K] = n /\ \A k \in DOMAIN lines[l] : lines'[l][k] = lines[l][k]
  BY <1>1, <1>2
<1>4. K \in Nat /\ \A k \in DOMAIN lines[l] : k \in Nat /\ k < K
  BY <1>1
<1>5. Entry(l)' = IF n \in Names THEN Entry(l) \cup {K} ELSE Entry(l)
  BY <1>3 DEF Entry
<1>6. Published(l)' = IF n \in Names /\ ~sources[l][n].draft
                      THEN Published(l) \cup {K} ELSE Published(l)
  <2>1. \A k \in DOMAIN lines[l] : Source(l, k)' = Source(l, k)
    BY <1>3 DEF Source
  <2>2. Source(l, K)' = sources[l][n]
    BY <1>3 DEF Source
  <2>3. Entry(l) \subseteq DOMAIN lines[l]
    BY LineFacts
  <2> QED
    BY <1>3, <1>5, <2>1, <2>2, <2>3 DEF Published
<1> QED
  BY <1>2, <1>3, <1>4, <1>5, <1>6, LineFacts

(* What is before a line does not change with what is added behind it. *)
LEMMA RanksStay ==
    ASSUME TypeOK, NEW l \in Lists, NEW n \in Names \cup {Skipped, Invalid}, Took(l, n),
           sources' = sources
    PROVE  /\ \A k \in Published(l) : Rank(l, k)' = Rank(l, k)
           /\ \A k \in Entry(l) : NamesBefore(l, k)' = NamesBefore(l, k)
<1> DEFINE K == Len(lines[l]) + 1
<1>1. /\ K \in Nat /\ \A k \in Entry(l) : k \in Nat /\ k < K
      /\ \A k \in DOMAIN lines[l] : lines'[l][k] = lines[l][k]
      /\ Entry(l)' \subseteq Entry(l) \cup {K} /\ Entry(l) \subseteq Entry(l)'
      /\ Published(l)' \subseteq Published(l) \cup {K} /\ Published(l) \subseteq Published(l)'
      /\ Published(l) \subseteq Entry(l) /\ Entry(l) \subseteq DOMAIN lines[l]
  BY LineAdded, LineFacts
<1> HIDE DEF K
<1>2. ASSUME NEW k \in Entry(l)
      PROVE  /\ {m \in Published(l)' : m <= k} = {m \in Published(l) : m <= k}
             /\ {m \in Entry(l)' : m < k} = {m \in Entry(l) : m < k}
  <2>1. k \in Nat /\ ~(K <= k) /\ ~(K < k)
    BY <1>1
  <2> QED
    BY <1>1, <2>1
<1>3. \A k \in Published(l) : Rank(l, k)' = Rank(l, k)
  BY <1>1, <1>2 DEF Rank
<1>4. ASSUME NEW k \in Entry(l) PROVE NamesBefore(l, k)' = NamesBefore(l, k)
  BY <1>1, <1>2 DEF NamesBefore
<1> QED
  BY <1>3, <1>4

(* The ranks of the published lines. *)
LEMMA RankFacts ==
    ASSUME TypeOK, NEW l \in Lists, NEW k \in Published(l)
    PROVE  /\ Rank(l, k) \in Nat
           /\ \A j \in Published(l) : j < k => Rank(l, j) < Rank(l, k)
<1>1. IsFiniteSet({m \in Published(l) : m <= k})
  BY LineFacts, FS_Subset
<1>2. Rank(l, k) \in Nat
  BY <1>1, FS_CardinalityType DEF Rank
<1>3. ASSUME NEW j \in Published(l), j < k PROVE Rank(l, j) < Rank(l, k)
  <2>1. \A m \in Published(l) : m \in Nat
    BY LineFacts
  <2>2. {m \in Published(l) : m <= j} \subseteq {m \in Published(l) : m <= k}
    BY <1>3, <2>1
  <2>3. k \in {m \in Published(l) : m <= k} /\ k \notin {m \in Published(l) : m <= j}
    BY <1>3, <2>1
  <2>4. {m \in Published(l) : m <= j} # {m \in Published(l) : m <= k}
    BY <2>3
  <2>5. Cardinality({m \in Published(l) : m <= j}) < Cardinality({m \in Published(l) : m <= k})
    <3>1. ASSUME NEW S, NEW T, IsFiniteSet(S), T \subseteq S, T # S
          PROVE  Cardinality(T) < Cardinality(S)
      <4>1. /\ Cardinality(T) \in Nat /\ Cardinality(S) \in Nat
            /\ Cardinality(T) <= Cardinality(S) /\ Cardinality(S) # Cardinality(T)
        BY <3>1, FS_Subset, FS_CardinalityType
      <4> QED
        BY <4>1
    <3> QED
      BY <1>1, <2>2, <2>4, <3>1
  <2> QED
    BY <2>5 DEF Rank
<1> QED
  BY <1>2, <1>3

LEMMA SameLines ==
    ASSUME NEW l \in Lists, lines'[l] = lines[l], sources' = sources
    PROVE  /\ Entry(l)' = Entry(l) /\ Published(l)' = Published(l)
           /\ \A k : EntryOf(l, k)' = EntryOf(l, k) /\ Rank(l, k)' = Rank(l, k)
           /\ Forgotten(l) => Forgotten(l)'
           /\ OnceOnly(l) => OnceOnly(l)'
           /\ table'[l] = table[l] /\ InOrder(l) => InOrder(l)'
<1>1. Entry(l)' = Entry(l)
  BY DEF Entry
<1>2. Published(l)' = Published(l)
  BY <1>1 DEF Published, Source
<1>3. \A k : Rank(l, k)' = Rank(l, k)
  BY <1>2 DEF Rank
<1>4. \A k : EntryOf(l, k)' = EntryOf(l, k)
  BY <1>3 DEF EntryOf, Post, Page
<1>5. \A k : NamesBefore(l, k)' = NamesBefore(l, k)
  BY <1>1 DEF NamesBefore
<1>6. Forgotten(l) => Forgotten(l)'
  BY <1>1, <1>5 DEF Forgotten
<1>7. OnceOnly(l) => OnceOnly(l)'
  BY <1>2 DEF OnceOnly
<1>8. table'[l] = table[l] /\ InOrder(l) => InOrder(l)'
  BY <1>2, <1>3, <1>4 DEF InOrder
<1> QED
  BY <1>1, <1>2, <1>3, <1>4, <1>6, <1>7, <1>8

(* An entry that is not published leaves the table in order. *)
LEMMA PassedOver ==
    ASSUME TypeOK, NEW l \in Lists, NEW n \in Names \cup {Skipped, Invalid}, Took(l, n),
           sources' = sources, table' = table, n \in Names => sources[l][n].draft, InOrder(l)
    PROVE  InOrder(l)'
<1>1. Published(l)' = Published(l)
  BY LineAdded
<1>2. \A k \in Published(l) : Rank(l, k)' = Rank(l, k) /\ lines'[l][k] = lines[l][k]
  BY RanksStay, LineAdded, LineFacts
<1>3. \A k \in Published(l) : EntryOf(l, k)' = EntryOf(l, k)
  BY <1>2 DEF EntryOf, Post, Page
<1> QED
  BY <1>1, <1>2, <1>3 DEF InOrder

(* A published one becomes the last of its table. *)
LEMMA PutLast ==
    ASSUME TypeOK, NEW l \in Lists, NEW n \in Names, Took(l, n), Filed(l, n),
           sources' = sources, sources[l][n] # Refused, ~sources[l][n].draft, InOrder(l)
    PROVE  InOrder(l)'
<1> SUFFICES ASSUME NEW K, K = Len(lines[l]) + 1 PROVE InOrder(l)'
  OBVIOUS
<1> DEFINE N == Len(table[l]) + 1
           r == IF l = "posts" THEN Post(n, N) ELSE Page(n)
<1>1. /\ K \in Nat /\ K \notin Published(l) /\ lines'[l][K] = n
      /\ \A k \in Published(l) : k \in Nat /\ k < K /\ lines'[l][k] = lines[l][k]
      /\ Published(l)' = Published(l) \cup {K}
  BY LineAdded, LineFacts
<1>2. table[l] \in Seq(Record) /\ N \in Nat /\ N = Cardinality(Published(l)) + 1
  BY DEF TypeOK, InOrder
<1>3. table'[l] = Append(table[l], r)
  BY DEF Filed, TypeOK
<1> HIDE DEF r
<1>4. /\ DOMAIN table'[l] = DOMAIN table[l] \cup {N} /\ Len(table'[l]) = N
      /\ table'[l][N] = r /\ \A i \in DOMAIN table[l] : table'[l][i] = table[l][i]
  BY <1>2, <1>3
<1>5. Cardinality(Published(l) \cup {K}) = N
  BY <1>1, <1>2, LineFacts, FS_AddElement
<1> HIDE DEF N
<1>6. Rank(l, K)' = N
  <2>1. {m \in Published(l)' : m <= K} = Published(l) \cup {K}
    BY <1>1
  <2> QED
    BY <1>5, <2>1 DEF Rank
<1>7. \A k \in Published(l) : Rank(l, k)' = Rank(l, k)
  BY RanksStay
<1>8. \A k \in Published(l) : EntryOf(l, k)' = EntryOf(l, k)
  BY <1>1, <1>7 DEF EntryOf, Post, Page
<1>9. EntryOf(l, K)' = r
  BY <1>1, <1>6 DEF EntryOf, Post, Page, r
<1> QED
  BY <1>1, <1>4, <1>5, <1>6, <1>7, <1>8, <1>9 DEF InOrder

(* What was remembered is among the names before; a name that was read and *)
(* is not remembered is one more.                                          *)
LEMMA RepeatIsForgotten ==
    ASSUME TypeOK, NEW l \in Lists, NEW n \in Names, Took(l, n), sources' = sources,
           SeenInv(l), ~Known(n), Forgotten(l)
    PROVE  Forgotten(l)'
<1> SUFFICES ASSUME NEW K, K = Len(lines[l]) + 1 PROVE Forgotten(l)'
  OBVIOUS
<1>1. /\ K \in Nat /\ K \notin Entry(l) /\ lines'[l][K] = n
      /\ \A k \in Entry(l) : k \in Nat /\ k < K /\ lines'[l][k] = lines[l][k]
      /\ Entry(l)' = Entry(l) \cup {K}
  BY LineAdded, LineFacts
<1>2. \A k \in Entry(l) : NamesBefore(l, k)' = NamesBefore(l, k)
  BY RanksStay
<1>3. ASSUME NEW j \in Entry(l), lines[l][j] = n PROVE Cardinality(NamesBefore(l, K))' > Remembered
  <2> DEFINE All == {lines[l][m] : m \in Entry(l)}
             S == {seen[i] : i \in DOMAIN seen}
  <2>1. NamesBefore(l, K)' = All
    <3>1. {m \in Entry(l)' : m < K} = Entry(l)
      BY <1>1
    <3> QED
      BY <1>1, <3>1 DEF NamesBefore
  <2>2. IsFiniteSet(All)
    <3> DEFINE f == [m \in Entry(l) |-> lines[l][m]]
    <3>1. f \in Surjection(Entry(l), All)
      BY DEF Surjection
    <3> QED
      BY <3>1, LineFacts, FS_Surjection
  <2>3. Len(seen) = Remembered /\ Remembered \in Nat /\ DOMAIN seen = 1 .. Remembered
    <3>1. Len(seen) = Remembered
      BY <1>3 DEF SeenInv
    <3>2. Remembered \in Nat
      BY CapsAssumption DEF Remembered
    <3> QED
      BY <3>1, <3>2 DEF TypeOK
  <2>4. S \subseteq All \ {n} /\ n \in All
    BY <1>3 DEF SeenInv, Known
  <2>5. IsFiniteSet(S) /\ Cardinality(S) = Remembered
    <3>1. seen \in Bijection(DOMAIN seen, S)
      <4>1. seen = [i \in DOMAIN seen |-> seen[i]]
        BY DEF TypeOK
      <4> QED
        BY <4>1 DEF Bijection, Injection, Surjection, IsInjective, SeenInv
    <3>2. \A m \in Nat : IsFiniteSet(1 .. m) /\ Cardinality(1 .. m) = m
      BY FS_Interval
    <3>3. IsFiniteSet(DOMAIN seen) /\ Cardinality(DOMAIN seen) = Remembered
      BY <2>3, <3>2
    <3> HIDE DEF S
    <3> QED
      BY <3>1, <3>3, FS_Surjection DEF Bijection
  <2> HIDE DEF All, S
  <2>6. IsFiniteSet(All \ {n}) /\ Cardinality(All \ {n}) = Cardinality(All) - 1
    BY <2>2, <2>4, FS_RemoveElement
  <2>7. Cardinality(S) <= Cardinality(All \ {n})
    BY <2>4, <2>6, FS_Subset
  <2>8. Cardinality(All) \in Nat
    BY <2>2, FS_CardinalityType
  <2> QED
    BY <2>1, <2>3, <2>5, <2>6, <2>7, <2>8
<1>4. SUFFICES ASSUME NEW j \in Entry(l)', NEW k \in Entry(l)', j < k, lines'[l][j] = lines'[l][k]
               PROVE  Cardinality(NamesBefore(l, k))' > Remembered
  BY DEF Forgotten
<1>5. CASE k = K
  <2>1. j \in Entry(l)
    BY <1>1, <1>4, <1>5
  <2> QED
    BY <1>1, <1>3, <1>4, <1>5, <2>1
<1>6. CASE k # K
  <2>1. k \in Entry(l) /\ j \in Entry(l)
    BY <1>1, <1>4, <1>6
  <2> QED
    BY <1>1, <1>2, <1>4, <2>1 DEF Forgotten
<1> QED
  BY <1>5, <1>6

LEMMA RememberKeeps ==
    ASSUME TypeOK, NEW l \in Lists, NEW n \in Names, Took(l, n), Remember(l, n),
           sources' = sources, SeenInv(l), ~Known(n)
    PROVE  SeenInv(l)'
<1> SUFFICES ASSUME NEW K, K = Len(lines[l]) + 1 PROVE SeenInv(l)'
  OBVIOUS
<1>1. /\ lines'[l][K] = n /\ Entry(l)' = Entry(l) \cup {K}
      /\ \A k \in Entry(l) : lines'[l][k] = lines[l][k]
  BY LineAdded, LineFacts
<1>2. seen \in Seq(Names) /\ Len(seen) <= Remembered /\ Remembered \in Nat /\ Len(seen) \in Nat
  BY CapsAssumption DEF TypeOK, Remembered
<1>3. CASE Len(seen) < Remembered
  <2>1. seen' = Append(seen, n) /\ Len(seen) # Remembered
    BY <1>2, <1>3 DEF Remember
  <2> DEFINE last == Len(seen) + 1
  <2>2. /\ DOMAIN seen' = DOMAIN seen \cup {last} /\ last \notin DOMAIN seen
        /\ seen'[last] = n /\ \A i \in DOMAIN seen : seen'[i] = seen[i]
    BY <1>2, <2>1
  <2> HIDE DEF last
  <2>3. \A i \in DOMAIN seen : seen[i] # n
    BY DEF Known
  <2>4. \A i, j \in DOMAIN seen' : seen'[i] = seen'[j] => i = j
    BY <2>2, <2>3 DEF SeenInv
  <2>5. \A i \in DOMAIN seen' : \E k \in Entry(l)' : seen'[i] = lines'[l][k]
    BY <1>1, <2>2 DEF SeenInv
  <2>6. \A k \in Entry(l)' : Known(lines[l][k])'
    <3>1. \A k \in Entry(l) : Known(lines[l][k])
      BY <2>1 DEF SeenInv
    <3> QED
      BY <1>1, <2>2, <3>1 DEF Known
  <2> QED
    BY <2>4, <2>5, <2>6 DEF SeenInv
<1>4. CASE ~(Len(seen) < Remembered)
  <2>1. seen' = seen /\ Len(seen) = Remembered
    BY <1>2, <1>4 DEF Remember
  <2> QED
    BY <1>1, <2>1 DEF SeenInv
<1> QED
  BY <1>3, <1>4

(* A list none of whose records share a name has no published name twice. *)
LEMMA NoTwinsOnceOnly ==
    ASSUME TypeOK, NEW l \in Lists, InOrder(l), ~Twins(l)
    PROVE  OnceOnly(l)
<1>1. ASSUME NEW j \in Published(l), NEW k \in Published(l), j < k PROVE lines[l][j] # lines[l][k]
  <2>1. Rank(l, j) < Rank(l, k)
    BY <1>1, RankFacts
  <2>2. /\ Rank(l, j) \in DOMAIN table[l] /\ Rank(l, k) \in DOMAIN table[l]
        /\ table[l][Rank(l, j)] = EntryOf(l, j) /\ table[l][Rank(l, k)] = EntryOf(l, k)
    BY DEF InOrder
  <2>3. EntryOf(l, j).name = lines[l][j] /\ EntryOf(l, k).name = lines[l][k]
    BY DEF EntryOf, Post, Page
  <2> QED
    BY <2>1, <2>2, <2>3 DEF Twins
<1>2. \A k \in Published(l) : k \in Nat
  BY LineFacts
<1> QED
  BY <1>1, <1>2 DEF OnceOnly

LEMMA InOrderIsNumbered == ASSUME InOrder("posts") PROVE PostsNumbered
<1>1. /\ Len(posts) = Cardinality(Published("posts"))
      /\ \A k \in Published("posts") : \E i \in DOMAIN posts : posts[i] = EntryOf("posts", k)
      /\ \A i \in DOMAIN posts : \E k \in Published("posts") : posts[i] = EntryOf("posts", k)
  BY DEF InOrder, posts
<1> QED
  BY <1>1 DEF PostsNumbered

(* An exchange leaves the same records. *)
LEMMA CompareKeepsPosts ==
    ASSUME TypeOK, Compare
    PROVE  /\ Len(posts') = Len(posts) /\ table'["pages"] = table["pages"]
           /\ {posts'[i] : i \in DOMAIN posts'} = {posts[i] : i \in DOMAIN posts}
<1>1. inner \in DOMAIN posts /\ outer \in DOMAIN posts
  BY DatesAreNumbers DEF Compare, TypeOK
<1>2. posts' = IF Date(inner) > Date(outer) THEN Swapped ELSE posts
  BY CompareIsTyped
<1>3. /\ Swapped = [i \in DOMAIN posts |->
                      IF i = inner THEN posts[outer]
                      ELSE IF i = outer THEN posts[inner] ELSE posts[i]]
      /\ Len(Swapped) = Len(posts)
  BY <1>1, SwapIsTyped
<1>4. table'["pages"] = table["pages"]
  BY DEF Compare, TypeOK, Lists
<1>5. {Swapped[i] : i \in DOMAIN Swapped} = {posts[i] : i \in DOMAIN posts}
  <2>1. \A i \in DOMAIN Swapped : \E j \in DOMAIN posts : Swapped[i] = posts[j]
    BY <1>1, <1>3
  <2>2. \A j \in DOMAIN posts : \E i \in DOMAIN Swapped : Swapped[i] = posts[j]
    <3>1. SUFFICES ASSUME NEW j \in DOMAIN posts PROVE \E i \in DOMAIN Swapped : Swapped[i] = posts[j]
      OBVIOUS
    <3>2. CASE j = outer
      BY <1>1, <1>3, <3>2
    <3>3. CASE j = inner /\ j # outer
      BY <1>1, <1>3, <3>3
    <3>4. CASE j # inner /\ j # outer
      BY <1>3, <3>4
    <3> QED
      BY <3>2, <3>3, <3>4
  <2> QED
    BY <2>1, <2>2
<1> QED
  BY <1>2, <1>3, <1>4, <1>5, ZenonT(60)

LEMMA ReadKeepsLoad ==
    ASSUME TypeOK, LoadInv, NEW l \in Lists, ReadLine(l)
    PROVE  LoadInv'
<1> SUFFICES ASSUME pc' # "refused" PROVE LoadInv'
  BY DEF LoadInv
<1>1. /\ pc = l /\ pc' = l /\ sources' = sources /\ l # "refused" /\ l \in Unsorted
      /\ \E n \in Names \cup {Skipped, Invalid} :
            /\ Took(l, n)
            /\ \/ n \notin Names /\ table' = table /\ seen' = seen
               \/ n \in Names /\ ~Known(n) /\ sources[l][n] # Refused /\ Remember(l, n)
                  /\ \/ sources[l][n].draft /\ table' = table
                     \/ ~sources[l][n].draft /\ Filed(l, n)
  BY LinesAssumption DEF ReadLine, SkipLine, InvalidLine, RepeatedName, BadSource, TableFull,
     DraftEntry, PublishedEntry, Refuse, Lists, Unsorted
<1>2. PICK n \in Names \cup {Skipped, Invalid} :
            /\ Took(l, n)
            /\ \/ n \notin Names /\ table' = table /\ seen' = seen
               \/ n \in Names /\ ~Known(n) /\ sources[l][n] # Refused /\ Remember(l, n)
                  /\ \/ sources[l][n].draft /\ table' = table
                     \/ ~sources[l][n].draft /\ Filed(l, n)
  BY <1>1
<1>3. \A m \in Lists \ {l} : lines'[m] = lines[m] /\ table'[m] = table[m]
  <2>1. \A m \in Lists \ {l} : lines'[m] = lines[m]
    BY <1>1, <1>2, LineAdded
  <2>2. Filed(l, n) => \A m \in Lists \ {l} : table'[m] = table[m]
    BY DEF Filed, TypeOK
  <2> QED
    BY <1>2, <2>1, <2>2
<1>4. Forgotten(l) /\ SeenInv(l) /\ InOrder(l)
  BY <1>1 DEF LoadInv, Lists
<1>5. Forgotten(l)' /\ SeenInv(l)'
  <2>1. CASE n \in Names
    BY <1>1, <1>2, <1>4, <2>1, RepeatIsForgotten, RememberKeeps
  <2>2. CASE n \notin Names
    <3>1. /\ Entry(l)' = Entry(l) /\ seen' = seen
          /\ \A k \in Entry(l) : lines'[l][k] = lines[l][k]
          /\ \A k \in Entry(l) : NamesBefore(l, k)' = NamesBefore(l, k)
      BY <1>1, <1>2, <2>2, LineAdded, LineFacts, RanksStay
    <3>2. Forgotten(l)'
      BY <1>4, <3>1 DEF Forgotten
    <3>3. SeenInv(l)'
      BY <1>4, <3>1 DEF SeenInv, Known
    <3> QED
      BY <3>2, <3>3
  <2> QED
    BY <2>1, <2>2
<1>6. InOrder(l)'
  <2>1. CASE n \in Names /\ ~sources[l][n].draft
    BY <1>1, <1>2, <1>4, <2>1, PutLast
  <2>2. CASE n \in Names => sources[l][n].draft
    BY <1>1, <1>2, <1>4, <2>2, PassedOver
  <2> QED
    BY <2>1, <2>2
<1>7. ASSUME NEW m \in Lists \ {l}
      PROVE  /\ Forgotten(m) => Forgotten(m)'
             /\ OnceOnly(m) => OnceOnly(m)'
             /\ InOrder(m) => InOrder(m)'
  BY <1>1, <1>3, SameLines
<1>8. CASE l = "posts"
  <2>1. Forgotten("pages") /\ InOrder("pages") /\ lines["pages"] = <<>> /\ "pages" \in Lists \ {l}
    BY <1>1, <1>8 DEF LoadInv, Lists
  <2>2. Forgotten("pages")' /\ InOrder("pages")' /\ lines'["pages"] = <<>>
    BY <1>3, <1>7, <2>1
  <2> QED
    BY <1>1, <1>5, <1>6, <1>8, <2>2 DEF LoadInv, Lists, Unsorted
<1>9. CASE l = "pages"
  <2>1. Forgotten("posts") /\ InOrder("posts") /\ OnceOnly("posts") /\ "posts" \in Lists \ {l}
    BY <1>1, <1>9 DEF LoadInv, Lists
  <2>2. Forgotten("posts")' /\ InOrder("posts")' /\ OnceOnly("posts")'
    BY <1>7, <2>1
  <2> QED
    BY <1>1, <1>5, <1>6, <1>9, <2>2 DEF LoadInv, Lists, Unsorted
<1> QED
  BY <1>8, <1>9 DEF Lists

LEMMA LoadedKeepsLoad ==
    ASSUME TypeOK, LoadInv, NEW l \in Lists, ListLoaded(l)
    PROVE  LoadInv'
<1>1. /\ pc = l /\ ~Twins(l) /\ seen' = <<>> /\ lines' = lines /\ sources' = sources
      /\ table' = table /\ pc' = (IF l = "posts" THEN "pages" ELSE "loaded") /\ l # "refused"
  BY DEF ListLoaded, Lists
<1>2. ASSUME NEW m \in Lists
      PROVE  /\ Forgotten(m) => Forgotten(m)'
             /\ OnceOnly(m) => OnceOnly(m)'
             /\ InOrder(m) => InOrder(m)'
  BY <1>1, SameLines
<1>3. InOrder(l) /\ InOrder("pages") /\ InOrder("posts") /\ \A m \in Lists : Forgotten(m)
  BY <1>1 DEF LoadInv, Lists, Unsorted
<1>4. OnceOnly(l)
  BY <1>1, <1>3, NoTwinsOnceOnly
<1>5. OnceOnly("posts")
  BY <1>1, <1>4 DEF LoadInv, Lists
<1>6. InOrder("pages")' /\ InOrder("posts")' /\ (\A m \in Lists : Forgotten(m)') /\ OnceOnly("posts")'
  BY <1>2, <1>3, <1>5 DEF Lists
<1>7. CASE l = "posts"
  <2>1. lines'["pages"] = <<>> /\ DOMAIN seen' = {}
    BY <1>1, <1>7 DEF LoadInv
  <2>2. Entry("pages")' = {}
    BY <2>1 DEF Entry
  <2>3. SeenInv("pages")'
    BY <2>1, <2>2 DEF SeenInv
  <2> QED
    BY <1>1, <1>6, <1>7, <2>3 DEF LoadInv, Lists, Unsorted
<1>8. CASE l = "pages"
  <2>1. OnceOnly("pages")'
    BY <1>2, <1>4, <1>8
  <2> QED
    BY <1>1, <1>6, <1>8, <2>1 DEF LoadInv, Lists, Unsorted
<1> QED
  BY <1>7, <1>8 DEF Lists

(* After the loader the lines rest, and so do the pages; the posts may     *)
(* change their places.                                                    *)
LEMMA SortedKeepsLoad ==
    ASSUME TypeOK, LoadInv, lines' = lines, sources' = sources,
           table'["pages"] = table["pages"], Len(posts') = Len(posts),
           {posts'[i] : i \in DOMAIN posts'} = {posts[i] : i \in DOMAIN posts},
           pc \notin Lists, pc # "refused", pc' \notin Unsorted, pc' # "refused"
    PROVE  LoadInv'
<1>1. ASSUME NEW m \in Lists
      PROVE  /\ Forgotten(m) => Forgotten(m)'
             /\ OnceOnly(m) => OnceOnly(m)'
             /\ table'[m] = table[m] /\ InOrder(m) => InOrder(m)'
             /\ Published(m)' = Published(m) /\ \A k : EntryOf(m, k)' = EntryOf(m, k)
  BY SameLines
<1>2. PostsNumbered
  BY InOrderIsNumbered DEF LoadInv
<1>3. PostsNumbered'
  <2>1. Published("posts")' = Published("posts") /\ \A k : EntryOf("posts", k)' = EntryOf("posts", k)
    BY <1>1 DEF Lists
  <2> QED
    BY <1>2, <2>1, ZenonT(60) DEF PostsNumbered
<1>4. /\ \A m \in Lists : Forgotten(m)' /\ OnceOnly(m)'
      /\ InOrder("pages")'
  BY <1>1 DEF LoadInv, Lists
<1>5. pc' \notin Lists /\ pc' # "posts"
  BY DEF Unsorted, Lists
<1>6. "posts" \in Lists /\ "pages" \in Lists
  BY DEF Lists
<1> QED
  BY <1>3, <1>4, <1>5, <1>6 DEF LoadInv

LEMMA NextLoads == TypeOK /\ LoadInv /\ [Next]_vars => LoadInv'
<1> SUFFICES ASSUME TypeOK, LoadInv, [Next]_vars, pc' # "refused" PROVE LoadInv'
  BY DEF LoadInv
<1>1. CASE Load
  <2>1. CASE NoPostsLst \/ \E l \in Lists : TwinSlugs(l)
    BY <2>1 DEF NoPostsLst, TwinSlugs, Refuse
  <2>2. ASSUME NEW l \in Lists, ReadLine(l) PROVE LoadInv'
    BY <2>2, ReadKeepsLoad
  <2>3. ASSUME NEW l \in Lists, ListLoaded(l) PROVE LoadInv'
    BY <2>3, LoadedKeepsLoad
  <2> QED
    BY <1>1, <2>1, <2>2, <2>3 DEF Load, LoadNext
<1>2. CASE Compare
  <2>1. lines' = lines /\ sources' = sources /\ pc = "sort" /\ pc' = "sort"
    BY <1>2 DEF Compare
  <2> QED
    BY <1>2, <2>1, CompareKeepsPosts, SortedKeepsLoad DEF Unsorted, Lists
<1>3. CASE \/ StartSort \/ NextOuter \/ StartArchives \/ LabelIsThere \/ AddArchive \/ ArchivesDone
  <2>1. /\ lines' = lines /\ sources' = sources /\ table' = table
        /\ pc \in {"loaded", "sort", "archives"} /\ pc' \in {"sort", "archives", "done"}
    BY <1>3 DEF StartSort, NextOuter, StartArchives, LabelIsThere, AddArchive, ArchivesDone,
       AtLabel, loadVars
  <2>2. posts' = posts
    BY <2>1 DEF posts
  <2> QED
    BY <2>1, <2>2, SortedKeepsLoad DEF Unsorted, Lists
<1>4. CASE TooManyArchives \/ NoNameIsFree
  BY <1>4 DEF TooManyArchives, NoNameIsFree, Refuse
<1>5. CASE UNCHANGED vars
  <2>1. /\ lines' = lines /\ sources' = sources /\ table' = table /\ seen' = seen /\ pc' = pc
    BY <1>5 DEF vars, loadVars
  <2>2. ASSUME NEW m \in Lists
        PROVE  /\ Forgotten(m) => Forgotten(m)'
               /\ OnceOnly(m) => OnceOnly(m)'
               /\ InOrder(m) => InOrder(m)'
               /\ SeenInv(m) => SeenInv(m)'
    <3>1. Entry(m)' = Entry(m)
      BY <2>1, SameLines
    <3> QED
      BY <2>1, <3>1, SameLines DEF SeenInv, Known
  <2>3. PostsNumbered => PostsNumbered'
    <3>1. Published("posts")' = Published("posts") /\ \A k : EntryOf("posts", k)' = EntryOf("posts", k)
      BY <2>1, SameLines DEF Lists
    <3> QED
      BY <2>1, <3>1 DEF PostsNumbered, posts
  <2> QED
    BY <2>1, <2>2, <2>3 DEF LoadInv, Lists
<1> QED
  BY <1>1, <1>2, <1>3, <1>4, <1>5 DEF Next, SortNext, ArchivesNext

LEMMA InitLoads == Init => LoadInv
<1> SUFFICES ASSUME Init PROVE LoadInv
  OBVIOUS
<1>1. ASSUME NEW l \in Lists PROVE Forgotten(l) /\ InOrder(l) /\ SeenInv(l)
  <2>1. /\ DOMAIN lines[l] = {} /\ table[l] = <<>> /\ DOMAIN table[l] = {} /\ Len(table[l]) = 0
        /\ DOMAIN seen = {}
    BY DEF Init, LoadInit
  <2>2. Entry(l) = {} /\ Published(l) = {}
    BY <2>1 DEF Entry, Published
  <2> QED
    BY <2>1, <2>2, FS_EmptySet DEF Forgotten, InOrder, SeenInv
<1> QED
  BY <1>1 DEF Init, LoadInit, LoadInv, Unsorted, Lists

(* The posts are numbered by their places among the published entries of   *)
(* posts.lst, and the tables hold those entries and no others, for lists   *)
(* of any length and whatever the sort did (content.c:487-557).            *)
THEOREM TheListIsNumbered == Spec => []NumbersFollowTheList
<1>1. ASSUME LoadInv PROVE NumbersFollowTheList
  <2>1. SUFFICES ASSUME Loaded PROVE NumbersFollowTheList
    BY DEF NumbersFollowTheList
  <2>2. PostsNumbered /\ InOrder("pages")
    BY <1>1, <2>1, InOrderIsNumbered DEF LoadInv, Loaded
  <2>3. \A l \in Lists : Len(table[l]) = Cardinality(Published(l))
    BY <2>2 DEF PostsNumbered, InOrder, posts, Lists
  <2>4. /\ \A k : EntryOf("posts", k) = Post(lines["posts"][k], Rank("posts", k))
        /\ \A k : EntryOf("pages", k) = Page(lines["pages"][k])
    BY DEF EntryOf
  <2>5. {posts[i] : i \in DOMAIN posts} =
           {Post(lines["posts"][k], Rank("posts", k)) : k \in Published("posts")}
    BY <2>2, <2>4 DEF PostsNumbered
  <2> QED
    BY <2>2, <2>3, <2>4, <2>5 DEF NumbersFollowTheList, InOrder
<1>2. LoadInv => NumbersFollowTheList
  BY <1>1
<1> QED
  BY InitTypeOK, NextTypeOK, InitLoads, NextLoads, <1>2, PTL DEF Spec

(* An accepted site has no post and no page twice; what repeats is a draft *)
(* that the loader had no room to remember (content.c:428-460, 506-522).   *)
THEOREM NothingTwice == Spec => []NothingListedTwice
<1>1. ASSUME TypeOK, LoadInv PROVE NothingListedTwice
  <2>1. SUFFICES ASSUME Loaded, NEW l \in Lists, NEW j \in Entry(l), NEW k \in Entry(l),
                        j < k, lines[l][j] = lines[l][k], j # k
                 PROVE  /\ Source(l, k).draft
                        /\ Cardinality(NamesBefore(l, k)) > Remembered
    <3>1. \A l \in Lists : \A j, k \in Entry(l) : j < k => j # k
      <4>1. \A m \in Lists : \A k \in Entry(m) : k \in Nat
        BY <1>1, LineFacts
      <4> QED
        BY <4>1
    <3> QED
      BY <3>1 DEF NothingListedTwice, NamesBefore
  <2>2. pc # "refused" /\ pc \notin Lists /\ pc # "posts"
    BY <2>1 DEF Loaded, Lists
  <2>3. Cardinality(NamesBefore(l, k)) > Remembered /\ OnceOnly(l)
    BY <1>1, <2>1, <2>2 DEF LoadInv, Forgotten, Lists
  <2>4. Source(l, j) = Source(l, k)
    BY <2>1 DEF Source
  <2>5. j \notin Published(l) \/ k \notin Published(l)
    BY <2>1, <2>3 DEF OnceOnly
  <2> QED
    BY <2>3, <2>4, <2>5 DEF Published
<1>2. TypeOK /\ LoadInv => NothingListedTwice
  BY <1>1
<1> QED
  BY InitTypeOK, NextTypeOK, InitLoads, NextLoads, <1>2, PTL DEF Spec
=============================================================================
