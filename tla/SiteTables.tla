------------------------------ MODULE SiteTables -----------------------------
(***************************************************************************)
(* The tables of a build: the lists are loaded, the posts are sorted, and  *)
(* collect_archives gives each category and each tag an archive page.      *)
(*                                                                         *)
(* Dates are compared by strcmp, an order for which numbers stand.  Labels *)
(* that differ in case only are one; Fold says which.  Candidate holds the *)
(* names make_archive_output_name computes of a label, attempt by attempt. *)
(***************************************************************************)
EXTENDS EntryLists

CONSTANTS
    Labels,       \* categories and tags, as they are written
    Fold,         \* Fold[x] = Fold[y]: x and y differ in case only
    Attempts,     \* how many names are tried for an archive: 64
    Candidate,    \* Candidate[kind][label][attempt]
    PageFile,     \* the output name of a page, by its source name
    MaxArchives   \* MAX_ARCHIVES, for the categories and for the tags

Kinds == {"C", "T"}

ASSUME ArchivesAssumption ==
    /\ MaxArchives \in Nat /\ Attempts \in Nat
    /\ DOMAIN Fold = Labels
    /\ \A s \in Sources : s.category \in Labels /\ s.tags \in Seq(Labels)

VARIABLES
    outer, inner,  \* the loops of sort_posts_by_date
    archives,      \* g_categories and g_tags: [label, out]
    at, use        \* the loops of collect_archives: a post, a label of it

vars == <<loadVars, outer, inner, archives, at, use>>

posts == table["posts"]
Date(i) == posts[i].source.date

Init ==
    /\ LoadInit
    /\ outer = 1 /\ inner = 2
    /\ archives = [k \in Kinds |-> <<>>]
    /\ at = 1 /\ use = 0

Load == LoadNext /\ UNCHANGED <<outer, inner, archives, at, use>>

-----------------------------------------------------------------------------
(* sort_posts_by_date. *)
StartSort == /\ pc = "loaded" /\ pc' = "sort"
             /\ outer' = 1 /\ inner' = 2
             /\ UNCHANGED <<there, sources, lines, seen, table, error, archives, at, use>>

Swapped == [posts EXCEPT ![outer] = posts[inner], ![inner] = posts[outer]]

Compare ==
    /\ pc = "sort" /\ outer < Len(posts) /\ inner <= Len(posts)
    /\ table' = IF Date(inner) > Date(outer)
                THEN [table EXCEPT !["posts"] = Swapped] ELSE table
    /\ inner' = inner + 1
    /\ UNCHANGED <<there, sources, lines, seen, pc, error, outer, archives, at, use>>

(* A wrong version of NextOuter: the pair after the next is forgotten. *)
NextOuterSkipping ==
    /\ pc = "sort" /\ outer < Len(posts) /\ inner > Len(posts)
    /\ outer' = outer + 1 /\ inner' = outer + 3
    /\ UNCHANGED <<loadVars, archives, at, use>>

NextOuter ==
    /\ pc = "sort" /\ outer < Len(posts) /\ inner > Len(posts)
    /\ outer' = outer + 1 /\ inner' = outer + 2
    /\ UNCHANGED <<loadVars, archives, at, use>>

StartArchives == /\ pc = "sort" /\ outer >= Len(posts) /\ pc' = "archives"
                 /\ archives' = [k \in Kinds |-> <<>>]
                 /\ at' = 1 /\ use' = 0
                 /\ UNCHANGED <<there, sources, lines, seen, table, error, outer, inner>>

-----------------------------------------------------------------------------
(* collect_archives: the category of a post, then its tags. *)
Kind == IF use = 0 THEN "C" ELSE "T"
Label == IF use = 0 THEN posts[at].source.category ELSE posts[at].source.tags[use]

(* archive_matches. *)
Matches(ref, label) == Fold[ref.label] = Fold[label]

Has(kind, label) == \E i \in DOMAIN archives[kind] : Matches(archives[kind][i], label)

OutsOf(refs) == {refs[i].out : i \in DOMAIN refs}
PageOuts == {PageFile[table["pages"][i].name] : i \in DOMAIN table["pages"]}

(* A wrong version of Conflicts: the pages of the user are left out. *)
ConflictsOfArchives(out) == \E k \in Kinds : out \in OutsOf(archives[k])

(* archive_output_conflicts; the reserved names are shorter than any name  *)
(* an archive may get.                                                     *)
Conflicts(out) == out \in PageOuts \/ \E k \in Kinds : out \in OutsOf(archives[k])

AtLabel == pc = "archives" /\ at <= Len(posts) /\ use <= Len(posts[at].source.tags)

(* A wrong version of NextUse: the last tag is left out. *)
NextUseShort == /\ use' = IF use + 1 < Len(posts[at].source.tags) THEN use + 1 ELSE 0
                /\ at' = IF use + 1 < Len(posts[at].source.tags) THEN at ELSE at + 1

NextUse == /\ use' = IF use < Len(posts[at].source.tags) THEN use + 1 ELSE 0
           /\ at' = IF use < Len(posts[at].source.tags) THEN at ELSE at + 1

LabelIsThere ==
    /\ AtLabel /\ Has(Kind, Label)
    /\ NextUse
    /\ UNCHANGED <<loadVars, outer, inner, archives>>

(* append_archive_ref: the first candidate that conflicts with nothing. *)
Free(kind, label, n) ==
    /\ ~Conflicts(Candidate[kind][label][n])
    /\ \A m \in 1 .. Attempts : m < n => Conflicts(Candidate[kind][label][m])

AddArchive ==
    /\ AtLabel /\ ~Has(Kind, Label)
    /\ Len(archives[Kind]) < MaxArchives
    /\ \E n \in 1 .. Attempts :
          /\ Free(Kind, Label, n)
          /\ archives' = [archives EXCEPT ![Kind] =
                Append(@, [label |-> Label, out |-> Candidate[Kind][Label][n]])]
    /\ NextUse
    /\ UNCHANGED <<loadVars, outer, inner>>

TooManyArchives ==
    /\ AtLabel /\ ~Has(Kind, Label)
    /\ Len(archives[Kind]) >= MaxArchives
    /\ Refuse("archives")
    /\ UNCHANGED <<lines, outer, inner, archives, at, use>>

(* A wrong version of NoNameIsFree: one attempt only. *)
FirstNameIsTaken ==
    /\ AtLabel /\ ~Has(Kind, Label)
    /\ Len(archives[Kind]) < MaxArchives
    /\ Conflicts(Candidate[Kind][Label][1])
    /\ Refuse("allocate")
    /\ UNCHANGED <<lines, outer, inner, archives, at, use>>

NoNameIsFree ==
    /\ AtLabel /\ ~Has(Kind, Label)
    /\ Len(archives[Kind]) < MaxArchives
    /\ \A n \in 1 .. Attempts : Conflicts(Candidate[Kind][Label][n])
    /\ Refuse("allocate")
    /\ UNCHANGED <<lines, outer, inner, archives, at, use>>

ArchivesDone ==
    /\ pc = "archives" /\ at > Len(posts) /\ pc' = "done"
    /\ UNCHANGED <<there, sources, lines, seen, table, error, outer, inner, archives, at, use>>

SortNext == StartSort \/ Compare \/ NextOuter
ArchivesNext == StartArchives \/ LabelIsThere \/ AddArchive \/ TooManyArchives
                \/ NoNameIsFree \/ ArchivesDone

Next == Load \/ SortNext \/ ArchivesNext

Spec == Init /\ [][Next]_vars

-----------------------------------------------------------------------------
(* Properties. *)

Record == [name : Names, source : Sources, out : Nat \cup Names]
Candidates == {Candidate[k][w][n] : k \in Kinds, w \in Labels, n \in 1 .. Attempts}
ArchiveRef == [label : Labels, out : Candidates]

TypeOK ==
    /\ there \in [Lists -> BOOLEAN]
    /\ sources \in [Lists -> [Names -> Sources \cup {Refused}]]
    /\ lines \in [Lists -> Seq(Names \cup {Skipped, Invalid})]
    /\ seen \in Seq(Names) /\ Len(seen) <= Remembered
    /\ table \in [Lists -> Seq(Record)]
    /\ \A l \in Lists : Len(table[l]) <= Capacity[l]
    /\ pc \in Lists \cup {"loaded", "sort", "archives", "done", "refused"}
    /\ outer \in Nat \ {0} /\ inner \in Nat \ {0}
    /\ at \in Nat \ {0} /\ use \in Nat
    /\ archives \in [Kinds -> Seq(ArchiveRef)]
    /\ \A k \in Kinds : Len(archives[k]) <= MaxArchives

(* The entries of a list, and those of them that are not drafts. *)
Entry(l) == {k \in DOMAIN lines[l] : lines[l][k] \in Names}
Source(l, k) == sources[l][lines[l][k]]
Published(l) == {k \in Entry(l) : ~Source(l, k).draft}
Rank(l, k) == Cardinality({m \in Published(l) : m <= k})

Loaded == pc \in {"loaded", "sort", "archives", "done"}

(* The tables hold the published entries and nothing else, whatever the    *)
(* sort does to their places: a post is numbered by its place among the    *)
(* published posts of posts.lst (content.c:542), so that P0002.HTM is the  *)
(* same post to the pages of the archive, to the manifest and to `delete`. *)
NumbersFollowTheList ==
    Loaded => /\ \A l \in Lists : Len(table[l]) = Cardinality(Published(l))
              /\ {posts[i] : i \in DOMAIN posts} =
                    {Post(lines["posts"][k], Rank("posts", k)) : k \in Published("posts")}
              /\ \A k \in Published("pages") :
                    table["pages"][Rank("pages", k)] = Page(lines["pages"][k])

(* A site that is accepted has no post and no page twice, although the     *)
(* loader forgets names beyond its cap, which drafts use up too            *)
(* (content.c:519): what it forgets may repeat as a draft only, and the    *)
(* others are found by their slugs (:428-460).                             *)
NothingListedTwice ==
    Loaded => \A l \in Lists : \A j, k \in Entry(l) :
        (j < k /\ lines[l][j] = lines[l][k]) =>
            /\ Source(l, k).draft
            /\ Cardinality({lines[l][m] : m \in {n \in Entry(l) : n < k}}) > Remembered

(* The posts come out newest first (main.c:17-32): index, archive and the  *)
(* previous and next links all read the table in this order.               *)
NewestFirst == pc \in {"archives", "done"} =>
    \A i, j \in DOMAIN posts : i < j => Date(i) >= Date(j)

(* When collect_archives is done, every category and every tag of a post   *)
(* has one archive, however it is written and wherever it repeats          *)
(* (site.c:866-891); lookup_category_output and lookup_tag_output then     *)
(* never return the empty name.                                            *)
OneArchivePerLabel == pc = "done" => \A i \in DOMAIN posts :
    LET one(kind, label) == Cardinality({j \in DOMAIN archives[kind] :
                                            Fold[archives[kind][j].label] = Fold[label]}) = 1
    IN  /\ one("C", posts[i].source.category)
        /\ \A u \in DOMAIN posts[i].source.tags : one("T", posts[i].source.tags[u])

(* No two archives share an output file, and none takes a page's           *)
(* (site.c:804-830): one of the two would be gone from the site.           *)
ArchiveNamesApart ==
    /\ \A k, m \in Kinds : \A i \in DOMAIN archives[k], j \in DOMAIN archives[m] :
          archives[k][i].out = archives[m][j].out => k = m /\ i = j
    /\ \A k \in Kinds : OutsOf(archives[k]) \cap PageOuts = {}

(* An archive goes without a name only when the names that are taken are   *)
(* as many as the attempts (site.c:842-852).  There are 64 attempts, and   *)
(* 32 pages and 16 archives of a kind at most.                             *)
NamesRunOut == error = "allocate" =>
    Cardinality(PageOuts \cup UNION {OutsOf(archives[k]) : k \in Kinds}) >= Attempts
=============================================================================
