------------------------------ MODULE EntryLists -----------------------------
(***************************************************************************)
(* The content loader: load_posts and load_pages read posts.lst and        *)
(* pages.lst line by line, load each source that is named and fill the     *)
(* tables the rest of the build works on.  Either may refuse the site.     *)
(*                                                                         *)
(* A line is a name, or Skipped (empty, or a comment), or Invalid; names   *)
(* are what is_valid_list_entry_name accepts, in lower case.  What is in   *)
(* the lists is decided as it is read: a step of ReadLine takes any line.  *)
(* A source is Refused (missing, or stopped by validate_post), or what the *)
(* build takes from its header; validate_post and validate_page make the   *)
(* slug the name of the file, so the name stands for both.                 *)
(***************************************************************************)
EXTENDS Naturals, Sequences, FiniteSets

CONSTANTS
    Names,               \* source names, as lowercase_string leaves them
    Sources,             \* what a source may hold: draft, date, category, tags
    Refused,             \* a source that is missing or not accepted
    Skipped, Invalid,    \* the other lines of a list
    MaxPosts, MaxPages,  \* MAX_POSTS and MAX_PAGES
    MaxLines             \* bound: the lines of a list

ASSUME CapsAssumption == MaxPosts \in Nat /\ MaxPages \in Nat
ASSUME LinesAssumption == {Skipped, Invalid} \cap Names = {} /\ Skipped # Invalid
ASSUME SourcesAssumption ==
    /\ Refused \notin Sources
    /\ \A s \in Sources : s.draft \in BOOLEAN /\ s.date \in Nat

Lists == {"posts", "pages"}
Capacity == [posts |-> MaxPosts, pages |-> MaxPages]

(* g_list_seen_names has the larger of the two sizes, for both lists. *)
Remembered == IF MaxPosts > MaxPages THEN MaxPosts ELSE MaxPages

VARIABLES
    there,     \* whether each list exists
    sources,   \* the source files
    lines,     \* history: the lines read from each list
    seen,      \* g_list_seen_names of the list that is read
    table,     \* g_posts and g_pages
    pc,        \* the list that is read, the phases after, or "refused"
    error      \* the reason of a refusal

loadVars == <<there, sources, lines, seen, table, pc, error>>

Post(n, number) == [name |-> n, source |-> sources["posts"][n], out |-> number]
Page(n) == [name |-> n, source |-> sources["pages"][n], out |-> n]

Refuse(reason) == /\ pc' = "refused" /\ error' = reason
                  /\ UNCHANGED <<there, sources, seen, table>>

LoadInit ==
    /\ there \in [Lists -> BOOLEAN]
    /\ sources \in [Lists -> [Names -> Sources \cup {Refused}]]
    /\ lines = [l \in Lists |-> <<>>]
    /\ seen = <<>>
    /\ table = [l \in Lists |-> <<>>]
    /\ pc = "posts"
    /\ error = "none"

-----------------------------------------------------------------------------
Took(l, n) == lines' = [lines EXCEPT ![l] = Append(@, n)]

Known(n) == \E i \in DOMAIN seen : seen[i] = n

Remember(l, n) ==
    seen' = IF Len(seen) < Remembered THEN Append(seen, n) ELSE seen

(* A wrong version of Filed: drafts take a number too. *)
FiledWithGaps(l, n) ==
    table' = [table EXCEPT ![l] =
        Append(@, IF l = "posts" THEN Post(n, Len(lines[l]) + 1) ELSE Page(n))]

(* The record goes to the end of the table; a post gets the next number as *)
(* its output name, a page keeps the one made of its slug.                 *)
Filed(l, n) ==
    table' = [table EXCEPT ![l] =
        Append(@, IF l = "posts" THEN Post(n, Len(@) + 1) ELSE Page(n))]

(* One line of a list. *)
SkipLine(l) == /\ Took(l, Skipped)
               /\ UNCHANGED <<there, sources, seen, table, pc, error>>

InvalidLine(l) == Took(l, Invalid) /\ Refuse("invalid")

RepeatedName(l, n) == Known(n) /\ Took(l, n) /\ Refuse("repeated")

BadSource(l, n) == /\ ~Known(n) /\ sources[l][n] = Refused
                   /\ Took(l, n) /\ Refuse("source")

TableFull(l, n) ==
    /\ ~Known(n) /\ sources[l][n] # Refused /\ ~sources[l][n].draft
    /\ Len(table[l]) >= Capacity[l]
    /\ Took(l, n) /\ Refuse("full")

DraftEntry(l, n) ==
    /\ ~Known(n) /\ sources[l][n] # Refused /\ sources[l][n].draft
    /\ Took(l, n) /\ Remember(l, n)
    /\ UNCHANGED <<there, sources, table, pc, error>>

(* A wrong version of PublishedEntry: the table is filled one too far. *)
PublishedEntryOverfull(l, n) ==
    /\ ~Known(n) /\ sources[l][n] # Refused /\ ~sources[l][n].draft
    /\ Len(table[l]) <= Capacity[l]
    /\ Took(l, n) /\ Remember(l, n) /\ Filed(l, n)
    /\ UNCHANGED <<there, sources, pc, error>>

PublishedEntry(l, n) ==
    /\ ~Known(n) /\ sources[l][n] # Refused /\ ~sources[l][n].draft
    /\ Len(table[l]) < Capacity[l]
    /\ Took(l, n) /\ Remember(l, n) /\ Filed(l, n)
    /\ UNCHANGED <<there, sources, pc, error>>

ReadLine(l) ==
    /\ pc = l /\ there[l] /\ Len(lines[l]) < MaxLines
    /\ \/ SkipLine(l) \/ InvalidLine(l)
       \/ \E n \in Names : \/ RepeatedName(l, n) \/ BadSource(l, n) \/ TableFull(l, n)
                           \/ DraftEntry(l, n) \/ PublishedEntry(l, n)

(* open_existing_file fails: without posts.lst there is no site, without   *)
(* pages.lst there are no pages.                                           *)
NoPostsLst ==
    /\ pc = "posts" /\ ~there["posts"]
    /\ Refuse("missing") /\ UNCHANGED lines

(* A wrong version of Twins: nobody compares the slugs afterwards. *)
NoTwins(l) == FALSE

(* validate_unique_post_slugs and validate_unique_page_slugs. *)
Twins(l) == \E i, j \in DOMAIN table[l] : i < j /\ table[l][i].name = table[l][j].name

TwinSlugs(l) == /\ pc = l /\ there[l] /\ Twins(l)
                /\ Refuse("twins") /\ UNCHANGED lines

(* The end of the list. *)
ListLoaded(l) ==
    /\ pc = l /\ ~Twins(l) /\ (l = "posts" => there[l])
    /\ pc' = IF l = "posts" THEN "pages" ELSE "loaded"
    /\ seen' = <<>>
    /\ UNCHANGED <<there, sources, lines, table, error>>

LoadNext == NoPostsLst \/ \E l \in Lists : ReadLine(l) \/ TwinSlugs(l) \/ ListLoaded(l)
=============================================================================
