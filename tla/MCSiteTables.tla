---------------------------- MODULE MCSiteTables ----------------------------
(***************************************************************************)
(* SiteTables for TLC: four posts of which three fit, two pages, archives  *)
(* for two categories and two tags, two names to try for each.  Two        *)
(* categories share a candidate, two the page x's file, and the two pages  *)
(* together take all the candidates of one.                                *)
(***************************************************************************)
EXTENDS SiteTables, TLC

CONSTANTS PostNames, PageNames, x, y

(* The posts are alike. *)
Permuted == Permutations(PostNames)

Post1 == [draft |-> FALSE, date |-> 1, category |-> "dos", tags |-> <<"net">>]
Post2 == [draft |-> FALSE, date |-> 2, category |-> "DOS", tags |-> <<>>]
Post3 == [draft |-> FALSE, date |-> 3, category |-> "art", tags |-> <<"ega", "NET">>]
Post4 == [draft |-> FALSE, date |-> 2, category |-> "bbs", tags |-> <<"cga">>]
Draft == [draft |-> TRUE, date |-> 1, category |-> "dos", tags |-> <<>>]

MCNames == PostNames \cup PageNames
MCSources == {Post1, Post2, Post3, Post4, Draft}
MCLabels == {"dos", "DOS", "art", "bbs", "net", "NET", "ega", "cga"}
MCFold == [l \in MCLabels |-> CASE l = "DOS" -> "dos" [] l = "NET" -> "net" [] OTHER -> l]
MCCandidate ==
    [C |-> [l \in MCLabels |-> CASE MCFold[l] = "dos" -> <<"C1", "C2">>
                                 [] l = "art" -> <<"C1", "C3">>
                                 [] OTHER -> <<"C3", "C4">>],
     T |-> [l \in MCLabels |-> <<"T1", "T2">>]]
MCPageFile == [n \in MCNames |-> IF n = x THEN "C1" ELSE IF n = y THEN "C2" ELSE "P"]

(* Bounds: the pages are published, one may be missing from the disk; one  *)
(* line that is no entry.                                                  *)
PostSources == {[n \in MCNames |-> IF n \in PostNames THEN f[n] ELSE Refused] :
                    f \in [PostNames -> MCSources \cup {Refused}]}
PageSources == {[n \in MCNames |-> IF n = x THEN f[1] ELSE IF n = y THEN f[2] ELSE Refused] :
                    f \in {Post1, Refused} \X {Post1, Draft}}

MCInit ==
    /\ sources \in {[posts |-> f, pages |-> g] : f \in PostSources, g \in PageSources}
    /\ Init

(* Bounds: posts.lst lists posts and pages.lst pages, at most two lines of *)
(* them; a comment comes first.                                            *)
MCNext ==
    /\ Next
    /\ \A i \in DOMAIN lines'["posts"] : lines'["posts"][i] \notin PageNames
    /\ \A i \in DOMAIN lines'["pages"] : lines'["pages"][i] \notin PostNames
    /\ Len(lines'["pages"]) <= 2
    /\ \A l \in Lists : \A i \in DOMAIN lines'[l] : i > 1 => lines'[l][i] # Skipped

MCSpec == MCInit /\ [][MCNext]_vars
=============================================================================
