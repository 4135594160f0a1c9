---------------------------- MODULE MCBuildSite ----------------------------
(***************************************************************************)
(* Small instances of BuildSite for TLC.  A site of at most two posts and  *)
(* two pages; the budgets bound the edits, the deletions in OUT and the    *)
(* interrupted builds of a behaviour, not the builds.                      *)
(***************************************************************************)
EXTENDS BuildSite

CONSTANTS MaxEdits, MaxDrops, MaxStops

VARIABLES edits, drops, stops
mcvars == <<vars, edits, drops, stops>>

MCPosts  == {"A.TXT", "B.TXT"}
MCPages  == {"LINKS"}
MCTwoPages == {"LINKS", "MUSIC"}
MCLabels == {"CDOS", "CMUS"}

MCConfigs == {[text |-> "one", banner |-> TRUE], [text |-> "two", banner |-> FALSE]}
MCSiteHash == [c \in MCConfigs |-> IF c.text = "one" THEN 1 ELSE 2]

Header(title, draft, labels) == [title |-> title, draft |-> draft, labels |-> labels]
Source(meta, body, fits, stamp) ==
    [meta |-> meta, body |-> body, fits |-> fits, stamp |-> stamp]

H1 == Header("one", FALSE, {"CDOS"})
H2 == Header("two", FALSE, {"CMUS"})
H3 == Header("one", TRUE, {"CDOS"})

(* An original, its body edited, a body too long, another header, a draft. *)
MCVersions == {Source(H1, "b1", TRUE, 1), Source(H1, "b2", TRUE, 2),
               Source(H1, "b3", FALSE, 3), Source(H2, "b1", TRUE, 4),
               Source(H3, "b1", TRUE, 5)}
MCMetaHash == [m \in {H1, H2, H3} |-> CASE m = H1 -> 1 [] m = H2 -> 2 [] m = H3 -> 3]

V1 == Source(H1, "b1", TRUE, 1)

MCInit ==
    /\ config = [text |-> "one", banner |-> TRUE]
    /\ postsLst = <<"A.TXT", "B.TXT">>
    /\ pagesLst \in {l \in Lists(Pages) : Listed(l) = Pages}
    /\ postSrc = [p \in Posts |-> V1] /\ pageSrc = [g \in Pages |-> V1]
    /\ Init
    /\ edits = 0 /\ drops = 0 /\ stops = 0

MCNext ==
    \/ Step /\ UNCHANGED <<edits, drops, stops>>
    \/ edits < MaxEdits /\ Edit /\ edits' = edits + 1 /\ UNCHANGED <<drops, stops>>
    \/ drops < MaxDrops /\ Drop /\ drops' = drops + 1 /\ UNCHANGED <<edits, stops>>
    \/ stops < MaxStops /\ Interruption /\ stops' = stops + 1 /\ UNCHANGED <<edits, drops>>

MCSpec == MCInit /\ [][MCNext]_mcvars
MCFairSpec == MCSpec /\ WF_mcvars(Step /\ pc # "idle" /\ UNCHANGED <<edits, drops, stops>>)
=============================================================================
