---------------------------- MODULE MCSiteCommands ----------------------------
(***************************************************************************)
(* Small instances of SiteCommands for TLC: two posts and a page, with     *)
(* budgets for the commands, for the user's edits, and for these and the   *)
(* interruptions together.                                                 *)
(***************************************************************************)
EXTENDS SiteCommands

CONSTANTS MaxCommands, MaxEdits, MaxEvents

VARIABLES commands, edits, events
budgets == <<commands, edits, events>>
mcvars == <<cvars, budgets>>

MCPosts  == {"A", "B"}
MCPages  == {"B", "LINKS"}
MCLabels == {"CDOS"}

MCConfigs == {[text |-> "one", banner |-> FALSE]}
MCSiteHash == [c \in MCConfigs |-> 1]

Header(title, draft, labels) == [title |-> title, draft |-> draft, labels |-> labels]
Version(meta, body, stamp) ==
    [meta |-> meta, body |-> body, fits |-> TRUE, stamp |-> stamp]
H1 == Header("one", FALSE, {"CDOS"})
H2 == Header("one", TRUE, {"CDOS"})
H3 == Header("new", FALSE, {})
V1 == Version(H1, "b1", 1)
MCNewSource == Version(H3, "b2", 3)
MCVersions == {V1, Version(H2, "b1", 2), MCNewSource}
MCMetaHash == [m \in {H1, H2, H3} |-> CASE m = H1 -> 1 [] m = H2 -> 2 [] m = H3 -> 3]

MCStarterPosts == <<"B">>
MCStarterPages == <<"LINKS">>

(* The slug of B is p0001, the name of the first output. *)
MCSlugNumber == [p \in MCPosts |-> IF p = "B" THEN 1 ELSE 0]

MCInit ==
    /\ postsLst = <<"A", "B">> /\ pagesLst = <<"LINKS">>
    /\ postSrc = [p \in Posts |-> V1]
    /\ pageSrc = [g \in Pages |-> IF g = "B" THEN Unreadable ELSE V1]
    /\ listFile = [post |-> "open", page |-> "whole"]
    /\ CInit
    /\ commands = 0 /\ edits = 0 /\ events = 0

Spend(c, e) == /\ commands + c <= MaxCommands /\ commands' = commands + c
               /\ edits + e <= MaxEdits /\ edits' = edits + e
               /\ events < MaxEvents /\ events' = events + 1
MCNext ==
    \/ RunBuild /\ UNCHANGED budgets
    \/ job # NoJob /\ Command /\ UNCHANGED budgets
    \/ job = NoJob /\ Spend(1, 0) /\ Command
    \/ Spend(0, 1) /\ (UserList \/ UserEdit)
    \/ Spend(0, 0) /\ (Abandon \/ StopBuild)

MCSpec == MCInit /\ [][MCNext]_mcvars
=============================================================================
