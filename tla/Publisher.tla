----------------------------- MODULE Publisher -----------------------------
(***************************************************************************)
(* What `zine.exe build` promises its user, without the manifest, hashes,  *)
(* time stamps and loops that keep the promise: BuildSite implements it.   *)
(*                                                                         *)
(* The user's files describe a site, `goal`.  A build withdraws files and  *)
(* puts files of the goal; when it reports success, every file of the goal *)
(* is up to date and nothing else is published.  Files that an interrupted *)
(* build touched are in doubt until a later build puts them again.         *)
(***************************************************************************)

CONSTANTS
    Names,        \* the names a published file can have
    Nothing       \* what is published under a name that has no file

VARIABLES
    goal,         \* the site described: a set of [name, content]; {} if none
    published,    \* what is there, by name
    building,     \* a build is running
    touched,      \* what it has put so far
    doubtful      \* what is in doubt

vars == <<goal, published, building, touched, doubtful>>

GoalNames == {g.name : g \in goal}

Init == /\ published = [n \in Names |-> Nothing]
        /\ building = FALSE /\ touched = {} /\ doubtful = {}

(* The user edits the site's files. *)
Edit == /\ ~building
        /\ UNCHANGED <<published, building, touched, doubtful>>

(* A published file is removed behind the builder's back. *)
Lose(n) == /\ ~building
           /\ published' = [published EXCEPT ![n] = Nothing]
           /\ UNCHANGED <<goal, building, touched, doubtful>>

(* The record of the last build is lost: what stands may stay for good. *)
Forget == /\ ~building
          /\ doubtful' = doubtful \cup {n \in Names : published[n] # Nothing}
          /\ UNCHANGED <<goal, published, building, touched>>

Begin == /\ ~building /\ goal # {}
         /\ building' = TRUE
         /\ UNCHANGED <<goal, published, touched, doubtful>>

Put(g) == /\ building
          /\ published' = [published EXCEPT ![g.name] = g.content]
          /\ touched' = touched \cup {g.name}
          /\ UNCHANGED <<goal, building, doubtful>>

(* Some files, of this site or of an earlier one, go before the first Put. *)
Withdraw == /\ building /\ touched = {}
            /\ DOMAIN published' = Names
            /\ \A n \in Names : published'[n] \in {published[n], Nothing}
            /\ UNCHANGED <<goal, building, touched, doubtful>>

(* Success is reported only of a complete and exact site. *)
Complete ==
    /\ building
    /\ \A g \in goal : g.name \in doubtful \ touched \/ published[g.name] = g.content
    /\ \A n \in Names \ (GoalNames \cup doubtful) : published[n] = Nothing
    /\ \A g \in goal : published[g.name] # Nothing
    /\ building' = FALSE /\ touched' = {}
    /\ doubtful' = doubtful \ touched
    /\ UNCHANGED <<goal, published>>

(* A build that ends otherwise may lose files, and spoil those it admits   *)
(* to have touched.                                                        *)
Abort ==
    /\ building
    /\ building' = FALSE /\ touched' = {}
    /\ doubtful \cup touched \subseteq doubtful'
    /\ DOMAIN published' = Names
    /\ \A n \in Names : n \in doubtful' \/ published'[n] \in {published[n], Nothing}
    /\ UNCHANGED goal

Next == \/ Edit \/ Forget \/ Begin \/ Withdraw \/ Complete \/ Abort
        \/ \E n \in Names : Lose(n)
        \/ \E g \in goal : Put(g)

Spec == Init /\ [][Next]_vars
=============================================================================
