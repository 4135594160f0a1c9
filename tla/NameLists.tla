----------------------------- MODULE NameLists -----------------------------
(***************************************************************************)
(* What the commands promise of posts.lst and pages.lst: each list changes *)
(* by one whole entry at a time, as its own commands ask, and keeps its    *)
(* order.  ListFiles, which replaces a list by way of a temporary file,    *)
(* implements it; a list that a fault of the machine spoils is `struck`.   *)
(***************************************************************************)
EXTENDS Sequences, Naturals

CONSTANTS
    Lists,      \* the lists
    Names       \* the names an entry can be

VARIABLES
    entries,    \* the entries of every list, in order
    struck      \* the lists that a fault has spoilt

vars == <<entries, struck>>

Listed(l) == {entries[l][i] : i \in DOMAIN entries[l]}

OthersStay(l) == /\ DOMAIN entries' = Lists
                 /\ \A m \in Lists \ {l} : entries'[m] = entries[m]

Add(l, n) == /\ n \notin Listed(l)
             /\ entries' = [entries EXCEPT ![l] = Append(@, n)]
             /\ UNCHANGED struck

(* s without its entry number i. *)
Removed(s, i) == [j \in 1 .. Len(s) - 1 |-> IF j < i THEN s[j] ELSE s[j + 1]]

(* The first of the entries that equal n goes. *)
Drop(l, n) ==
    /\ \E i \in DOMAIN entries[l] :
          /\ entries[l][i] = n /\ \A j \in 1 .. i - 1 : entries[l][j] # n
          /\ entries' = [entries EXCEPT ![l] = Removed(@, i)]
    /\ UNCHANGED struck

(* A fault spoils one list, and no other. *)
Spoil(l) == OthersStay(l) /\ struck' = struck \cup {l}

Init == entries \in [Lists -> Seq(Names)] /\ struck = {}

Next == \E l \in Lists :
            \/ Spoil(l)
            \/ \E n \in Names : Add(l, n) \/ Drop(l, n)

Spec == Init /\ [][Next]_vars
=============================================================================
