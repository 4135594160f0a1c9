------------------------------- MODULE Replies -------------------------------
(***************************************************************************)
(* What the preview server promises the browser, without sockets, lists    *)
(* and packets: requests are answered one after the other, each of them at *)
(* most once, and a reply goes to the connection that asked, segment by    *)
(* segment in order.  The one exception is a connection that the browser   *)
(* resets while its reply is written: the rest may go to another one.      *)
(*                                                                         *)
(* A reply of n segments is <<c, n>>, ..., <<c, 1>> for the connection c   *)
(* that asked.  ListenSlots implements this module.                        *)
(***************************************************************************)
EXTENDS Naturals, Sequences

CONSTANTS Conns, None,   \* the connections, and no connection
          Units          \* length of the longest reply, in segments

VARIABLES
    job, left,   \* whose request is answered; segments that are not written
    served,      \* whose request was read
    stream,      \* by connection: the segments written to it
    gone         \* the connections that the browser has reset

vars == <<job, left, served, stream, gone>>

Init ==
    /\ job = None /\ left = 0 /\ served = {}
    /\ stream = [c \in Conns |-> <<>>] /\ gone = {}

ReadRequest(c) ==
    /\ job = None /\ c \notin served
    /\ job' = c /\ served' = served \cup {c}
    /\ left' \in 0 .. Units
    /\ UNCHANGED <<stream, gone>>

(* What was written to c last is the segment before the next one. *)
Continues(c) == stream[c] = <<>> \/ stream[c][Len(stream[c])] = <<job, left + 1>>

(* Nothing of the reply has gone to another connection. *)
Undivided == \A d \in Conns \ {job} : \A i \in 1 .. Len(stream[d]) : stream[d][i][1] # job

Write(c) ==
    /\ job # None /\ left > 0 /\ Continues(c)
    /\ IF c = job THEN Undivided ELSE job \in gone
    /\ stream' = [stream EXCEPT ![c] = Append(@, <<job, left>>)]
    /\ left' = left - 1
    /\ UNCHANGED <<job, served, gone>>

(* The reply is over, whole or cut short; it is never taken up again.      *)
EndReply ==
    /\ job # None
    /\ job' = None /\ left' = 0
    /\ UNCHANGED <<served, stream, gone>>

Reset(c) == gone' = gone \cup {c} /\ UNCHANGED <<job, left, served, stream>>

Next == EndReply \/ \E c \in Conns : ReadRequest(c) \/ Write(c) \/ Reset(c)

Spec == Init /\ [][Next]_vars
=============================================================================
