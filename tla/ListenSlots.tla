----------------------------- MODULE ListenSlots -----------------------------
(***************************************************************************)
(* zhttp.exe, the preview server: the loop of main, the listen slots of    *)
(* net_watt32.c, and as much of the TCP of Watt-32 as they depend on.      *)
(*                                                                         *)
(* The server is one thread.  Watt-32 keeps the sockets in a linked list   *)
(* (_tcp_allsocs) and runs inside tcp_tick, which handles every packet     *)
(* that has come in and every timer that is due; between two ticks nothing *)
(* happens to a socket.  A slot is a socket that listens on the port, takes *)
(* one connection, and is made to listen again when that one is closed.    *)
(*                                                                         *)
(* The network loses, delays, repeats and reorders: `said` and `heard` are *)
(* what was ever sent, and any of it may arrive at any tick.  Acknowledged *)
(* duplicates are dropped by their sequence numbers and left out, but for  *)
(* the SYN: a late copy of it makes a listening socket begin a handshake   *)
(* that the browser does not take part in.                                 *)
(***************************************************************************)
EXTENDS Naturals, Sequences, FiniteSets

CONSTANTS
    NumSlots,   \* ZHTTP_LISTEN_SLOTS
    Conns,      \* connections of the browser, each from a port of its own
    None,       \* no connection
    Units,      \* length of the longest reply, in segments
    Room,       \* what the send buffer of a socket holds, in segments
    Buffers,    \* how many send buffers the far heap holds
    MaxKeys     \* what the keyboard buffer of the BIOS holds

ASSUME NumSlotsAssumption == NumSlots \in Nat \ {0}
ASSUME NoneAssumption == None \notin Conns
ASSUME SizesAssumption == Units \in Nat /\ Room \in Nat \ {0}
                           /\ Buffers \in Nat /\ MaxKeys \in Nat

Slots == 1 .. NumSlots
Nil == 0

VARIABLES
    tcb,         \* the slots' sockets
    head, next,  \* the list _tcp_allsocs that links them
    lost,        \* history: send buffers of the heap that nothing points to
    listening,   \* ZNetListenSlot.listening
    client,      \* the slot of g_client_handle, or Nil
    pc, at,      \* where the server is; the slot znet_accept looks at
    ticking,     \* inside tcp_tick
    job, left,   \* whose request is being answered; segments still to write
    kbd, stop,   \* keys pressed and not read; g_stop_requested
    said,        \* by connection: what the browser has sent
    heard,       \* by connection: what the server has sent, data apart
    stream,      \* by connection: the data written to it, segment by segment
    sent, taken, \* how much of `stream` was sent, and received
    served       \* history: the connections whose request was read

stack   == <<tcb, head, next, lost>>
server  == <<listening, client, pc, at, ticking, job, left>>
keys    == <<kbd, stop>>
network == <<said, heard, stream, sent, taken, served>>
vars    == <<stack, server, keys, network>>

-----------------------------------------------------------------------------
(* The list of sockets. *)

(* The i-th socket from the head, Nil past the end. *)
Link == LET hop[i \in 0 .. NumSlots] ==
              IF i = 0 THEN head
              ELSE IF hop[i - 1] = Nil THEN Nil ELSE next[hop[i - 1]]
        IN  hop
Threaded == {Link[i] : i \in 0 .. NumSlots} \ {Nil}

(* _tcp_unthread on a list of head h and links n: the walk from the head   *)
(* stops at s, and what s points to takes its place.                       *)
Unlink(h, n, s) ==
    IF s = h THEN <<n[s], n>>
    ELSE IF s \in Threaded
    THEN <<h, [n EXCEPT ![CHOOSE p \in Threaded : next[p] = s] = n[s]]>>
    ELSE <<h, n>>

(* A socket as tcp_listen leaves it.  `live` is ip_type = TCP_PROTO; `rx`  *)
(* tells whose request is in the receive buffer; `got`, that the request   *)
(* of the peer has come in; `acked`, how much of `stream` the peer has     *)
(* acknowledged; `own`, that the send buffer is one from the heap.         *)
Fresh == [state |-> "LISTEN", peer |-> None, live |-> TRUE, rx |-> None,
          got |-> FALSE, acked |-> 0, own |-> FALSE]

Pending(b) == b.peer # None /\ Len(stream[b.peer]) > b.acked

(* memset takes the pointer to a buffer of the heap along.                 *)
Lose(s) == lost' = IF tcb[s].own THEN lost + 1 ELSE lost

(* Wrong versions of Relist: the socket is not unthreaded first, or not    *)
(* put back, or the receive buffer survives.                               *)
RelistTwice(s) ==
    /\ tcb' = [tcb EXCEPT ![s] = Fresh] /\ Lose(s)
    /\ next' = [next EXCEPT ![s] = head] /\ head' = s
RelistNowhere(s) ==
    LET u == Unlink(head, [next EXCEPT ![s] = Nil], s)
    IN  /\ tcb' = [tcb EXCEPT ![s] = Fresh] /\ Lose(s)
        /\ next' = u[2] /\ head' = u[1]
RelistUnclean(s) ==
    LET u == Unlink(head, [next EXCEPT ![s] = Nil], s)
    IN  /\ tcb' = [tcb EXCEPT ![s] = [Fresh EXCEPT !.rx = tcb[s].rx]] /\ Lose(s)
        /\ next' = [u[2] EXCEPT ![s] = u[1]] /\ head' = s

(* listen_again: memset wipes the socket, its link included, whether it is *)
(* threaded or not; tcp_listen then unthreads it and puts it first.  (It   *)
(* fails only when there is no network, and then znet_init has failed.)    *)
Relist(s) ==
    LET u == Unlink(head, [next EXCEPT ![s] = Nil], s)
    IN  /\ tcb' = [tcb EXCEPT ![s] = Fresh] /\ Lose(s)
        /\ next' = [u[2] EXCEPT ![s] = u[1]] /\ head' = s

(* A socket that is over leaves the list, frees the buffer it has from the *)
(* heap, and fails further ticks.                                          *)
Drop(s) ==
    LET u == Unlink(head, next, s)
    IN  /\ tcb' = [tcb EXCEPT ![s] = [@ EXCEPT !.state = "CLOSED", !.live = FALSE,
                                                  !.own = FALSE]]
        /\ head' = u[1] /\ next' = u[2] /\ UNCHANGED lost

Over(s) == tcb[s].state = "CLOSED" /\ tcb[s].live /\ tcb[s].rx = None

(* tcp_established: state >= tcp_StateESTAB, CLOSED included.  SYNOLD is   *)
(* tcp_StateSYNREC after the late copy of a SYN (NewPeerLate).             *)
Established(s) == tcb[s].state \notin {"LISTEN", "SYNREC", "SYNOLD"}

-----------------------------------------------------------------------------
Init ==
    /\ tcb = [s \in Slots |-> Fresh]
    /\ head = NumSlots /\ next = [s \in Slots |-> s - 1] /\ lost = 0
    /\ listening = [s \in Slots |-> TRUE]
    /\ client = Nil /\ pc = "poll" /\ at = 1 /\ ticking = FALSE
    /\ job = None /\ left = 0
    /\ kbd = <<>> /\ stop = FALSE
    /\ said = [c \in Conns |-> {}] /\ heard = [c \in Conns |-> {}]
    /\ stream = [c \in Conns |-> <<>>]
    /\ sent = [c \in Conns |-> 0] /\ taken = [c \in Conns |-> 0]
    /\ served = {}

-----------------------------------------------------------------------------
(* The browser, a TCP client as the server sees it. *)
Say(c, what) == /\ what \notin said[c] /\ "rst" \notin said[c]
                /\ said' = [said EXCEPT ![c] = @ \cup {what}]
                /\ UNCHANGED <<stack, server, keys, heard, stream, sent, taken, served>>

Connect(c)   == Say(c, "syn")
Handshake(c) == "synack" \in heard[c] /\ Say(c, "ack")
Request(c)   == "ack" \in said[c] /\ "fin" \notin said[c] /\ Say(c, "req")
Finish(c)    == "ack" \in said[c] /\ Say(c, "fin")
Reset(c)     == "syn" \in said[c] /\ Say(c, "rst")
Take(c) == /\ "ack" \in said[c] /\ taken[c] < sent[c]
           /\ taken' = [taken EXCEPT ![c] = @ + 1]
           /\ UNCHANGED <<stack, server, keys, said, heard, stream, sent, served>>

Browser == \E c \in Conns : \/ Connect(c) \/ Handshake(c) \/ Request(c)
                            \/ Finish(c) \/ Reset(c) \/ Take(c)

-----------------------------------------------------------------------------
(* A packet arrives in a tick.  _tcp_handler looks for the peer's socket,  *)
(* then, for a SYN, for the first socket of the list without a peer.       *)
Match(c) == {s \in Threaded : tcb[s].peer = c}
Free == {i \in 0 .. NumSlots : Link[i] # Nil /\ tcb[Link[i]].peer = None}
FirstFree == Link[CHOOSE i \in Free : \A j \in Free : i <= j]

Set(s, b) == /\ tcb' = [tcb EXCEPT ![s] = b]
             /\ UNCHANGED <<head, next, lost, server, keys>>
Answer(c, what) == /\ heard' = [heard EXCEPT ![c] = @ \cup {what}]
                   /\ UNCHANGED <<said, stream, sent, taken, served>>

(* A wrong version of NewPeer: the sockets in use are not searched first.  *)
NewPeerAlways(c) ==
    /\ ticking /\ "syn" \in said[c] /\ "ack" \notin said[c]
    /\ Free # {}
    /\ Set(FirstFree, [tcb[FirstFree] EXCEPT !.peer = c, !.state = "SYNREC"])
    /\ Answer(c, "synack")

NewPeer(c) ==
    /\ ticking /\ "syn" \in said[c] /\ "ack" \notin said[c]
    /\ Match(c) = {} /\ Free # {}
    /\ Set(FirstFree, [tcb[FirstFree] EXCEPT !.peer = c, !.state = "SYNREC"])
    /\ Answer(c, "synack")

(* A late copy of the SYN of a connection that was made: the socket keeps  *)
(* the peer, but neither the ACK nor the request of the browser fits its   *)
(* sequence numbers, and what `stream` has is none of its data.            *)
NewPeerLate(c) ==
    /\ ticking /\ "ack" \in said[c]
    /\ Match(c) = {} /\ Free # {}
    /\ Set(FirstFree, [tcb[FirstFree] EXCEPT !.peer = c, !.state = "SYNOLD",
                           !.got = TRUE, !.acked = Len(stream[c])])
    /\ Answer(c, "synack")

(* A packet for no socket is answered by a RST. *)
Refuse(c) ==
    /\ ticking /\ Match(c) = {}
    /\ \/ said[c] = {"syn"} /\ Free = {}
       \/ "ack" \in said[c]
    /\ Answer(c, "rst")
    /\ UNCHANGED <<stack, server, keys>>

(* tcp_set_window, which looks at each packet from then on: for a peer     *)
(* with a window larger than the send buffer a buffer of that size is      *)
(* taken from the heap, if it has one.                                     *)
Allocated == lost + Cardinality({s \in Slots : tcb[s].own})
Windowed(b) == {b} \cup IF Allocated < Buffers THEN {[b EXCEPT !.own = TRUE]} ELSE {}

(* tcp_synrec_state: the data that comes with the ACK is not taken. *)
Establish(s, c) ==
    /\ tcb[s].state = "SYNREC" /\ "ack" \in said[c]
    /\ \E b \in Windowed(tcb[s]) : Set(s, [b EXCEPT !.state = "ESTAB"])
    /\ UNCHANGED network

(* The request comes in one segment: of one in several, handle_client,     *)
(* which reads once (main.c:76), answers the first and no more is read.    *)
Receive(s, c) ==
    /\ tcb[s].state \in {"ESTAB", "ESTCL", "FINWT"}
    /\ "req" \in said[c] /\ ~tcb[s].got
    /\ \E b \in Windowed(tcb[s]) :
          Set(s, [b EXCEPT !.got = TRUE, !.rx = IF @ = None THEN c ELSE @])
    /\ UNCHANGED network

(* An acknowledgement; in ESTCL, which waits for it, the FIN follows. *)
Acknowledge(s, c) ==
    /\ tcb[s].state \in {"ESTAB", "ESTCL", "FINWT"}
    /\ taken[c] > tcb[s].acked
    /\ \E w \in Windowed(tcb[s]) :
       LET b == [w EXCEPT !.acked = taken[c]]
       IN  IF b.state = "ESTCL" /\ ~Pending(b)
           THEN Set(s, [b EXCEPT !.state = "FINWT"]) /\ Answer(c, "fin")
           ELSE Set(s, b) /\ UNCHANGED network

(* The browser closes: CLOSE-WAIT and our own FIN are one step to LASTACK; *)
(* FINWT1, FINWT2 and CLOSING are one state here, and so is TIMEWT.        *)
PeerFin(s, c) ==
    /\ "fin" \in said[c] /\ ("req" \in said[c] => tcb[s].got)
    /\ \/ /\ tcb[s].state \in {"ESTAB", "ESTCL"}
          /\ Set(s, [tcb[s] EXCEPT !.state = "LASTACK"])
          /\ Answer(c, "fin")
       \/ /\ tcb[s].state = "FINWT"
          /\ Set(s, [tcb[s] EXCEPT !.state = "TIMEWT"])
          /\ UNCHANGED network

LastAck(s, c) ==
    /\ tcb[s].state \in {"LASTACK", "TIMEWT"}
    /\ Set(s, [tcb[s] EXCEPT !.state = "CLOSED"])
    /\ UNCHANGED network

(* tcp_sockreset: a server's socket goes back to listening.  In LASTACK    *)
(* and CLOSED the receive buffer is kept.                                  *)
PeerReset(s, c) ==
    /\ "rst" \in said[c]
    /\ Set(s, [Fresh EXCEPT !.live = tcb[s].live, !.own = tcb[s].own,
                            !.rx = IF tcb[s].state \in {"LASTACK", "CLOSED"}
                                   THEN tcb[s].rx ELSE None])
    /\ UNCHANGED network

(* tcp_Retransmitter: data that was not sent is sent, a handshake or a     *)
(* close that takes too long is aborted, a socket that is over goes.  (A   *)
(* repeated SYN restarts the timer, so Expire waits for its last copy.)    *)
Resend(s, c) ==
    /\ Pending(tcb[s]) /\ tcb[s].state # "CLOSED"
    /\ \E n \in sent[c] + 1 .. Len(stream[c]) : sent' = [sent EXCEPT ![c] = n]
    /\ UNCHANGED <<stack, server, keys, said, heard, stream, taken, served>>

Expire(s) ==
    /\ ticking /\ s \in Threaded /\ tcb[s].state \in {"SYNREC", "SYNOLD", "LASTACK"}
    /\ Drop(s)
    /\ Answer(tcb[s].peer, "rst")
    /\ UNCHANGED <<server, keys>>

Reap(s) ==
    /\ ticking /\ s \in Threaded /\ Over(s)
    /\ Drop(s)
    /\ UNCHANGED <<server, keys, network>>

Arrival(s, c) ==
    /\ ticking /\ s \in Match(c)
    /\ \/ Establish(s, c) \/ Receive(s, c) \/ Acknowledge(s, c)
       \/ PeerFin(s, c) \/ LastAck(s, c) \/ PeerReset(s, c) \/ Resend(s, c)

Tick == \/ \E c \in Conns : \/ NewPeer(c) \/ NewPeerLate(c) \/ Refuse(c)
                             \/ \E s \in Slots : Arrival(s, c)
        \/ \E s \in Slots : Expire(s) \/ Reap(s)

-----------------------------------------------------------------------------
(* The keyboard.  check_stop_key reads one key, if there is one and no     *)
(* stop key came before.                                                   *)
Press(k) == /\ Len(kbd) < MaxKeys
            /\ kbd' = Append(kbd, k)
            /\ UNCHANGED <<stack, server, stop, network>>

StopSeen == stop \/ (kbd # <<>> /\ Head(kbd) = "stop")
(* A wrong version: the key is not remembered. *)
ReadKeyForgetful == /\ kbd' = IF kbd = <<>> THEN kbd ELSE Tail(kbd)
                    /\ stop' = stop
ReadKey == /\ kbd' = IF stop \/ kbd = <<>> THEN kbd ELSE Tail(kbd)
           /\ stop' = StopSeen

-----------------------------------------------------------------------------
(* The server. *)
Go(where) == pc' = where /\ ticking' = FALSE

(* tcp_tick begins with the socket it is called for. *)
BeginTick(s) == /\ ticking' = TRUE
                /\ IF Over(s) THEN Drop(s) ELSE UNCHANGED stack

(* main: should_stop, which reads a second key when the first is no stop.  *)
Poll ==
    /\ pc = "poll"
    /\ IF ~StopSeen /\ Len(kbd) > 1
       THEN /\ kbd' = Tail(Tail(kbd)) /\ UNCHANGED stop
            /\ Go(IF kbd[2] = "stop" THEN "ending" ELSE "accept")
       ELSE ReadKey /\ Go(IF StopSeen THEN "ending" ELSE "accept")
    /\ at' = 1
    /\ UNCHANGED <<stack, listening, client, job, left, network>>

(* znet_accept, slot by slot; past the last one main waits and polls.      *)
(* (NextSlotPast is a wrong version: one slot too many.)                   *)
NextSlotPast == IF at > NumSlots THEN at' = at /\ Go("poll")
                                 ELSE at' = at + 1 /\ Go("accept")
NextSlot == IF at = NumSlots THEN at' = at /\ Go("poll")
                             ELSE at' = at + 1 /\ Go("accept")

(* A slot that does not listen would be relisted here, but there is none:  *)
(* tcp_listen only fails without a driver, and then sock_init has failed.  *)
AcceptTick ==
    /\ pc = "accept" /\ listening[at] /\ ~ticking
    /\ BeginTick(at)
    /\ UNCHANGED <<listening, client, pc, at, job, left, keys, network>>

AcceptRestart ==
    /\ pc = "accept" /\ ticking /\ ~tcb[at].live
    /\ Relist(at)
    /\ NextSlot
    /\ UNCHANGED <<listening, client, job, left, keys, network>>

AcceptNone ==
    /\ pc = "accept" /\ ticking /\ tcb[at].live /\ ~Established(at)
    /\ NextSlot
    /\ UNCHANGED <<stack, listening, client, job, left, keys, network>>

Accept ==
    /\ pc = "accept" /\ ticking /\ tcb[at].live /\ Established(at)
    /\ client' = at /\ listening' = [listening EXCEPT ![at] = FALSE]
    /\ Go("recv")
    /\ UNCHANGED <<stack, at, job, left, keys, network>>

(* znet_recv and the parsing: the reply is of any length, none for a bad   *)
(* request.                                                                *)
RecvRequest ==
    /\ pc = "recv" /\ ~ticking /\ tcb[client].rx # None
    /\ tcb' = [tcb EXCEPT ![client].rx = None]
    /\ job' = tcb[client].rx /\ served' = served \cup {tcb[client].rx}
    /\ \E n \in 0 .. Units : left' = n /\ Go(IF n = 0 THEN "close" ELSE "send")
    /\ UNCHANGED <<head, next, lost, listening, client, at, keys,
                   said, heard, stream, sent, taken>>

RecvWait ==
    /\ pc = "recv" /\ ~ticking /\ tcb[client].rx = None
    /\ ReadKey
    /\ IF StopSeen THEN Go("close") /\ UNCHANGED stack
                   ELSE BeginTick(client) /\ UNCHANGED pc
    /\ UNCHANGED <<listening, client, at, job, left, network>>

RecvAgain ==
    /\ pc = "recv" /\ ticking /\ tcb[client].live
    /\ Go("recv")
    /\ UNCHANGED <<stack, listening, client, at, job, left, keys, network>>

(* The connection is over. *)
RecvGone ==
    /\ pc = "recv" /\ ticking /\ ~tcb[client].live
    /\ Go("close")
    /\ UNCHANGED <<stack, listening, client, at, job, left, keys, network>>

(* A wrong version of RecvTimeout: the loop has no timeout. *)
RecvForever ==
    /\ pc = "recv" /\ ticking /\ ~tcb[client].live
    /\ Go("close")
    /\ UNCHANGED <<stack, listening, client, at, job, left, keys, network>>

(* Three seconds without data. *)
RecvTimeout ==
    /\ pc = "recv" /\ ticking
    /\ Go("close")
    /\ UNCHANGED <<stack, listening, client, at, job, left, keys, network>>

CanWrite == /\ tcb[client].live /\ tcb[client].state = "ESTAB"
            /\ Len(stream[tcb[client].peer]) - tcb[client].acked < Room

(* One turn of the loop of znet_send: the key, sock_fastwrite, tcp_tick.   *)
(* What is written is sent as far as the windows and the driver allow.     *)
SendStopped ==
    /\ pc = "send" /\ ~ticking /\ StopSeen
    /\ ReadKey
    /\ Go("close")
    /\ UNCHANGED <<stack, listening, client, at, job, left, network>>

(* A wrong version of SendWrite: the count is not added up. *)
SendWriteAgain ==
    /\ pc = "send" /\ ~ticking /\ ~StopSeen /\ left > 0 /\ CanWrite
    /\ ReadKey
    /\ LET c == tcb[client].peer
       IN  /\ stream' = [stream EXCEPT ![c] = Append(@, <<job, left>>)]
           /\ \E n \in sent[c] .. Len(stream'[c]) : sent' = [sent EXCEPT ![c] = n]
    /\ \/ left' = left - 1
       \/ left' = left /\ Len(stream'[tcb[client].peer]) < Units
    /\ BeginTick(client)
    /\ UNCHANGED <<listening, client, pc, at, job, said, heard, taken, served>>

SendWrite ==
    /\ pc = "send" /\ ~ticking /\ ~StopSeen /\ left > 0 /\ CanWrite
    /\ ReadKey
    /\ LET c == tcb[client].peer
       IN  /\ stream' = [stream EXCEPT ![c] = Append(@, <<job, left>>)]
           /\ \E n \in sent[c] .. Len(stream'[c]) : sent' = [sent EXCEPT ![c] = n]
    /\ left' = left - 1
    /\ BeginTick(client)
    /\ UNCHANGED <<listening, client, pc, at, job, said, heard, taken, served>>

SendBlocked ==
    /\ pc = "send" /\ ~ticking /\ ~StopSeen /\ left > 0 /\ ~CanWrite
    /\ ReadKey
    /\ BeginTick(client)
    /\ UNCHANGED <<listening, client, pc, at, job, left, network>>

SendAgain ==
    /\ pc = "send" /\ ticking /\ tcb[client].live /\ left > 0
    /\ Go("send")
    /\ UNCHANGED <<stack, listening, client, at, job, left, keys, network>>

SendDone ==
    /\ pc = "send" /\ ticking /\ tcb[client].live /\ left = 0
    /\ Go("close")
    /\ UNCHANGED <<stack, listening, client, at, job, left, keys, network>>

SendGone ==
    /\ pc = "send" /\ ticking /\ ~tcb[client].live
    /\ Go("close")
    /\ UNCHANGED <<stack, listening, client, at, job, left, keys, network>>

(* Fifteen seconds without progress. *)
SendTimeout ==
    /\ pc = "send" /\ ~ticking /\ ~StopSeen /\ left > 0 /\ ~CanWrite
    /\ ReadKey
    /\ Go("close")
    /\ UNCHANGED <<stack, listening, client, at, job, left, network>>

(* _tcp_close.  With data that is not acknowledged the FIN has to wait. *)
Closing(b) == IF b.state \in {"SYNREC", "SYNOLD", "ESTAB", "ESTCL"}
              THEN [b EXCEPT !.state = IF Pending(b) THEN "ESTCL" ELSE "FINWT"]
              ELSE b

(* znet_close: sock_close and tcp_tick, then the slot listens again, and   *)
(* main asks for the stop key.                                             *)
Close ==
    /\ pc = "close" /\ ~ticking
    /\ IF Over(client)
       THEN Drop(client) /\ UNCHANGED heard
       ELSE /\ tcb' = [tcb EXCEPT ![client] = IF @.live THEN Closing(@) ELSE @]
            /\ heard' = IF tcb'[client].state = "FINWT" /\ tcb[client].peer # None
                        THEN [heard EXCEPT ![tcb[client].peer] = @ \cup {"fin"}]
                        ELSE heard
            /\ UNCHANGED <<head, next, lost>>
    /\ ticking' = TRUE
    /\ UNCHANGED <<listening, client, pc, at, job, left, keys,
                   said, stream, sent, taken, served>>

Closed ==
    /\ pc = "close" /\ ticking
    /\ Relist(client) /\ listening' = [listening EXCEPT ![client] = TRUE]
    /\ client' = Nil /\ job' = None /\ left' = 0
    /\ ReadKey
    /\ Go(IF StopSeen THEN "ending" ELSE "poll")
    /\ UNCHANGED <<at, network>>

(* znet_close for the server: the slots that listen are closed. *)
End ==
    /\ pc = "ending"
    /\ tcb' = [s \in Slots |-> IF listening[s] /\ tcb[s].live
                               THEN Closing(tcb[s]) ELSE tcb[s]]
    /\ listening' = [s \in Slots |-> FALSE]
    /\ Go("stopped")
    /\ UNCHANGED <<head, next, lost, client, at, job, left, keys, network>>

Server == \/ Poll
          \/ AcceptTick \/ AcceptRestart \/ AcceptNone \/ Accept
          \/ RecvRequest \/ RecvWait \/ RecvAgain \/ RecvGone \/ RecvTimeout
          \/ SendStopped \/ SendWrite \/ SendBlocked
          \/ SendAgain \/ SendDone \/ SendGone \/ SendTimeout
          \/ Close \/ Closed \/ End

Next == Server \/ Tick \/ Browser \/ \E k \in {"stop", "other"} : Press(k)

Spec == Init /\ [][Next]_vars

(* The server runs; its timeouts come to pass, and so do the timers of     *)
(* Watt-32: the network has an end of the copies of a SYN, each of which   *)
(* restarts the timer.  The browser and the user owe nothing else.         *)
FairSpec == /\ Spec
            /\ WF_vars(Server)
            /\ SF_vars(RecvTimeout) /\ SF_vars(SendTimeout)
            /\ \A s \in 1 .. NumSlots : SF_vars(Expire(s))

-----------------------------------------------------------------------------
(* Properties. *)
States == {"LISTEN", "SYNREC", "SYNOLD", "ESTAB", "ESTCL", "FINWT", "LASTACK", "TIMEWT",
           "CLOSED"}

TypeOK ==
    /\ tcb \in [Slots -> [state : States, peer : Conns \cup {None}, live : BOOLEAN,
                          rx : Conns \cup {None}, got : BOOLEAN, acked : Nat,
                          own : BOOLEAN]]
    /\ lost \in 0 .. Buffers
    /\ head \in Slots \cup {Nil} /\ next \in [Slots -> Slots \cup {Nil}]
    /\ listening \in [Slots -> BOOLEAN] /\ client \in Slots \cup {Nil}
    /\ pc \in {"poll", "accept", "recv", "send", "close", "ending", "stopped"}
    /\ at \in Slots /\ ticking \in BOOLEAN
    /\ job \in Conns \cup {None} /\ left \in 0 .. Units
    /\ kbd \in Seq({"stop", "other"}) /\ stop \in BOOLEAN
    /\ said \in [Conns -> SUBSET {"syn", "ack", "req", "fin", "rst"}]
    /\ heard \in [Conns -> SUBSET {"synack", "fin", "rst"}]
    /\ stream \in [Conns -> Seq(Conns \X (1 .. Units))]
    /\ sent \in [Conns -> Nat] /\ taken \in [Conns -> Nat]
    /\ served \subseteq Conns

(* Although listen_again wipes a socket that is linked, link and all, the  *)
(* list never runs in a circle, in which _tcp_handler and                  *)
(* tcp_Retransmitter would never come back.                                *)
ListEnds == Link[NumSlots] = Nil

(* Two sockets of the list never have the same peer: every packet of a     *)
(* connection goes to one socket.                                          *)
OneSocketPerPeer ==
    \A s, t \in Threaded : tcb[s].peer = tcb[t].peer /\ tcb[s].peer # None => s = t

(* What a connection is sent is a stretch of one reply, in order, with     *)
(* nothing repeated and nothing left out in between.                       *)
StretchOfOneReply ==
    \A c \in Conns : \A i \in 1 .. Len(stream[c]) - 1 :
        stream[c][i + 1] = <<stream[c][i][1], stream[c][i][2] - 1>>

(* A connection is sent the reply to another one's request only when the   *)
(* other one was reset by the browser in the middle: its socket goes back  *)
(* to listening under znet_send, and the next connection gets the rest.    *)
MixedOnlyAfterReset ==
    \A c \in Conns : \A i \in 1 .. Len(stream[c]) :
        stream[c][i][1] # c => "rst" \in said[stream[c][i][1]]

(* Read without sockets and packets, the server answers one request after  *)
(* the other, none of them twice, each to the connection that asked and    *)
(* from its first segment on (main.c:71-143).                              *)
Promise == INSTANCE Replies WITH gone <- {c \in Conns : "rst" \in said[c]}
AnswersInTurn == Promise!Spec

(* A stop key (Ctrl-X, Ctrl-C, Esc) ends the server, whatever the browser  *)
(* does, and also in the middle of a transfer (ZHTTP_BUILD.TXT:78).        *)
StopKeyStops == (\E i \in 1 .. Len(kbd) : kbd[i] = "stop") ~> pc = "stopped"

(* No connection holds the server for ever: one that says nothing, one     *)
(* that takes nothing, one that is reset.                                  *)
EveryClientEnds == client # Nil ~> client = Nil

(* The server never goes deaf for good: again and again some socket of the *)
(* list waits for a connection.                                            *)
Hears == \E s \in Threaded : tcb[s].state = "LISTEN"
HearsAgain == []<>(Hears \/ pc = "stopped")

-----------------------------------------------------------------------------
(* What the comments and the notes say and the code does not do.           *)

(* tcp_listen unthreads a socket first, "just in case not totally closed"  *)
(* (pctcp.c:399).  listen_again has wiped its link by then, and the        *)
(* sockets behind it in the list are lost.                                 *)
ListeningIsThreaded ==
    \A s \in Slots : listening[s] /\ tcb[s].state = "LISTEN" => s \in Threaded

(* _tcp_unthread: "Free Tx-buffer if set in tcp_set_window()"              *)
(* (pctcp.c:598).  listen_again has wiped the pointer, and a connection    *)
(* costs up to 32 KB of the far heap, from which fopen takes its own.      *)
NoBufferIsLost == lost = 0
=============================================================================
