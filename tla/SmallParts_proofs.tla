-------------------------- MODULE SmallParts_proofs --------------------------
(***************************************************************************)
(* Proofs about two parts that share no variable: Preview and HeaderHash.  *)
(*                                                                         *)
(* Preview, for any numbers typed as a port, files of any size and any     *)
(* number of requests: what is served is what was asked for, one command   *)
(* starts one server, and while the disk works the log tells what was      *)
(* sent.  Each phase of the two programs is given what it has settled: the *)
(* port and the directory once the arguments are read, the number of       *)
(* servers started, and how much of a file was handed over.                *)
(*                                                                         *)
(* HeaderHash, for header fields of any length and a hash of any width in  *)
(* which 33 has an inverse: one byte that is corrected changes the hash.   *)
(* A difference enters with that byte and survives every later one; this   *)
(* is an induction over the text, and it stands on the smallest element of *)
(* a set of numbers.                                                       *)
(***************************************************************************)
EXTENDS Preview, HeaderHash, WellFoundedInduction, TLAPS

Before == {"arguments", "build", "resolve", "first", "second"}
Settled == {"resolve", "first", "second", "child", "child above"}
Over == {"invalid port", "no such directory", "build failed", "no OUT", "no zhttp", "ended"}

(* The directory that the arguments ask for. *)
AskedDir == IF HasDir THEN "site" ELSE "here"
NamedOut == HasDir /\ args[1].kind = "out"
RightDocs == IF NamedOut THEN docs = "named" /\ dir = "here"
             ELSE docs = dir /\ result = dir /\ dir = AskedDir

Places ==
    /\ phase \in Before \cup {"child", "child above"} \cup Over
    /\ phase = "arguments" => dir = "here"
    /\ phase = "build" => port = PortArg /\ ~NamedOut /\ dir = AskedDir
    /\ phase \in Settled => port = PortArg /\ RightDocs
    /\ bound # 0 => phase \in {"child", "child above"} /\ IsPort(port) /\ bound = Word(port)

Started == /\ children \in {0, 1}
           /\ phase \in Before => children = 0

(* What is handed over; the length is 0 where ftell failed. *)
Part(reads) == [length |-> request.size, reads |-> reads]
Unsized(reads) == [length |-> 0, reads |-> reads]
Handed(reads) == \/ handed = Part(reads)
                 \/ diskError /\ handed = Unsized(reads)
WholeReply == Part(IF request.head THEN 0 ELSE request.size)

Answers ==
    /\ busy \in BOOLEAN
    /\ request \in Requests \cup {NoRequest}
    /\ request.target = "file" =>
          /\ left \in Nat
          /\ busy => IF handed = Nothing THEN left = request.size
                     ELSE Handed(IF request.head THEN 0 ELSE request.size - left)
          /\ ~busy => /\ handed = WholeReply => logged = 200
                      /\ logged = 200 /\ ~diskError => handed = WholeReply

IInv == Places /\ Started /\ Answers

-----------------------------------------------------------------------------
(* The ports. *)

LEMMA PortRange ==
    ASSUME NEW n, IsPort(n) PROVE n \in Nat /\ 0 < n /\ n < 65536
BY SMTT(30) DEF IsPort

(* What an int makes of a port is that port, or no port at all. *)
LEMMA Int16Port ==
    ASSUME NEW n, IsPort(n), IsPort(Int16(n)) PROVE Word(Int16(n)) = n
<1>0. n \in Nat /\ 0 < n /\ n < 65536
 BY PortRange
<1>1. n % 65536 = n
  BY <1>0
<1>2. Int16(n) = IF n < 32768 THEN n ELSE n - 65536
  BY <1>1 DEF Int16
<1>3. Int16(n) = n
  <2>1. ~(0 < n - 65536)
    BY <1>0
  <2>2. ~IsPort(n - 65536)
    BY <2>1, PortRange
  <2> QED BY <1>2, <2>2
<1> QED BY <1>1, <1>3 DEF Word

LEMMA PortArgBound ==
    ASSUME IsPort(PortArg)
    PROVE  Word(PortArg) = IF LastIsPort THEN args[Len(args)].n ELSE 8080
<1>1. CASE LastIsPort
  BY <1>1, Int16Port DEF LastIsPort, PortArg
<1>2. CASE ~LastIsPort
  BY <1>2 DEF PortArg, DefaultPort, Word
<1> QED BY <1>1, <1>2

-----------------------------------------------------------------------------
(* The invariant. *)

LEMMA InitInv == ServeInit => IInv
<1> SUFFICES ASSUME ServeInit PROVE IInv
  OBVIOUS
<1> USE DEF ServeInit
<1>1. Places /\ Started
  BY DEF Places, Started, Before, Settled
<1>2. Answers
  BY DEF Answers, NoRequest
<1> QED BY <1>1, <1>2 DEF IInv

(* The steps of zine.exe leave what zhttp.exe has answered alone. *)
LEMMA ZineInv == ASSUME IInv, Zine PROVE IInv'
<1>1. UNCHANGED <<args, bound, answer>>
  BY DEF Zine, InvalidPort, ServeOut, ServeSite, NoSuchDir, BuildDone, BuildFailed, NoDocs,
         Resolved, NotHere, NotAbove, Launch, Ends
<1>2. Answers'
  BY <1>1 DEF IInv, Answers, Handed, Unsized, WholeReply, Part, answer
<1>3. bound = 0
  BY DEF IInv, Places, Zine, InvalidPort, ServeOut, ServeSite, NoSuchDir, BuildDone, BuildFailed,
         NoDocs, Resolved, NotHere, NotAbove, Launch
<1>4. PortArg' = PortArg /\ HasDir' = HasDir /\ NamedOut' = NamedOut /\ AskedDir' = AskedDir
  BY <1>1 DEF PortArg, LastIsPort, HasDir, NamedOut, AskedDir
<1> USE <1>1, <1>3, <1>4 DEF IInv, Places, Started, Before, Settled, Over
<1>5. CASE InvalidPort \/ NoSuchDir \/ BuildFailed \/ NoDocs \/ NotAbove
  <2>1. Places' /\ Started'
    BY <1>5 DEF InvalidPort, NoSuchDir, BuildFailed, NoDocs, NotAbove, Ends
  <2> QED BY <1>2, <2>1
<1>6. CASE Resolved \/ NotHere
  <2>1. RightDocs' = RightDocs
    BY <1>6 DEF Resolved, NotHere, Ends, RightDocs
  <2>2. Places' /\ Started'
    BY <1>6, <2>1 DEF Resolved, NotHere, Ends
  <2> QED BY <1>2, <2>2
<1>7. CASE ServeOut
  <2>1. NamedOut /\ RightDocs'
    BY <1>7 DEF ServeOut, NamedOut, RightDocs
  <2>2. Places' /\ Started'
    BY <1>7, <2>1 DEF ServeOut
  <2> QED BY <1>2, <2>2
<1>8. CASE ServeSite
  <2>1. ~NamedOut /\ dir' = AskedDir
    BY <1>8 DEF ServeSite, NamedOut, AskedDir
  <2>2. Places' /\ Started'
    BY <1>8, <2>1 DEF ServeSite
  <2> QED BY <1>2, <2>2
<1>9. CASE BuildDone
  <2>1. RightDocs'
    BY <1>9 DEF BuildDone, RightDocs
  <2>2. Places' /\ Started'
    BY <1>9, <2>1 DEF BuildDone
  <2> QED BY <1>2, <2>2
<1>10. CASE Launch
  <2>1. RightDocs' = RightDocs
    BY <1>10 DEF Launch, RightDocs
  <2>2. /\ phase \in {"first", "second"} /\ phase' \in {"child", "child above"}
        /\ children' = children + 1 /\ port' = port
    BY <1>10 DEF Launch
  <2>3. Places'
    BY <2>1, <2>2
  <2>4. Started'
    <3>1. children = 0
      BY <2>2
    <3>2. children' = 1
      <4>1. children' = 0 + 1
        BY <2>2, <3>1, Zenon
      <4> HIDE DEF Places, Started, IInv
      <4> QED BY <4>1
    <3>3. phase' \notin Before
      BY <2>2
    <3> QED BY <3>2, <3>3
  <2> QED BY <1>2, <2>3, <2>4
<1> QED BY <1>5, <1>6, <1>7, <1>8, <1>9, <1>10 DEF Zine

LEMMA ServerSteps ==
    ASSUME IInv, UNCHANGED server PROVE Places' /\ Started'
BY DEF IInv, Places, Started, RightDocs, NamedOut, AskedDir, PortArg, LastIsPort, HasDir, server

LEMMA FileRequest ==
    ASSUME NEW r \in Requests, r.target = "file"
    PROVE  r.size \in Nat /\ r.head \in BOOLEAN
BY ChunksAssumption DEF Requests

LEMMA Parts ==
    ASSUME NEW m, NEW n
    PROVE  /\ Part(m) = Part(n) => m = n
           /\ Unsized(m) = Part(n) => m = n
           /\ request.size \in Nat => Part(m) # Nothing
           /\ Unsized(m) # Nothing
<1>1. /\ Part(m).reads = m /\ Part(n).reads = n /\ Part(m).length = request.size
      /\ Unsized(m).reads = m /\ Unsized(m).length = 0
  BY DEF Part, Unsized
<1>2. Nothing.length = -1
  BY DEF Nothing
<1> QED BY <1>1, <1>2

(* The steps of zhttp.exe towards a client. *)
LEMMA LogsInv ==
    ASSUME IInv, NEW status, Logs(status), busy,
           request.target = "file" =>
               /\ handed' = WholeReply => status = 200
               /\ status = 200 /\ ~diskError' => handed' = WholeReply
    PROVE  IInv'
<1> USE DEF Logs
<1>1. Places' /\ Started'
  BY ServerSteps
<1>2. WholeReply' = WholeReply
  BY DEF WholeReply, Part
<1>3. Answers'
  BY <1>2 DEF IInv, Answers
<1> QED BY <1>1, <1>3 DEF IInv

LEMMA AcceptInv == ASSUME IInv, NEW r \in Requests, Accept(r) PROVE IInv'
<1> USE DEF Accept
<1>1. Places' /\ Started'
  BY ServerSteps
<1>2. request.target' = "file" => left' \in Nat /\ left' = request'.size
  BY FileRequest
<1>3. Answers'
  BY <1>2 DEF Answers
<1> QED BY <1>1, <1>3 DEF IInv

LEMMA FileInv ==
    ASSUME IInv, SendHead \/ HeadFails \/ SendRead \/ ReadFails \/ ReadEndsEarly \/ FileSent
    PROVE  IInv'
<1>1. /\ request.target = "file" /\ busy /\ request \in Requests
      /\ request.size \in Nat /\ request.head \in BOOLEAN /\ left \in Nat
      /\ IF handed = Nothing THEN left = request.size
         ELSE Handed(IF request.head THEN 0 ELSE request.size - left)
  BY FileRequest DEF IInv, Answers, NoRequest, SendHead, HeadFails, SendRead, ReadFails,
                     ReadEndsEarly, FileSent, AtFile, Asked
<1>2. CASE SendHead
  <2>1. /\ handed = Nothing /\ UNCHANGED <<server, busy, request, left, logged, requests>>
        /\ handed' = Part(0) \/ (diskError' /\ handed' = Unsized(0))
    BY <1>2 DEF SendHead, Part, Unsized
  <2>2. Places' /\ Started'
    BY <2>1, ServerSteps
  <2>3. request.size - left = 0 /\ handed' # Nothing
    BY <1>1, <2>1, Parts
  <2>4. Handed(IF request.head THEN 0 ELSE request.size - left)'
    BY <2>1, <2>3 DEF Handed, Part, Unsized
  <2>5. Answers'
    BY <1>1, <2>1, <2>3, <2>4 DEF IInv, Answers
  <2> QED BY <2>2, <2>5 DEF IInv
<1>3. CASE HeadFails
  <2>1. handed' = Nothing /\ Logs(500)
    BY <1>3 DEF HeadFails, Reply
  <2>2. handed' # WholeReply
    BY <1>1, <2>1, Parts DEF WholeReply
  <2> QED BY <1>1, <2>1, <2>2, LogsInv
<1>4. CASE SendRead
  <2>1. /\ handed # Nothing /\ ~request.head /\ left > 0 /\ left' = left - 1
        /\ handed' = [handed EXCEPT !.reads = @ + 1]
        /\ UNCHANGED <<server, busy, request, logged, diskError, requests>>
    BY <1>4 DEF SendRead
  <2>2. Places' /\ Started'
    BY <2>1, ServerSteps
  <2>3. Handed(request.size - left)
    BY <1>1, <2>1
  <2>4. /\ left - 1 \in Nat
        /\ \/ handed' = Part(request.size - (left - 1))
           \/ diskError /\ handed' = Unsized(request.size - (left - 1))
    BY <1>1, <2>1, <2>3 DEF Handed, Part, Unsized
  <2>5. handed' # Nothing
    BY <1>1, <2>4, Parts
  <2>6. Handed(request.size - left)'
    BY <2>1, <2>4 DEF Handed, Part, Unsized
  <2>7. Answers'
    BY <1>1, <2>1, <2>4, <2>5, <2>6 DEF IInv, Answers
  <2> QED BY <2>2, <2>7 DEF IInv
<1>5. ASSUME handed # Nothing, ~request.head, left > 0 PROVE handed # WholeReply
  <2>1. Handed(request.size - left) /\ request.size - left # request.size
    BY <1>1, <1>5
  <2> QED BY <1>5, <2>1, Parts DEF Handed, WholeReply
<1>6. CASE ReadFails
  <2>1. Logs(500) /\ handed' # WholeReply
    BY <1>5, <1>6 DEF ReadFails, Reply
  <2> QED BY <1>1, <2>1, LogsInv
<1>7. CASE ReadEndsEarly
  <2>1. Logs(200) /\ handed' # WholeReply /\ diskError'
    BY <1>5, <1>7 DEF ReadEndsEarly
  <2> QED BY <1>1, <2>1, LogsInv
<1>8. CASE FileSent
  <2>1. handed # Nothing /\ (request.head \/ left = 0) /\ Logs(200)
        /\ handed' = handed /\ diskError' = diskError
    BY <1>8 DEF FileSent, Reply
  <2>2. ~request.head => request.size - left = request.size
    BY <1>1, <2>1
  <2>3. ~diskError => handed = WholeReply
    BY <1>1, <2>1, <2>2 DEF Handed, WholeReply
  <2> QED BY <1>1, <2>1, <2>3, LogsInv
<1> QED BY <1>2, <1>3, <1>4, <1>6, <1>7, <1>8

LEMMA ZhttpInv == ASSUME IInv, Zhttp PROVE IInv'
<1>1. ASSUME NEW r \in Requests, Accept(r) PROVE IInv'
  BY <1>1, AcceptInv
<1>2. CASE SendHead \/ HeadFails \/ SendRead \/ ReadFails \/ ReadEndsEarly \/ FileSent
  BY <1>2, FileInv
<1>3. CASE Silent \/ BadRequest \/ Favicon \/ NotFound
  <2>1. busy /\ request.target # "file" /\ (Logs(0) \/ Logs(400) \/ Logs(204) \/ Logs(404))
    BY <1>3 DEF Silent, BadRequest, Favicon, NotFound, Asked, Reply
  <2>2. Places' /\ Started'
    BY <2>1, ServerSteps DEF Logs
  <2>3. request' = request /\ busy' = FALSE
    BY <2>1 DEF Logs
  <2>4. Answers'
    BY <2>1, <2>3 DEF IInv, Answers
  <2> QED BY <2>2, <2>4 DEF IInv
<1>4. CASE PortRefused \/ NoNetwork \/ StopKey
  <2>1. phase' = "ended" /\ bound' = 0 /\ UNCHANGED <<children, answer>>
    BY <1>4 DEF PortRefused, NoNetwork, StopKey, Gone, ChildExits
  <2>2. Places' /\ Started'
    BY <2>1 DEF IInv, Places, Started, Over, Before, Settled
  <2>3. Answers'
    BY <2>1 DEF IInv, Answers, Handed, Unsized, WholeReply, Part, answer
  <2> QED BY <2>2, <2>3 DEF IInv
<1>5. CASE Listen
  <2>1. /\ IsPort(port) /\ bound' = Word(port) /\ phase \in {"child", "child above"}
        /\ UNCHANGED <<args, dir, result, docs, port, phase, children, answer>>
    BY <1>5 DEF Listen, Running
  <2>2. Places' /\ Started'
    BY <2>1 DEF IInv, Places, Started, RightDocs, NamedOut, AskedDir, PortArg, LastIsPort, HasDir
  <2>3. Answers'
    BY <2>1 DEF IInv, Answers, Handed, Unsized, WholeReply, Part, answer
  <2> QED BY <2>2, <2>3 DEF IInv
<1> QED BY <1>1, <1>2, <1>3, <1>4, <1>5 DEF Zhttp

LEMMA NextInv == IInv /\ [ServeNext]_serveVars => IInv'
<1> SUFFICES ASSUME IInv, [ServeNext]_serveVars PROVE IInv'
  OBVIOUS
<1>1. CASE ServeNext
  BY <1>1, ZineInv, ZhttpInv DEF ServeNext
<1>2. CASE UNCHANGED serveVars
  <2>1. UNCHANGED server /\ UNCHANGED answer
    BY <1>2 DEF serveVars, server
  <2>2. Answers'
    BY <2>1 DEF IInv, Answers, Handed, Unsized, WholeReply, Part, answer
  <2> QED BY <2>1, <2>2, ServerSteps DEF IInv
<1> QED BY <1>1, <1>2

(* Every reachable state satisfies the inductive invariant. *)
THEOREM AlwaysIInv == ServeSpec => []IInv
BY InitInv, NextInv, PTL DEF ServeSpec

(* The server is on the port that was typed and serves the directory that  *)
(* was asked for, whatever number is typed (zine main.c:223-296,           *)
(* preview.c:94-143, zhttp main.c:16-43).                                  *)
THEOREM WhatWasAsked == ServeSpec => []ServedIsAsked
<1>1. IInv => ServedIsAsked
  <2> SUFFICES ASSUME IInv, bound # 0
               PROVE  bound = (IF LastIsPort THEN args[Len(args)].n ELSE 8080) /\ RightDocs
    BY DEF ServedIsAsked, RightDocs, NamedOut, AskedDir
  <2>1. phase \in {"child", "child above"} /\ IsPort(port) /\ bound = Word(port)
    BY DEF IInv, Places
  <2>2. port = PortArg /\ RightDocs
    BY <2>1 DEF IInv, Places, Settled
  <2>3. IsPort(PortArg) /\ bound = Word(PortArg)
    BY <2>1, <2>2
  <2>4. Word(PortArg) = IF LastIsPort THEN args[Len(args)].n ELSE 8080
    BY <2>3, PortArgBound
  <2> QED BY <2>2, <2>3, <2>4
<1> QED BY <1>1, AlwaysIInv, PTL

(* One command starts at most one server (preview.c:130-138). *)
THEOREM OnlyOneServer == ServeSpec => []OneServer
<1>1. IInv => OneServer
  BY DEF IInv, Started, OneServer
<1> QED BY <1>1, AlwaysIInv, PTL

(* As long as the disk works, the log line of a file says 200 exactly when *)
(* all of the file was handed over, and a disk that fails never makes a    *)
(* failure of a whole reply, for files of any size (serve_file.c:103-136). *)
THEOREM LogIsTrue == ServeSpec => []LogTellsTheTruth
<1>1. IInv => LogTellsTheTruth
  BY DEF IInv, Answers, WholeReply, Part, LogTellsTheTruth
<1> QED BY <1>1, AlwaysIInv, PTL

-----------------------------------------------------------------------------
(* The header hash. *)

(* Every set of numbers has a smallest one: what an induction stands on.   *)
LEMMA Smallest ==
    ASSUME NEW T \in SUBSET Nat, T # {}
    PROVE  \E x \in T : \A y \in T : ~(y < x)
<1> DEFINE R == {ss \in Nat \X Nat : ss[1] < ss[2]}
<1>1. R = OpToRel(<, Nat)
  BY DEF OpToRel
<1>2. IsWellFoundedOn(R, Nat)
  BY <1>1, NatLessThanWellFounded
<1> HIDE DEF R
<1>3. PICK x \in T : \A y \in T : <<y, x>> \notin R
  BY <1>2, WFMin
<1>4. \A y \in T : y < x => <<y, x>> \in R
  BY DEF R
<1> QED
  BY <1>3, <1>4

(* Induction up to n, over a set of numbers. *)
LEMMA UpTo ==
    ASSUME NEW n \in Nat, NEW P, 0 \in P,
           \A m \in 1 .. n : m - 1 \in P => m \in P
    PROVE  0 .. n \subseteq P
<1> DEFINE T == {m \in 0 .. n : m \notin P}
<1> SUFFICES ASSUME T # {} PROVE FALSE
  OBVIOUS
<1>1. T \in SUBSET Nat
  OBVIOUS
<1> HIDE DEF T
<1>2. PICK x \in T : \A y \in T : ~(y < x)
  BY <1>1, Smallest
<1>3. x \in 0 .. n /\ x \notin P
  BY <1>2 DEF T
<1>4. x \in 1 .. n /\ x - 1 \in 0 .. n /\ x - 1 < x
  BY <1>3
<1>5. x - 1 \in P
  BY <1>2, <1>4 DEF T
<1> QED
  BY <1>3, <1>4, <1>5

Words == 0 .. HashSize - 1
Octets == 1 .. 255

(* 33 has an inverse: what was multiplied by it is known. *)
LEMMA Cancel ==
    ASSUME NEW a \in Words, NEW b \in Words, NEW c \in Octets,
           HashByte(a, c) = HashByte(b, c)
    PROVE  a = b
<1> DEFINE M == HashSize
<1>1. M \in Nat /\ M > 256
  BY HashSizeAssumption
<1>2. PICK k \in 1 .. M - 1 : (33 * k) % M = 1
  BY HashSizeAssumption
<1> HIDE DEF M
<1>3. \A x \in Nat : \E q \in Nat : x = M * q + (x % M)
  <2> TAKE x \in Nat
  <2>1. x \div M \in Nat /\ x = M * (x \div M) + (x % M)
    BY <1>1
  <2> QED
    BY <2>1
<1>4. PICK r \in Nat : 33 * k = M * r + 1
  <2>1. 33 * k \in Nat
    BY <1>1, <1>2
  <2> QED
    BY <2>1, <1>2, <1>3
<1>5. PICK p \in Nat : a * 33 + c = M * p + ((a * 33 + c) % M)
  <2>1. a * 33 + c \in Nat
    BY <1>1 DEF Words, Octets
  <2> QED
    BY <2>1, <1>3
<1>6. PICK q \in Nat : b * 33 + c = M * q + ((b * 33 + c) % M)
  <2>1. b * 33 + c \in Nat
    BY <1>1 DEF Words, Octets
  <2> QED
    BY <2>1, <1>3
<1>7. 33 * (a - b) = M * (p - q)
  <2>1. (a * 33 + c) % M = (b * 33 + c) % M
    BY DEF HashByte, M
  <2>2. a \in Int /\ b \in Int /\ c \in Int
    BY <1>1 DEF Words, Octets
  <2>3. (a * 33 + c) % M \in Int
    BY <1>1, <2>2
  <2>4. 33 * (a - b) = M * p - M * q
    BY <2>1, <2>2, <2>3, <1>1, <1>5, <1>6
  <2> QED
    BY <2>4, <1>1
<1>8. a - b = M * (k * (p - q) - r * (a - b))
  <2>1. a \in Int /\ b \in Int /\ k \in Int
    BY <1>1, <1>2 DEF Words
  <2> DEFINE d == a - b
             e == p - q
  <2>2. d \in Int /\ e \in Int
    BY <2>1
  <2>3. 33 * d = M * e
    BY <1>7
  <2> HIDE DEF d, e
  <2>4. (33 * k) * d = (M * r + 1) * d
    BY <1>4
  <2>5. (33 * k) * d = k * (33 * d)
    BY <2>1, <2>2
  <2>6. k * (33 * d) = M * (k * e)
    BY <2>1, <2>2, <2>3, <1>1
  <2>7. (M * r + 1) * d = M * (r * d) + d
    BY <2>2, <1>1
  <2>8. M * (k * e) - M * (r * d) = d
    <3>1. M * (k * e) \in Int /\ M * (r * d) \in Int
      BY <2>1, <2>2, <1>1
    <3> QED
      BY <2>2, <2>4, <2>5, <2>6, <2>7, <3>1
  <2>9. M * (k * e) - M * (r * d) = M * (k * e - r * d)
    <3>1. k * e \in Int /\ r * d \in Int
      BY <2>1, <2>2
    <3> QED
      BY <3>1, <1>1
  <2> QED
    BY <2>8, <2>9 DEF d, e
<1>9. a - b > -M /\ a - b < M
  BY <1>1 DEF Words, M
<1>10. \A z \in Int : M * z > -M /\ M * z < M => z = 0
  BY <1>1
<1>11. k * (p - q) - r * (a - b) \in Int
  BY <1>1, <1>2 DEF Words
<1> QED
  <2>1. k * (p - q) - r * (a - b) = 0
    BY <1>8, <1>9, <1>10, <1>11
  <2>2. a - b = 0
    BY <2>1, <1>8, <1>1
  <2> QED
    BY <2>2, <1>1 DEF Words

(* A byte is below the number of hashes: another byte, another hash.       *)
LEMMA OtherByte ==
    ASSUME NEW a \in Words, NEW c \in Octets, NEW d \in Octets,
           HashByte(a, c) = HashByte(a, d)
    PROVE  c = d
<1> DEFINE M == HashSize
<1>1. M \in Nat /\ M > 256 /\ a \in Nat /\ c \in 1 .. 255 /\ d \in 1 .. 255
  BY HashSizeAssumption DEF Words, Octets
<1>2. (a * 33 + c) % M = (a * 33 + d) % M
  BY DEF HashByte
<1> HIDE DEF M
<1> DEFINE x == a * 33 + c
           y == a * 33 + d
<1>3. x \in Int /\ y \in Int /\ x - y = c - d
  BY <1>1
<1>4. x % M = y % M
  BY <1>2
<1> HIDE DEF x, y
<1>5. x = M * (x \div M) + (x % M) /\ x \div M \in Int /\ x % M \in Int
  BY <1>1, <1>3
<1>6. y = M * (y \div M) + (y % M) /\ y \div M \in Int
  BY <1>1, <1>3
<1> DEFINE p == x \div M
           q == y \div M
<1>7. p \in Int /\ q \in Int /\ x - y = M * p - M * q
  BY <1>1, <1>3, <1>4, <1>5, <1>6
<1> HIDE DEF p, q
<1>8. c - d = M * (p - q)
  BY <1>1, <1>3, <1>7
<1>9. \A z \in Int : M * z > -M /\ M * z < M => z = 0
  BY <1>1
<1>10. c - d > -M /\ c - d < M
  BY <1>1
<1>11. p - q = 0
  BY <1>7, <1>8, <1>9, <1>10
<1> QED
  BY <1>8, <1>11, <1>1

(* The recursion of HashesOf is well founded. *)
LEMMA Unfolded ==
    ASSUME NEW hash \in Words, NEW text \in Seq(Octets)
    PROVE  HashesOf(hash, text) =
               [n \in 0 .. Len(text) |->
                   IF n = 0 THEN hash ELSE HashByte(HashesOf(hash, text)[n - 1], text[n])]
<1> DEFINE L == Len(text)
           Step(p, n) == IF n = 0 THEN hash ELSE HashByte(p[n - 1], text[n])
           Reached == {m \in 0 .. L : \E p : p = [n \in 0 .. m |-> Step(p, n)]}
<1>1. L \in Nat
  OBVIOUS
<1>2. 0 \in Reached
  <2> DEFINE p == [n \in 0 .. 0 |-> hash]
  <2>1. p = [n \in 0 .. 0 |-> Step(p, n)]
    OBVIOUS
  <2> HIDE DEF p
  <2> QED
    BY <2>1, <1>1
<1>3. ASSUME NEW m \in 1 .. L, m - 1 \in Reached PROVE m \in Reached
  <2>1. PICK p : p = [n \in 0 .. m - 1 |-> Step(p, n)]
    BY <1>3
  <2> DEFINE q == [n \in 0 .. m |-> IF n = m THEN HashByte(p[m - 1], text[m]) ELSE p[n]]
  <2>2. ASSUME NEW n \in 0 .. m PROVE q[n] = Step(q, n)
    <3>1. CASE n = 0
      <4>1. 0 \in 0 .. m - 1 /\ n # m
        BY <3>1, <1>1
      <4>2. q[n] = p[0]
        BY <3>1, <4>1
      <4> QED
        BY <2>1, <3>1, <4>1, <4>2
    <3>2. CASE n = m
      <4>1. m - 1 \in 0 .. m /\ m - 1 # m /\ n # 0
        BY <3>2, <1>1
      <4>2. q[m - 1] = p[m - 1] /\ q[n] = HashByte(p[m - 1], text[m])
        BY <4>1, <3>2
      <4> QED
        BY <4>1, <4>2, <3>2
    <3>3. CASE n # 0 /\ n # m
      <4>1. n \in 0 .. m - 1 /\ n - 1 \in 0 .. m - 1 /\ n - 1 \in 0 .. m /\ n - 1 # m
        BY <3>3, <1>1
      <4>2. q[n] = p[n] /\ q[n - 1] = p[n - 1]
        BY <3>3, <4>1
      <4>3. p[n] = HashByte(p[n - 1], text[n])
        BY <2>1, <4>1, <3>3
      <4> QED
        BY <4>2, <4>3, <3>3
    <3> QED
      BY <3>1, <3>2, <3>3
  <2>3. q = [n \in 0 .. m |-> q[n]]
    OBVIOUS
  <2> HIDE DEF q
  <2>4. q = [n \in 0 .. m |-> Step(q, n)]
    BY <2>2, <2>3
  <2> QED
    BY <2>4
<1>4. L \in Reached
  <2>1. \A m \in 1 .. L : m - 1 \in Reached => m \in Reached
    BY <1>3
  <2> HIDE DEF Reached
  <2>2. 0 .. L \subseteq Reached
    BY <1>1, <1>2, <2>1, UpTo
  <2> QED
    BY <1>1, <2>2
<1>5. \E p : p = [n \in 0 .. L |-> Step(p, n)]
  BY <1>4
<1>6. HashesOf(hash, text) = CHOOSE p : p = [n \in 0 .. L |-> Step(p, n)]
  BY DEF HashesOf
<1> QED
  BY <1>5, <1>6

LEMMA Bytewise ==
    ASSUME NEW hash \in Words, NEW text \in Seq(Octets)
    PROVE  /\ HashesOf(hash, text)[0] = hash
           /\ \A n \in 1 .. Len(text) :
                 HashesOf(hash, text)[n] = HashByte(HashesOf(hash, text)[n - 1], text[n])
<1> DEFINE H == HashesOf(hash, text)
           L == Len(text)
<1>1. L \in Nat
  OBVIOUS
<1>2. H = [n \in 0 .. L |-> IF n = 0 THEN hash ELSE HashByte(H[n - 1], text[n])]
  BY Unfolded
<1> HIDE DEF H
<1>3. \A n \in 0 .. L : H[n] = IF n = 0 THEN hash ELSE HashByte(H[n - 1], text[n])
  BY <1>2
<1>4. 0 \in 0 .. L /\ \A n \in 1 .. L : n \in 0 .. L /\ n # 0
  BY <1>1
<1>5. H[0] = hash /\ \A n \in 1 .. L : H[n] = HashByte(H[n - 1], text[n])
  BY <1>3, <1>4
<1> QED
  BY <1>5 DEF H

LEMMA HashRange ==
    /\ \A a \in Words : \A c \in Octets : HashByte(a, c) \in Words
    /\ 5381 % HashSize \in Words
<1> DEFINE M == HashSize
<1>1. M \in Nat /\ M > 0
  BY HashSizeAssumption
<1>2. \A x \in Nat : x % M \in 0 .. M - 1
  BY <1>1
<1>3. \A a \in Words : \A c \in Octets : a * 33 + c \in Nat
  BY <1>1 DEF Words, Octets
<1> QED
  BY <1>1, <1>2, <1>3 DEF HashByte, Words

LEMMA ByteOf ==
    ASSUME NEW S, NEW s \in Seq(S), NEW m \in 1 .. Len(s)
    PROVE  s[m] \in S
  OBVIOUS

(* Two texts of one length that differ in byte k alone, or two starting    *)
(* hashes that differ (k = 0) and one text.                                *)
ApartAt(k, a, s, b, t) ==
    /\ Len(s) = Len(t) /\ k \in 0 .. Len(s)
    /\ IF k = 0 THEN a # b ELSE a = b /\ s[k] # t[k]
    /\ \A j \in 1 .. Len(s) : j # k => s[j] = t[j]

LEMMA HashesApart ==
    ASSUME NEW a \in Words, NEW s \in Seq(Octets),
           NEW b \in Words, NEW t \in Seq(Octets), NEW k, ApartAt(k, a, s, b, t)
    PROVE  HashText(a, s) # HashText(b, t)
<1> DEFINE L == Len(s)
           A == HashesOf(a, s)
           B == HashesOf(b, t)
           P == {m \in 0 .. L : A[m] \in Words /\ B[m] \in Words /\ (A[m] = B[m] <=> m < k)}
<1>1. L \in Nat /\ Len(t) = L /\ k \in 0 .. L
  BY DEF ApartAt
<1>2. /\ A[0] = a /\ B[0] = b
      /\ \A n \in 1 .. L : A[n] = HashByte(A[n - 1], s[n]) /\ B[n] = HashByte(B[n - 1], t[n])
  BY <1>1, Bytewise
<1> HIDE DEF A, B
<1>3. 0 \in P
  BY <1>1, <1>2 DEF ApartAt
<1>4. ASSUME NEW m \in 1 .. L, m - 1 \in P PROVE m \in P
  <2>1. /\ A[m - 1] \in Words /\ B[m - 1] \in Words
        /\ A[m - 1] = B[m - 1] <=> m - 1 < k
    BY <1>4
  <2>2. s[m] \in Octets /\ t[m] \in Octets
    BY <1>1, ByteOf
  <2>3. A[m] = HashByte(A[m - 1], s[m]) /\ B[m] = HashByte(B[m - 1], t[m])
    BY <1>2
  <2>4. A[m] \in Words /\ B[m] \in Words
    BY <2>1, <2>2, <2>3, HashRange
  <2>5. A[m] = B[m] <=> m < k
    <3>1. CASE m < k
      <4>1. m - 1 < k /\ s[m] = t[m]
        BY <1>1, <3>1 DEF ApartAt
      <4> QED
        BY <4>1, <3>1, <2>1, <2>3
    <3>2. CASE m = k
      <4>1. m - 1 < k /\ ~(m < k) /\ s[m] # t[m]
        BY <1>1, <3>2 DEF ApartAt
      <4> QED
        BY <4>1, <2>1, <2>2, <2>3, OtherByte
    <3>3. CASE m > k
      <4>1. ~(m - 1 < k) /\ ~(m < k) /\ s[m] = t[m]
        BY <1>1, <3>3 DEF ApartAt
      <4> QED
        BY <4>1, <2>1, <2>2, <2>3, Cancel
    <3> QED
      BY <1>1, <3>1, <3>2, <3>3
  <2> QED
    BY <2>4, <2>5
<1>5. L \in P
  <2>1. \A m \in 1 .. L : m - 1 \in P => m \in P
    BY <1>4
  <2> HIDE DEF P
  <2>2. 0 .. L \subseteq P
    BY <1>1, <1>3, <2>1, UpTo
  <2> QED
    BY <1>1, <2>2
<1>6. A[L] # B[L]
  BY <1>1, <1>5
<1> QED
  BY <1>1, <1>6 DEF HashText, A, B

LEMMA HashInWords ==
    ASSUME NEW a \in Words, NEW s \in Seq(Octets)
    PROVE  HashText(a, s) \in Words
<1> DEFINE L == Len(s)
           A == HashesOf(a, s)
           P == {m \in 0 .. L : A[m] \in Words}
<1>1. L \in Nat /\ A[0] = a /\ \A n \in 1 .. L : A[n] = HashByte(A[n - 1], s[n])
  BY Bytewise
<1> HIDE DEF A
<1>2. 0 \in P
  BY <1>1
<1>3. \A m \in 1 .. L : m - 1 \in P => m \in P
  <2> TAKE m \in 1 .. L
  <2> HAVE m - 1 \in P
  <2>1. A[m - 1] \in Words
    OBVIOUS
  <2>2. s[m] \in Octets
    BY ByteOf
  <2> QED
    BY <1>1, <2>1, <2>2, HashRange
<1> HIDE DEF P
<1>4. 0 .. L \subseteq P
  BY <1>1, <1>2, <1>3, UpTo
<1>5. A[L] \in Words
  BY <1>1, <1>4 DEF P
<1> QED
  BY <1>5 DEF HashText, A

(* Another hash to start from, or one other byte. *)
LEMMA Carried ==
    ASSUME NEW a \in Words, NEW b \in Words, NEW t \in Seq(Octets), a # b
    PROVE  HashText(a, t) # HashText(b, t)
<1>1. ApartAt(0, a, t, b, t)
  BY DEF ApartAt
<1> QED
  BY <1>1, HashesApart

OneByteIn(s, t) ==
    /\ Len(s) = Len(t)
    /\ \E i \in DOMAIN s : s[i] # t[i] /\ \A j \in DOMAIN s \ {i} : s[j] = t[j]

LEMMA Noticed ==
    ASSUME NEW a \in Words, NEW s \in Seq(Octets), NEW t \in Seq(Octets), OneByteIn(s, t)
    PROVE  HashText(a, s) # HashText(a, t)
<1>1. PICK i \in DOMAIN s : s[i] # t[i] /\ \A j \in DOMAIN s \ {i} : s[j] = t[j]
  BY DEF OneByteIn
<1>2. DOMAIN s = 1 .. Len(s) /\ Len(s) \in Nat /\ Len(s) = Len(t)
  BY DEF OneByteIn
<1>3. ApartAt(i, a, s, a, t)
  BY <1>1, <1>2 DEF ApartAt
<1> QED
  BY <1>3, HashesApart

LEMMA Fields ==
    ASSUME NEW h \in Headers
    PROVE  /\ DOMAIN h = {"title", "summary", "tags"}
           /\ h.title \in Seq(Octets) /\ h.summary \in Seq(Octets) /\ h.tags \in Seq(Octets)
           /\ h["title"] = h.title /\ h["summary"] = h.summary /\ h["tags"] = h.tags
<1>1. Texts \subseteq Seq(Octets)
  BY TextsAssumption DEF Octets
<1>2. h.title \in Texts /\ h.summary \in Texts /\ h.tags \in Texts
  BY DEF Headers, FieldTexts
<1>3. DOMAIN h = {"title", "summary", "tags"}
  BY DEF Headers
<1> QED
  BY <1>1, <1>2, <1>3

LEMMA HeadersApart ==
    ASSUME NEW h \in Headers, NEW g \in Headers, OneByteApart(h, g)
    PROVE  HeaderHash(h) # HeaderHash(g)
<1> DEFINE start == 5381 % HashSize
           h1 == HashText(start, h.title)
           g1 == HashText(start, g.title)
           h2 == HashText(h1, h.summary)
           g2 == HashText(g1, g.summary)
<1>1. PICK f \in DOMAIN h : (\A e \in DOMAIN h \ {f} : h[e] = g[e]) /\ OneByteIn(h[f], g[f])
  BY DEF OneByteApart, OneByteIn
<1>2. start \in Words
  BY HashRange
<1> HIDE DEF start
<1>3. h1 \in Words /\ g1 \in Words
  BY <1>2, HashInWords, Fields
<1>4. h2 \in Words /\ g2 \in Words
  BY <1>3, HashInWords, Fields
<1>5. HeaderHash(h) = HashText(h2, h.tags) /\ HeaderHash(g) = HashText(g2, g.tags)
  BY DEF HeaderHash, start
<1>6. /\ "title" # f => h.title = g.title
      /\ "summary" # f => h.summary = g.summary
      /\ "tags" # f => h.tags = g.tags
  BY <1>1, Fields
<1>7. f \in {"title", "summary", "tags"}
  BY <1>1, Fields
<1>8. CASE f = "title"
  <2>1. h1 # g1
    BY <1>1, <1>2, <1>8, Fields, Noticed
  <2> HIDE DEF h1, g1
  <2>2. h2 # g2
    BY <1>3, <1>6, <1>8, <2>1, Fields, Carried
  <2> HIDE DEF h2, g2
  <2> QED
    BY <1>4, <1>5, <1>6, <1>8, <2>2, Fields, Carried
<1>9. CASE f = "summary"
  <2>1. h1 = g1
    BY <1>6, <1>9
  <2> HIDE DEF h1, g1
  <2>2. h2 # g2
    BY <1>1, <1>3, <1>9, <2>1, Fields, Noticed
  <2> HIDE DEF h2, g2
  <2> QED
    BY <1>4, <1>5, <1>6, <1>9, <2>2, Fields, Carried
<1>10. CASE f = "tags"
  <2>1. h2 = g2
    BY <1>6, <1>10
  <2> HIDE DEF h2, g2
  <2> QED
    BY <1>1, <1>4, <1>5, <1>10, <2>1, Fields, Noticed
<1> QED
  BY <1>7, <1>8, <1>9, <1>10

-----------------------------------------------------------------------------
(* The manifest holds the hash of the header that was rendered. *)
HashInv ==
    /\ header \in Headers /\ rendered \in Headers
    /\ recorded = HeaderHash(rendered)
    /\ built => HeaderHash(header) = recorded

(* A build after the correction of one byte of a header renders the post   *)
(* anew, for texts of any length and a hash of any width: hash_text keeps  *)
(* a difference of one byte, since 33 has an inverse (site.c:65-72).       *)
THEOREM CorrectionsAreSeen == HashSpec => []OneByteEditIsSeen
<1>1. HashInit => HashInv
  BY DEF HashInit, HashInv
<1>2. ASSUME HashInv, [HashNext]_hashVars PROVE HashInv'
  <2>1. CASE Build
    BY <1>2, <2>1 DEF HashInv, Build
  <2>2. CASE \E f \in DOMAIN header : \E t \in FieldTexts(f) : Edit(f, t)
    <3>0. PICK f \in DOMAIN header : \E t \in FieldTexts(f) : Edit(f, t)
      BY <2>2
    <3>1. PICK t \in FieldTexts(f) : Edit(f, t)
      BY <3>0
    <3>2. header' = [header EXCEPT ![f] = t] /\ header \in Headers
      BY <1>2, <3>1 DEF HashInv, Edit
    <3>3. header' \in Headers
      BY <3>2 DEF Headers, FieldTexts
    <3> QED
      BY <1>2, <3>1, <3>3 DEF HashInv, Edit
  <2>3. CASE UNCHANGED hashVars
    BY <1>2, <2>3 DEF HashInv, hashVars
  <2> QED
    BY <1>2, <2>1, <2>2, <2>3 DEF HashNext
<1>3. HashInv => OneByteEditIsSeen
  BY HeadersApart DEF HashInv, OneByteEditIsSeen
<1> QED
  BY <1>1, <1>2, <1>3, PTL DEF HashSpec
=============================================================================
