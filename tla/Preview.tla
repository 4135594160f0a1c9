------------------------------- MODULE Preview -------------------------------
(***************************************************************************)
(* serve: zine.exe reads its arguments, builds the site unless it is given *)
(* an OUT directory, and starts zhttp.exe on the result; zhttp.exe answers *)
(* one request at a time from the files of that directory until the user   *)
(* stops it, which gives the result back to zine.exe.                      *)
(*                                                                         *)
(* An argument is a number, a path that ends in OUT or another path.  How  *)
(* a byte reaches the browser is the module ListenSlots; here a call of    *)
(* znet_send succeeds or fails.                                            *)
(***************************************************************************)
EXTENDS Integers, Sequences

CONSTANTS
    Numbers,     \* the numbers that may be typed
    MaxChunks,   \* bound: a file is at most so many reads of ZHTTP_FILE_BUFFER
    MaxRequests  \* bound: the requests of a behaviour

ASSUME ChunksAssumption == MaxChunks \in Nat

VARIABLES
    args,      \* the arguments after "serve"
    dir,       \* the current directory: "here" or "site"
    result,    \* the directory whose build succeeded, or "none"
    docs,      \* the OUT that is served: of a directory, or "named"
    port,      \* the variable port of zine.exe, an int
    phase,     \* where the two programs are
    bound,     \* the local port of zhttp.exe
    children,  \* history: how often zhttp.exe was started
    busy,      \* a client is answered
    request,   \* its request, or that of the last one
    left,      \* reads of the file that are left
    handed,    \* what znet_send took: a head with its Content-Length, then reads
    logged,    \* the status of the log line
    diskError, \* history: the disk failed while this client was answered
    requests   \* requests so far

answer == <<busy, request, left, handed, logged, diskError, requests>>
serveVars == <<args, dir, result, docs, port, phase, bound, children, answer>>

Arguments == {[kind |-> "number", n |-> n] : n \in Numbers}
                 \cup {[kind |-> k, n |-> 0] : k \in {"out", "path"}}

(* What stands in an int of 16 bits, and the port a WORD makes of it. *)
Int16(n) == IF n % 65536 < 32768 THEN n % 65536 ELSE (n % 65536) - 65536
Word(n) == n % 65536

DefaultPort == 8080

(* parse_port_arg of zine.exe and parse_port of zhttp.exe, which are alike: *)
(* digits only, not 0, and at most 65535.  A sign is not a digit.          *)
IsPort(n) == n \in 1 .. 65535

Requests == {[target |-> t, size |-> 0, head |-> FALSE] :
                t \in {"silent", "bad", "favicon", "unmapped", "missing"}}
            \cup [target : {"file"}, size : 0 .. MaxChunks, head : BOOLEAN]
NoRequest == [target |-> "none", size |-> 0, head |-> FALSE]
Nothing == [length |-> -1, reads |-> 0]   \* nothing was handed over yet

ServeInit ==
    /\ args \in UNION {[1 .. n -> Arguments] : n \in 0 .. 2}
    /\ dir = "here" /\ result = "none" /\ docs = "none" /\ port = 0
    /\ phase = "arguments" /\ bound = 0 /\ children = 0
    /\ busy = FALSE /\ request = NoRequest /\ left = 0 /\ handed = Nothing /\ logged = 0
    /\ diskError = FALSE /\ requests = 0

-----------------------------------------------------------------------------
(* zine.exe. *)

Ends(why) == phase' = why /\ UNCHANGED <<args, dir, result, docs, port, bound, children, answer>>

(* argc == 4 wants a port last. *)
InvalidPort ==
    /\ phase = "arguments" /\ Len(args) = 2
    /\ ~(args[2].kind = "number" /\ IsPort(args[2].n))
    /\ Ends("invalid port")

LastIsPort == Len(args) > 0 /\ LET a == args[Len(args)] IN a.kind = "number" /\ IsPort(a.n)

(* A wrong version: one argument is always a directory. *)
PortOfTwo ==
    IF Len(args) = 2 /\ LastIsPort THEN Int16(args[2].n) ELSE DefaultPort

PortArg == IF LastIsPort THEN Int16(args[Len(args)].n) ELSE DefaultPort

(* A directory comes before the port.  0 and 65536 name directories. *)
HasDir == Len(args) = 2 \/ (Len(args) = 1 /\ ~LastIsPort)

(* An OUT directory is served as it is. *)
ServeOut ==
    /\ phase = "arguments" /\ (Len(args) = 2 => LastIsPort)
    /\ HasDir /\ args[1].kind = "out"
    /\ port' = PortArg /\ docs' = "named" /\ phase' = "resolve"
    /\ UNCHANGED <<args, dir, result, bound, children, answer>>

(* serve_site changes to the directory first. *)
ServeSite ==
    /\ phase = "arguments" /\ (Len(args) = 2 => LastIsPort)
    /\ ~(HasDir /\ args[1].kind = "out")
    /\ port' = PortArg
    /\ dir' = IF HasDir THEN "site" ELSE dir
    /\ phase' = "build"
    /\ UNCHANGED <<args, result, docs, bound, children, answer>>

NoSuchDir == phase = "arguments" /\ (Len(args) = 2 => LastIsPort)
             /\ HasDir /\ args[1].kind # "out" /\ Ends("no such directory")

(* resolve_docs_path makes "OUT" a path below the current directory. *)
BuildDone ==
    /\ phase = "build" /\ result' = dir /\ docs' = dir /\ phase' = "resolve"
    /\ UNCHANGED <<args, dir, port, bound, children, answer>>

BuildFailed == phase = "build" /\ Ends("build failed")

NoDocs == phase = "resolve" /\ Ends("no OUT")

Resolved == phase = "resolve" /\ Ends("first")

(* launch_zhttp gives -1 when the program is not there, and spawnl when it *)
(* cannot be loaded; only then is the parent directory looked in.          *)
NotHere  == phase = "first" /\ Ends("second")
NotAbove == phase = "second" /\ Ends("no zhttp")

Launch ==
    /\ phase \in {"first", "second"}
    /\ children' = children + 1
    /\ phase' = IF phase = "first" THEN "child" ELSE "child above"
    /\ UNCHANGED <<args, dir, result, docs, port, bound, answer>>

Running == phase \in {"child", "child above"}

-----------------------------------------------------------------------------
(* zhttp.exe, whose result is 0 or 1 and so never the -1 of spawnl. *)

(* A wrong version: any failure sends zine.exe to the other program. *)
ChildExitsRetry ==
    phase' = (IF phase = "child" THEN "second" ELSE "ended")

ChildExits == phase' = "ended"

Gone == ChildExits /\ bound' = 0
        /\ UNCHANGED <<args, dir, result, docs, port, children, answer>>

(* sprintf with %d gives it the port as text. *)
PortRefused == Running /\ bound = 0 /\ ~IsPort(port) /\ Gone

NoNetwork == Running /\ bound = 0 /\ IsPort(port) /\ Gone

Listen ==
    /\ Running /\ bound = 0 /\ IsPort(port)
    /\ bound' = Word(port)
    /\ UNCHANGED <<args, dir, result, docs, port, phase, children, answer>>

StopKey == Running /\ bound # 0 /\ ~busy /\ Gone

server == <<args, dir, result, docs, port, phase, bound, children>>

(* handle_client: a client that says nothing gets nothing and no log line, *)
(* one that says something else than GET or HEAD a log line only.          *)
Accept(r) ==
    /\ Running /\ bound # 0 /\ ~busy /\ requests < MaxRequests
    /\ busy' = TRUE /\ request' = r /\ left' = r.size /\ handed' = Nothing /\ logged' = 0
    /\ diskError' = FALSE /\ requests' = requests + 1
    /\ UNCHANGED server

Asked(targets) == busy /\ request.target \in targets

Logs(status) == /\ logged' = status /\ busy' = FALSE
                /\ UNCHANGED <<server, request, left, requests>>

Reply(status) == Logs(status) /\ UNCHANGED diskError

Silent == Asked({"silent"}) /\ Reply(0) /\ UNCHANGED handed
BadRequest == Asked({"bad"}) /\ Reply(400) /\ UNCHANGED handed

(* The sending of the short answers is not looked at: neither of a 204 nor *)
(* of the head and the text of a 404.                                      *)
Favicon ==
    /\ Asked({"favicon"}) /\ Reply(204)
    /\ handed' \in {Nothing, [length |-> 0, reads |-> 0]}

NotFound ==
    /\ Asked({"unmapped", "missing"}) /\ Reply(404)
    /\ handed' \in {Nothing, [length |-> 1, reads |-> 0], [length |-> 1, reads |-> 1]}

AtFile == Asked({"file"})

(* A length that ftell cannot tell is announced as 0.                      *)
SendHead ==
    /\ AtFile /\ handed = Nothing
    /\ \/ /\ handed' = [length |-> request.size, reads |-> 0]
          /\ UNCHANGED diskError
       \/ /\ handed' = [length |-> 0, reads |-> 0]
          /\ diskError' = TRUE
    /\ UNCHANGED <<server, busy, request, left, logged, requests>>

HeadFails == AtFile /\ handed = Nothing /\ Reply(500) /\ UNCHANGED handed

SendRead ==
    /\ AtFile /\ handed # Nothing /\ ~request.head /\ left > 0
    /\ handed' = [handed EXCEPT !.reads = @ + 1] /\ left' = left - 1
    /\ UNCHANGED <<server, busy, request, logged, diskError, requests>>

(* A wrong version: the loop goes on after a failure. *)
ReadFailsOn ==
    /\ AtFile /\ handed # Nothing /\ ~request.head /\ left > 0
    /\ left' = left - 1
    /\ UNCHANGED <<server, busy, request, handed, logged, diskError, requests>>

ReadFails ==
    /\ AtFile /\ handed # Nothing /\ ~request.head /\ left > 0
    /\ Reply(500) /\ UNCHANGED handed

(* The loop ends where fread gives nothing and ferror is not asked, so a   *)
(* read that fails ends it like the end of the file.  A part of a read     *)
(* that still came is not counted.                                         *)
ReadEndsEarly ==
    /\ AtFile /\ handed # Nothing /\ ~request.head /\ left > 0
    /\ Logs(200) /\ diskError' = TRUE /\ UNCHANGED handed

FileSent ==
    /\ AtFile /\ handed # Nothing /\ (request.head \/ left = 0)
    /\ Reply(200) /\ UNCHANGED handed

Zine == \/ InvalidPort \/ ServeOut \/ ServeSite \/ NoSuchDir
        \/ BuildDone \/ BuildFailed \/ NoDocs \/ Resolved
        \/ NotHere \/ NotAbove \/ Launch
Zhttp == \/ PortRefused \/ NoNetwork \/ Listen \/ StopKey
         \/ \E r \in Requests : Accept(r)
         \/ Silent \/ BadRequest \/ Favicon \/ NotFound
         \/ SendHead \/ HeadFails \/ SendRead \/ ReadFails \/ ReadEndsEarly \/ FileSent
ServeNext == Zine \/ Zhttp
ServeSpec == ServeInit /\ [][ServeNext]_serveVars

-----------------------------------------------------------------------------
(* Properties. *)

(* While there is a server, it is on the port that was asked for - a port  *)
(* that its way through an int and a text has changed is refused and never *)
(* another one bound - and its files are those of the OUT that was named,  *)
(* or the ones this very command has built in the directory that was asked *)
(* for (zine main.c:223-296, preview.c:94-143, zhttp main.c:16-43).        *)
ServedIsAsked ==
    bound # 0 =>
        /\ bound = (IF LastIsPort THEN args[Len(args)].n ELSE 8080)
        /\ IF HasDir /\ args[1].kind = "out"
           THEN docs = "named" /\ dir = "here"
           ELSE docs = dir /\ result = dir /\ dir = (IF HasDir THEN "site" ELSE "here")

(* One command starts one server: the second place of zhttp.exe is for a   *)
(* program that is not in the first, never for one that ran and failed, or *)
(* was stopped by the user (preview.c:130-138).                            *)
OneServer == children <= 1

(* While the disk works, a file is logged with 200 exactly when all that   *)
(* its head announces was handed to the network, or the head alone for     *)
(* HEAD: a send that fails is a 500, wherever it fails.  A disk that fails *)
(* is not noticed - a wrong length or too little is then logged with 200   *)
(* as well - but even so a file that was handed over whole, under its own  *)
(* length, is never logged as a failure (serve_file.c:103-136).            *)
LogTellsTheTruth ==
    LET whole == handed = [length |-> request.size,
                           reads |-> IF request.head THEN 0 ELSE request.size]
    IN request.target = "file" /\ ~busy =>
           /\ whole => logged = 200
           /\ logged = 200 /\ ~diskError => whole
=============================================================================
