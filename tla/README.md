# Zine, in TLA+

Zine is two MS-DOS programs.  `zine.exe` (`src/zine`) turns a directory of text
files into a static web site; `zhttp.exe` (`src/zhttp`, linked with the TCP/IP
library Watt-32) shows that site to a browser.  Both are 16-bit, single
threaded programs.  What is hard in them is not a race of threads but what
happens *between* steps: an incremental build that has to know, from a small
manifest, which of its files are still good after any sequence of edits,
deletions and interrupted builds; and a server that reuses its sockets while
packets of other connections come in.

The modules here are translated from the source; each definition's lines are in
`PROJECT.json` under `map`.  This file says what the parts are, which module
models which, what is checked, what is proved, and what is left out.

## 1. Inventory

| Part | Source | State | Operations | Modelled in |
|---|---|---|---|---|
| Site builder | `zine/site.c` | `OUT` (the output files), `OUT\BUILD.DAT` (the manifest: hash of `site.txt`, and for each post and page its output, header hash and time stamp), locals `rebuild_all`, `build_shared` | `generate_site`: load manifest, decide, remove, write, save | `BuildSite`, over `Publisher` |
| Change hashes | `zine/site.c:65-152` | none | `hash_text`, `compute_*_hash` | `HeaderHash` |
| Site commands | `zine/scaffold.c` | `posts.lst`, `pages.lst`, `ZINE$LST.TMP`, the sources, `OUT` | `new`, `newpage`, `delete`, `deletepage`, `clean`, `init` | `SiteCommands`, and for the list files `ListFiles` over `NameLists` |
| Content loader | `zine/content.c` | tables of posts and pages, the names seen | `load_posts`, `load_pages`, `validate_unique_*` | `EntryLists` |
| Order of the posts | `zine/main.c:17` | the table of posts | `sort_posts_by_date` | `SiteTables` |
| Archives | `zine/site.c:796-896`, `util.c:504` | tables of categories and tags | `collect_archives`, `make_archive_output_name` | `SiteTables` |
| Markup renderer | `zine/site.c:1149-1386` | the flags list, quotation, code, emphasis | `write_post_body`, `write_inline_markup` | `Markup` |
| Themes and assets | `zine/theme.c`, `util.c:183-305` | files of `OUT`, their stamps | `write_theme_files`, `copy_site_images`, `copy_file_if_needed` | `SiteFiles` |
| Preview launcher | `zine/preview.c`, `main.c:64-115` | none | `serve`, `launch_zhttp` | `Preview` |
| Preview server | `zhttp/main.c`, `net_watt32.c` | listen slots, client handle, stop flag | the loop of `main`, `znet_*` | `ListenSlots`, over `Replies` |
| Requests and replies | `zhttp/serve_file.c`, `http_*.c`, `mime.c` | none | `zhttp_serve_request` | which answer, in which sends, with which log line: `Preview`; on the wire: `ListenSlots` |
| Shared helpers | `shared/*.c` | none | strings, `fopen`, log line | no |
| Watt-32 | `3rd/watt32` (vendored) | `_tcp_allsocs`, the sockets, the heap | `tcp_tick`, `tcp_listen`, `sock_*` | in `ListenSlots`, what the slots need |

How they interact.  The user's files are the only interface between the
commands and the builder, and `OUT` with `BUILD.DAT` the only memory between
two builds; `delete`, `deletepage` and `clean` reach into both.  `serve` builds
and then runs `zhttp.exe` as a child, so that nothing writes `OUT` while it is
served.  Inside `zhttp.exe` the loop of `main` calls `znet_accept`, `znet_recv`,
`znet_send` and `znet_close`; each of them calls `tcp_tick`, and only inside
`tcp_tick` do packets and timers change a socket - any socket, not only the one
the tick was called for.

What is hard, and what makes each part correct:

* *Builder.*  An output that is skipped must show what the files say now, after
  any history of edits, failed builds and lost files; what leaves the site must
  leave `OUT`; a build ends.
* *Hashes.*  A change of a header must change its hash.
* *Commands.*  Stopped anywhere, no command leaves a list that names a missing
  source, or loses an entry it was not asked to take; what is deleted stays
  deleted; they disturb no property of the build.
* *Loader, sort, archives.*  Numbers follow the list and not the order of
  dates; nothing is listed twice past the cap of remembered names; posts come
  newest first; a label has one archive and an archive one name.
* *Markup.*  Whatever a body says, the page around it is not torn.
* *Copies.*  Stamps may lie and copies may be cut; after a build that succeeds
  every target is what its source says.
* *Launcher.*  The port and the directory that were typed are the ones served,
  by one server; its log is true.
* *Server.*  The list of sockets stays a list, and holds the slots; a connection
  gets the answer to its own request, whole; nobody holds the server for ever;
  the stop key works at every moment.

## 2. Modules

| Module | What it is |
|---|---|
| `Publisher` | what a build promises, without manifest, hashes and loops |
| `BuildSite` | the builder, its properties and its inductive invariant; implements `Publisher` |
| `BuildSite_proofs` | the theorems about `BuildSite` |
| `SiteCommands` | the commands, on top of `BuildSite` (EXTENDS), whose steps they refine |
| `SiteCommands_proofs` | the commands implement `BuildSite`'s `Edit` and `Drop`; what is deleted stays gone |
| `NameLists` | what the commands promise of the two lists |
| `ListFiles` | the list files and `ZINE$LST.TMP`, with faults; implements `NameLists` |
| `ListFiles_proofs` | the theorems about `ListFiles` |
| `EntryLists` | the loader, one line of a list a step |
| `SiteTables` | on top of `EntryLists` (EXTENDS): the sort and the archives |
| `SiteTables_proofs` | the theorems about both |
| `SiteFiles`, `SiteFiles_proofs` | the copies of style sheets, fonts, script and images; the theorems about them |
| `Markup`, `Markup_proofs` | the body of a page as HTML; that it is well nested, each element in its place |
| `Preview` | `serve`, from the arguments to the log of the server |
| `HeaderHash` | the header hash, byte by byte |
| `SmallParts_proofs` | the theorems about `Preview` and `HeaderHash` |
| `Replies` | what the server promises the browser, without sockets and packets |
| `ListenSlots` | the preview server over Watt-32; implements `Replies` |
| `ListenSlots_proofs` | the theorems about its safety |
| `MCBuildSite`, `MCSiteCommands`, `MCSiteTables`, `MCListenSlots`, `MCHeaderHash` | small instances and budgets for TLC |
| `MCFiles` | `ListFiles` and `SiteFiles` in one instance |
| `MCSmallParts` | `HeaderHash`, `Markup` and `Preview` in one instance |

`MCFiles` and `MCSmallParts` put modules that share no variable in one run: a
behaviour is one of one part (`part`), and the others stay where they began.

### BuildSite

| In the module | In the code |
|---|---|
| `config` | `site.txt` and `BANNER.TXT` |
| `postsLst`, `pagesLst` | the lists, sequences of distinct names |
| `postSrc`, `pageSrc` | the sources: header, body, whether the body fits `MAX_BODY`, time stamp; or `Unreadable` |
| `out` | every file of `OUT` the builder names: absent, empty (opened, no more), or a page |
| `manifest` | `BUILD.DAT` as `load_build_manifest` reads it |
| `pc`, `rebuildAll`, `buildShared`, `left` | where `generate_site` is, its locals, what its loop has still to visit |
| `wrote`, `verdict`, `noop`, `torn` | history, read by no action but to be carried on |

A page is represented by *what it was made from*: `Key` (configuration, posts
with numbers and headers, pages with headers - all that the navigation and the
lists show), `nav` (the order of the sidebar) and its own body.  So "fresh" is
an equality.

Actions follow `generate_site`: `BuildRefused` (the loader or `collect_archives`
says no, for the sources or for a capacity, which `SiteTables` has),
`BuildStart` (the decisions), `ClearStep` (`remove_previous_outputs`),
`WriteIndex`, `WriteArchive`, `WriteAbout`, then one action per turn of the
loops (`SkipPost`/`WritePost`/`PostTooLong`, the same for pages, `WriteLabel`),
then `SaveManifest`.  It may stop `StopBetween` two steps, `StopInside` a page,
`StopClearing` (any part of the removals done) and `StopSaving` (a truncated
`BUILD.DAT`, of which a prefix of complete sections loads, perhaps with its last
number or name cut: `CutManifests`).  `Edit` and `Drop`
are the user: any list, any source, the configuration, an output or `BUILD.DAT`
deleted.  DOS runs one program at a time, so they happen between builds.

`torn` needs a word.  An output that an interrupted build has touched may be
one the manifest misdescribes, until a build that succeeds writes it.
`PublishedIsFresh` is stated for the others; that the exception is needed is
what the run `reverted_site` shows.

`Publisher` is the promise made to the user: a build withdraws files, then puts
files of the site described, and reports success only of a complete and exact
site; the files an interrupted build touched are in doubt.  `BuildPublishes`
reads it with `goal` the names and pages of the current site, `published` what
`out` holds, `touched` what the build wrote, and `doubtful` the torn outputs.

### SiteCommands

EXTENDS `BuildSite` with `job` (the command and where it is in it).  Each file
operation is a step: `NewWrite` then `NewAppend`; `RemoveList`,
`RenameList`, `DeleteSource`, `RemoveOutput`, `RemoveManifest`; for `clean`, the removals of
its list and then `RemoveManifest`.  `Abandon` stops a command between two of
them.

`listFile` has the state of the two list files: whole, without the newline of the
last line ("open"), with a line the loader refuses ("joined"), or missing; what
their good lines name is `postsLst` and `pagesLst`.  An append to an open list
joins two names or loses one (`AppendEntry`), and `remove_list_entry` is a
`remove` (`RemoveList`) and a `rename` (`RenameList`), which may fail or not be
reached.  A build refuses a list with a bad line, and a `posts.lst` that is
missing (`ListsLoad`).

The names that `delete` removes are computed as in the code: from the
manifest if it lists the source, else from the slug, which for a post may be the
name of another's numbered output (`SlugNumber`).  `init` writes `site.txt`
(`StartInit`), the two lists, the starter sources in any order, and
`BANNER.TXT` last; it takes a directory with a site in it as well as an empty
one.  What is in `ZINE$LST.TMP`, and a full disk, are the subject of `ListFiles`.

### ListFiles

| In the module | In the code |
|---|---|
| `file` | `posts.lst` and `pages.lst`: there or not, their lines, whether a newline ends the last |
| `temp`, `tempOf` | `ZINE$LST.TMP`, and (history) the list it was copied from |
| `sources` | the source files |
| `job` | the command, its step, the line it reads and whether the entry was found |
| `shown` | what the last accepted build published |
| `struck` | history: lists a fault has spoilt |

`remove_list_entry` is here one file operation a step: the `fopen` that empties
the temporary file, one line copied a turn, the `remove`, the `rename`, then the
source.  The power may go between any two; a list may be read-only; a rename
may fail; a disk may be full, which nothing looks at, and then an append leaves a
part of its line (`AppendOnFullDisk`) and a copy lacks lines; the user may give
the copy its list's name by hand.  `Entries(l)` is what the user has: the list, or its
copy once the list is gone.  Read that way, the two files implement
`NameLists`, where a list changes by one whole entry, in order.  The faults that
do spoil a list are named one by one: each `Strike` in the module.

### EntryLists and SiteTables

`EntryLists` reads `posts.lst` and `pages.lst` a line a step; the content of a
line is chosen as it is read, so that one run covers every list up to
`MaxLines`.  `seen` is `g_list_seen_names` with its cap, `table` the arrays
`g_posts` and `g_pages`; each early return of the loader is an action
(`InvalidLine`, `RepeatedName`, `BadSource`, `TableFull`, `NoPostsLst`,
`TwinSlugs`).  `SiteTables` continues with `outer` and `inner`, the loops of
the exchange sort, one comparison a step, and with `archives`, `at`, `use` for
`collect_archives`.  Labels that differ in case only are told by `Fold`, and
`Candidate` is any function from a label and an attempt to a name: the hash is
not modelled, only that it may collide.  Dates are numbers, which stand for
`strcmp` of dates in one format.

### SiteFiles

A build's copies as a sequence of jobs - the style sheets of the three themes and
the chosen one as `THEME.CSS`, three fonts, the script, and the images that are
named, one of them perhaps twice - each with a target, the places its source is
looked for, and for some a default text.  `at` is the number of the job.
`copy_file_if_needed` leaves a target alone when it is not older than the source
and byte for byte the same.  The clock may be set to anything between two steps,
files come with any stamp, a copy may stop half way, and a full disk may cut one
unnoticed.

### Markup

`write_post_body` has three flags and `write_inline_markup` one, and no stack of
open elements.  The module has the flags, with the program's tests on them, and
beside them `open`, the elements open in the file that is written, which no
guard reads.  Text is a run of asterisks, links and other characters.

### Preview

| In the module | In the code |
|---|---|
| `args` | the arguments of `serve`: numbers, a path ending in `OUT`, another path |
| `dir`, `result`, `docs` | the current directory, the directory built, the one served |
| `port`, `bound` | `int port` of `zine.exe`; the `WORD` port of `zhttp.exe` |
| `phase`, `children` | where the two programs are; history: how often `zhttp.exe` began |
| `busy`, `request`, `left`, `handed`, `logged` | the client, its request, reads of the file that are left, what `znet_send` took, the status of the log line |
| `diskError` | history: `ftell` or a read has failed |

The port goes through a 16-bit `int` and a text: `Int16` and `Word` do that.
A call of `znet_send` succeeds or fails; how its bytes travel is `ListenSlots`.
A failed `ftell` announces a length of 0 and the file is sent all the same
(`SendHead`), and a failed read ends the loop as the end of the file does
(`ReadEndsEarly`): both are logged 200, which is why `LogTellsTheTruth` says that
200 means a whole file only while the disk works.

### HeaderHash

`compute_post_meta_hash` is `hash * 33 + byte`, from 5381, over the fields of the
header one after the other with nothing between them.  The module follows one
post through edits of its header and builds that compare the hash with the
recorded one.  `HashesOf` is the hash after each byte of a text, a recursive
function.  The texts are any sequences of bytes and the number of hashes any
above 256 in which 33 has an inverse (`HashSizeAssumption`), as it has for every
power of two; the run takes 16 bits, because TLC's integers do not hold the 32
of the code, and three fields of at most two bytes.

### ListenSlots

| In the module | In the code |
|---|---|
| `tcb` | the `tcp_Socket` of each slot: state, peer, `ip_type`, receive buffer, acknowledged data, whether its send buffer is from the heap |
| `head`, `next` | `_tcp_allsocs` and the `next` of each socket |
| `listening`, `client` | `ZNetListenSlot.listening`, `g_client_handle` |
| `pc`, `at`, `ticking` | where the server is; the slot `znet_accept` looks at; whether `tcp_tick` runs |
| `job`, `left` | whose request is answered, segments still to write |
| `kbd`, `stop` | the BIOS keyboard buffer, `g_stop_requested` |
| `said`, `heard`, `stream`, `sent`, `taken` | the network |
| `lost` | history: send buffers whose pointer was wiped |
| `served` | history: the connections whose request was read |

`tcp_tick` is not an action but an interval: `BeginTick` opens it, and while
`ticking` holds any number of the packets in flight are handled and any timer
that may be due goes off (`Tick`), in any order, on any socket.  The network is
two sets that only grow, so it loses (nothing obliges delivery), delays,
reorders and repeats.  A SYN that arrives before the browser's ACK is `NewPeer`;
a copy that arrives after it, when the connection has no socket any more, is
`NewPeerLate`: a listening socket takes the peer and waits for an ACK that cannot
come (`SYNOLD`, which is `tcp_StateSYNREC` in the code).  `Relist` is `listen_again` literally: the `memset` that
wipes the link of a socket which is in the list, and then `tcp_listen`, whose
unlinking meets the wiped link.

`Replies` is what that amounts to for a browser, in four actions: a request is
read, when none is being answered and never a second time; a segment of the reply
is written, behind the segment before it; a reply ends, whole or cut short; a
connection is reset.  The whole of a reply goes to the connection that asked,
from its first segment on, and only after that one was reset may the rest go to
another.  `AnswersInTurn` reads it with `job`, `left`, `served` and `stream`
under their own names and `gone` the connections whose browser has said `rst`.

Left out of TCP: sequence numbers (an acknowledged duplicate other than a SYN
does nothing), a request in several segments (`main.c:76` reads once: the first
is answered), the
states that differ only in who closes first (CLOSE-WAIT is passed through in the
code as well; FINWT1, FINWT2 and CLOSING are one), windows beyond "some of what
is written is sent now, the rest later".  A reply is up to `Units` segments; a
bad request has none.

## 3. Runs

All runs are on two workers; `slots`, `server_liveness` and `commands` take
two to four minutes, the others at most a minute and a half.

| Run | Shows | Bounds | Distinct states |
|---|---|---|---|
| `build` | `PublishedIsFresh`, `NothingLeftBehind`, `FullRebuildWritesAll`, `NoOpWritesOnlyIndex`, `TypeOK`, `IInv` (the invariant of the proofs), `BuildPublishes` (`BuildSite` implements `Publisher`), `EveryBuildEnds` | 2 posts, 1 page, 2 archives; five versions of a source (the original, another body, a body too long, another header, a draft); 2 configurations; 1 edit, 1 deletion, 1 interruption, any number of builds | 108 k |
| `commands` | `DeletedIsGone`, `CommandsKeepLoadable`, `BuildSiteSpec` (each step of a command is a step of `BuildSite`) | at most 3 events: 2 commands of any kind, `init` among them, 1 edit, interruptions; any number of builds; `posts.lst` begins without its last newline | 1.0 M |
| `files` | `TypeOK`, `RecoveryLoads`, `ListsKeepTheirNames` (`ListFiles` implements `NameLists`), `MislaidPostsStay`; `CopiesTypeOK`, `CopiesAreCurrent`, `QuietRebuild` | 3 names, lists of at most 3 lines, 3 commands, 2 faults; 2 of the 3 themes, a font in five places, a good and a bad image, at most 2 of them named and one perhaps twice, 2 contents, 2 stamps, 2 edits, 3 builds, 1 fault | 519 k |
| `tables` | `TypeOK`, `NumbersFollowTheList`, `NothingListedTwice`, `NewestFirst`, `OneArchivePerLabel`, `ArchiveNamesApart`, `NamesRunOut` | lists of up to 5 lines, room for 3 posts, 2 pages, 2 archives of a kind, 2 attempts at a name | 1.5 M |
| `small_parts` | `OneByteEditIsSeen`; `WellNested`, `PlacedElements`; `ServedIsAsked`, `OneServer`, `LogTellsTheTruth` | three header fields of at most two bytes, two letters, 16 bits; bodies of up to 5 lines; the numbers 0, 80, 40000, 65536, files of up to 2 reads, 2 requests | 92 k |
| `slots` | `TypeOK`, `ListEnds`, `OneSocketPerPeer`, `StretchOfOneReply`, `MixedOnlyAfterReset`, `AnswersInTurn` (`ListenSlots` implements `Replies`) | 2 slots, 2 connections, replies of up to 2 segments, room for 1; one trouble: a reset or a FIN by the browser, or a socket held by a late SYN | 1.2 M |
| `server_liveness` | `StopKeyStops`, `EveryClientEnds`, `HearsAgain` | 2 slots, 1 connection, 2 keys typed ahead, late SYNs on any socket | 127 k |

Why the bounds are enough.

*Builder.*  A hazard takes one change to make the manifest wrong, and the
budget has one of each kind to put in any order among any number of builds;
that two edits can make it look right again is in `reverted_site`, and the
theorems of section 5 remove the bound.  Two posts are what renumbering takes (a
post leaves, the other's number changes).

*Lists.*  Three names are one to delete, one before and one behind it; three
commands are a delete that stops, one in the other list and one that goes on;
two faults are a stop and what it is confused with.

*Tables.*  Five lines are one more than the names remembered and one to repeat
one; three posts are what the exchange sort can get wrong by its order; two
attempts are fewer than the names that may be taken, so that they run out.

*Copies.*  Two contents and two stamps make every answer of the comparison, also
the false ones; a fault, an edit and two builds after it are what a wrong copy
needs to be kept, or to be made again for ever.

*Markup, serve.*  Five lines open a list, a quotation and a code block and leave
each by another kind of line.  40000 is a port and negative as a 16-bit `int`;
65536 is neither.

*Server.*  A slot has to be relisted while another is linked behind it (2 slots),
a connection has to take a socket another one left (2 connections), and a reply
has to be cut between two segments with a full buffer (2 units, room for 1).
`MaxTroubles` bounds how many connections the browser resets or closes first, and
how many sockets a late SYN holds at a time, all together; `slots` has one trouble,
and with a reset and a FIN in one behaviour its instance has 1.8 M states, which
hold as well.  `server_liveness` and the theorems have no such bound.
`Buffers` is the number of send buffers the far heap has left: with none every
socket keeps its own; with one, in `lost_buffer`, both cases of `tcp_set_window`
occur, on which no other property depends.

`slots` treats the connections as symmetric, `tables` the posts' names and
`files` the names of lists; no run with a liveness property has symmetry.
Deadlock is checked in `build` and `commands`, where something can always be
done.  In the others behaviours really end: the server stops when the user says
so, a load ends at its last line or with a refusal, a body at its last line,
`serve` with its server, and the list commands with their budget.

### Where documents and code differ

These runs check one sentence of a document or a comment, and TLC finds the
behaviour that refutes it.

| Run | The sentence | What happens |
|---|---|---|
| `page_order` | README:374, a changed `pages.lst` forces a full rebuild | its order is not in the manifest |
| `reverted_site` | README:372, a changed `site.txt` forces a full rebuild | not after a build that stopped midway, if `site.txt` is then changed back |
| `draft_published` | README:355, drafts are not published | `delete` drops `BUILD.DAT`; the next build removes nothing |
| `lost_slot` | `pctcp.c:399`, unlink a socket before it listens | `listen_again` has wiped its link; the slots behind it are lost to Watt-32 |
| `lost_buffer` | `pctcp.c:598`, the send buffer is freed | its pointer is wiped first: up to 32 KB of the far heap per connection |

Others the models contain and no run is kept for.

* README:373, metadata changes force a full rebuild.  A text moved across the
  end of a field has the same hash (`site.c:124`); a corrected character has not,
  which `OneByteEditIsSeen` says.
* README:377, a no-op build says `0 changes`.  With `BANNER.TXT` the index is
  rewritten each time, because it is compared byte by byte with the banner
  (`site.c:439`); `NoOpWritesOnlyIndex` says that nothing else is.  A source
  stamped ahead of the clock is copied by every build (`QuietRebuild`, `early`).
* `main.c:46`, `clean` removes generated files.  It looks for posts by slug, and
  they are numbered (`scaffold.c:1037`).
* A `pages.lst` that is gone, as after a `deletepage` cut between `remove` and
  `rename`, is a site without pages (`content.c:480`); the next build takes them
  all off.  For posts the build is refused, which `MislaidPostsStay` says.
* `init` writes the lists before the sources they name (`scaffold.c:671`); one
  that is stopped in between leaves a site that does not load.  So does a
  `delete` stopped between the `remove` and the `rename` of `posts.lst`
  (`scaffold.c:206`), and a `new` that puts a name behind a last line without
  newline (`scaffold.c:141`).  `CommandsKeepLoadable` has these three as its
  exceptions, and no other.
* `serve_file.c:116` takes a read that fails for the end of the file, and
  `serve_file.c:105` a failed `ftell` for a length of 0: the reply is wrong and
  its log line says 200 (`LogTellsTheTruth`, `diskError`).
* A port of 32768 or more is a negative `int`, and `zhttp.exe` refuses the text
  of it (`main.c:89`); `ServedIsAsked` says that no other port is taken instead.
* `[label](url)` inside the text of a `=>` line gives an `<a>` in an `<a>`.
  `WellNested` holds of it, and `PlacedElements` speaks of blocks only.
* `znet_close` does not wait for unsent data, which `_tcp_close` says it must
  flush (`pctcp.c:473`).
* After a reset in the middle of a transfer `znet_send` goes on with the rest, and
  the socket's next connection gets it (`net_watt32.c:234`):
  `MixedOnlyAfterReset` is what remains true.

## 4. Fairness

`BuildSite.FairSpec`: weak fairness of the builder's steps while it runs.  The
program is sequential and no step of it waits; nobody has to start a build, and
an interruption ends it too.

`ListenSlots.FairSpec`: weak fairness of the server, a loop that never blocks.
Its timeouts (`RecvTimeout`, `SendTimeout`) and Watt-32's (`Expire`) are
strongly fair: they read a clock at every turn, and time passes.  A repeated SYN
restarts the timer of a handshake (`tcp_fsm.c:311`), so that the fairness of
`Expire` also takes the copies of a SYN to have an end.  `SendTimeout`
needs the loop to make no progress until then: a segment that is accepted
starts the clock again, and there are finitely many.  The browser, the network
and the user are not fair at all beyond that.

## 5. What is proved

By TLAPS, for all values of the constants (posts, pages, versions, hashes,
lists, bodies and replies of any length, any capacities, slots and connections):

| Module | Theorem | Statement | Rests on |
|---|---|---|---|
| `BuildSite_proofs` | `Invariant` | `Spec => []IInv` | `NoCollisions` |
| | `TypeCorrect` | `Spec => []TypeOK` | `NoCollisions` |
| | `NothingLeft` | `Spec => []NothingLeftBehind` | `NoCollisions` |
| | `FreshPages` | `Spec => []PublishedIsFresh` | `NoCollisions`, `DistinctStamps`, `DistinctNames` |
| | `FullRebuild` | `Spec => []FullRebuildWritesAll` | `NoCollisions` |
| | `NoOp` | `Spec => []NoOpWritesOnlyIndex` | `NoCollisions` |
| | `Implements` | `Spec => BuildPublishes` | as `FreshPages` |
| `SiteCommands_proofs` | `CommandsRefine` | `CSpec => BuildSiteSpec` | - |
| | `CommandsLoad` | `CSpec => CommandsKeepLoadable` | - |
| | `CommandsFresh` | `CSpec => []PublishedIsFresh` | as `FreshPages` |
| | `DeletedStaysGone` | `CSpec => []DeletedIsGone` | `NoCollisions`, `DistinctNames` |
| `ListFiles_proofs` | `ListsTyped` | `Spec => []TypeOK` | - |
| | `RecoveryIsSound` | `Spec => []RecoveryLoads` | - |
| | `PostsStay` | `Spec => MislaidPostsStay` | - |
| | `Implements` | `Spec => ListsKeepTheirNames` | - |
| `SiteTables_proofs` | `TablesTyped` | `Spec => []TypeOK` | - |
| | `PostsAreSorted` | `Spec => []NewestFirst` | - |
| | `NamesAreApart` | `Spec => []ArchiveNamesApart` | - |
| | `AttemptsAreUsed` | `Spec => []NamesRunOut` | `DistinctCandidates` |
| | `LabelsHaveArchives` | `Spec => []OneArchivePerLabel` | - |
| | `TheListIsNumbered` | `Spec => []NumbersFollowTheList` | - |
| | `NothingTwice` | `Spec => []NothingListedTwice` | - |
| `SiteFiles_proofs` | `CopiesAreTyped` | `CopySpec => []CopiesTypeOK` | - |
| | `BuildsLeaveCurrentCopies` | `CopySpec => []CopiesAreCurrent` | - |
| | `RebuildsAreQuiet` | `CopySpec => []QuietRebuild` | - |
| `Markup_proofs` | `MarkupIsWellNested` | `Spec => []WellNested` | - |
| | `ElementsArePlaced` | `Spec => []PlacedElements` | - |
| `SmallParts_proofs` | `WhatWasAsked` | `ServeSpec => []ServedIsAsked` | - |
| | `OnlyOneServer` | `ServeSpec => []OneServer` | - |
| | `LogIsTrue` | `ServeSpec => []LogTellsTheTruth` | - |
| | `CorrectionsAreSeen` | `HashSpec => []OneByteEditIsSeen` | - |
| `ListenSlots_proofs` | `SlotTypes` | `Spec => []TypeOK` | - |
| | `TheListEnds` | `Spec => []ListEnds` | - |
| | `OneSocket` | `Spec => []OneSocketPerPeer` | - |
| | `OneReply` | `Spec => []StretchOfOneReply` | - |
| | `OwnReplyUnlessReset` | `Spec => []MixedOnlyAfterReset` | - |
| | `TheServerAnswersInTurn` | `Spec => AnswersInTurn` | - |

The hypotheses are what the code trusts without checking: that two sites or two
headers never have the same 32-bit hash (the code itself breaks this, by leaving
out separators), that a time stamp tells two contents of one file apart (it does
not for two edits within the two seconds of a FAT stamp), that no page's slug is
the name of another file of `PAG`, and that the names tried for one label differ
from each other (a counter is part of each).  Each theorem names those it needs.
Beside them stand the named assumptions of the modules, which say of what kind
the constants are; TLC evaluates them in the runs.

*The builder.*  `PublishedIsFresh` is not inductive: that a skipped page is
fresh depends on how it came to be there.  `IInv` adds three parts.

* `Accounted`: every output that stands, that no interrupted build touched and
  the running build has not written, is *recorded by* the manifest - it was
  rendered from some site the manifest describes, with a body whose stamp the
  manifest holds.
* `Control` and `Progress`, while a build runs: the decisions still are what
  they would be if taken now, and what the loops have visited was written now or
  was skipped for a recorded page.
* `Success`: after a good build the manifest is the one of the current files.

When a build decides to skip, manifest and files describe the same site
(`Describes`), and by `NoCollisions` two sites with one description are one site
(`DescribesOne`); so a recorded page was rendered from the site of now, and by
`DistinctStamps` with the body of now.  `BuildSite_proofs` has one lemma for each
action or group of actions (`StartInv`, `ClearInv`, `WritePostInv`, ...,
`SaveInv`, `InterruptionInv`, `EditInv`, `DropInv`) and `Invariant` puts them
together.  `NoOp` carries a second small invariant along: nothing needs writing,
and nothing comes to need it.

`Implements` maps each step of the build to one of `Publisher` or a stutter;
the step that matters is `SaveManifest`, which is `Complete` because of
`PublishedIsFresh` and `NothingLeftBehind` in the state it leads to.

*The commands.*  `CommandsRefine` needs a typing of the lists (`ListsOK`: a name is
appended only if it is not there, and what is left of a list is a list) and then
maps each command's step to an edit, a deletion or a stutter; `CommandsFresh` is
then `FreshPages`.  `CommandsLoad` rests on `CInv`, which adds `FilesOK` for the
list files and `JobInv`: what `delete` has copied is the list without its entry
(`Copied`), and what `init` has written when it comes to its next step.  The
exceptions of `new` and `delete` are `Excused`.

`DeletedStaysGone` follows what outputs *show* (`DInv`).  A step of a build lets
an output show only what it showed before and what is listed (`NextShows`, from
`WrittenIsListed`: this is where `DistinctNames` comes in).  So a source that is
neither shown nor listed stays out for good, and what is left is that `delete`
removes every output that shows its source: when `BUILD.DAT` knows all that
stands in `OUT`, the name it finds there, or makes of the slug, is that output.

*The lists.*  That the copy can take the place of its list is not visible from
the two files when the list is gone.  The invariant says at every turn of the
loop that the copy is the list up to the line that is read, without the first
line that equals the name (`Kept`); at the end that is `NameLists!Removed`, and
the rename changes nothing one can see.  Lemmas about `Kept` carry it from one
line to the next.

*The tables.*  `PostsAreSorted`: the places before `outer` hold the newest posts
in order, and the post at `outer` is the newest of those from there up to
`inner`; an exchange keeps the first because it only permutes what lies behind.
`NamesAreApart` is kept by `AddArchive`, whose name conflicts with nothing there.
`AttemptsAreUsed` counts: as many different names as attempts are all taken.
`LabelsHaveArchives`: of the labels behind `at` and `use` each has an archive, and
no two of a kind are for one label.  For the loader, `LoadInv` gives the place of
a published line in the table as the number of published lines up to it
(`InOrder`, `Rank`), which a line that is added behind does not change, and the
sort keeps the set of records (`PostsNumbered`).  A name that repeats was
forgotten: at the second time more distinct names had come before than
are remembered (`Forgotten`); the tables hold none of them twice (`OnceOnly`).

*The copies.*  The jobs stand in an order in which none reads what a later one
writes: `THEME.CSS` alone is copied from a file of `OUT`, and after it.  So a job
that was done is still done when the build is (`PastIsSettled`, `Untouched`), and
a copy is needed a second time only if its source was stamped ahead of the clock
(`NothingToDo`).  An image that is named twice is two jobs with one target; the
second finds nothing to do.

*Markup.*  `FlagsAreTheStack`: what is open is what the flags say, in the one
order in which they can be opened.  Then each closing tag fits; and there are so
few stacks that `ElementsArePlaced` looks at each.

*serve.*  Two facts about numbers (`Int16Port`: what an `int` makes of a port is
that port, or no port), and where the programs are determines the rest.  For the
log, what was handed over and what is left add up to the file, and its length was
announced unless `ftell` failed.

*The hash.*  Two texts that differ in one byte have the same hash up to that byte,
a different one behind it, because a byte is less than `HashSize`, and from there
on different ones, because multiplication by 33 can be undone.  That is an
induction over the text.  The library's induction theorems cannot be used, but
`Smallest` can take their place: a set of numbers that is not empty has a smallest
element, and if the hashes met at all they met first at some byte.

*The server.*  The invariant (`Core`, with the types beside it) has four parts
that its properties rest on.

* `ListInv`: the links from the head spell a sequence of distinct slots, and end.
  `RelistChain` shows that `listen_again` cuts such a sequence off behind the
  socket it wipes and puts that socket first - what is cut off is lost, but no
  circle comes about; `DropChain`, that a socket that is over leaves and the
  others stay.  `ChainIsThreaded` ties the sequence to what the walk along the
  list visits.
* `SocketInv` and `ClientInv`: a socket without a peer is one that listens, one
  that is dead is out of the list, and a request that waits in a socket is its
  peer's or was left there by a reset.
* `OnceInv`: a connection that is or was established (`Started`) has no other
  established socket and no handshake in the list.  It has sent its ACK, so that
  `NewPeer` cannot give it a socket again, and `NewPeerLate` gives it one that is
  never established.
* `WriteInv`: only the client's socket leads to a connection with data on it, and
  the next segment is the one after its last.  So each `SendWrite` extends a
  stretch or begins one.

`TheServerAnswersInTurn` needs more: that a request is in one place at a time.
`Requests` says that what the browser has not asked is in no socket and was never
read (`AskedInv`), that a request in a receive buffer was not read and is in no
other (`HolderInv`), and that a socket which still waits for its peer's request is
the only one that will get it (`WaitingInv`, by `OneSocketPerPeer`).  Most steps do
nothing new to the sockets (`NothingNew`, `QuietRequests`); a SYN
(`TakesPeerRequests`), the arrival of a request, its reading and the writing of a segment have a lemma each.  Then
`RecvRequest` is `ReadRequest`, `SendWrite` is `Write` because of `WriteInv` and
`WholeInv` (of which a socket that took a late SYN is excepted, because nothing
can be written to it: `Mute`), `Closed` is `EndReply`, and the rest are resets and stutters.

`BuffersInv` counts what the sockets own and what is lost.  Induction along the
list is done with `UpTo`, which follows from the pigeonhole theorem of the
library.

## 6. Only model-checked

Liveness: `EveryBuildEnds`, `StopKeyStops`, `EveryClientEnds`, `HearsAgain`.
Fairness and `ENABLED` are out of the prover's reach.  Every invariant and every
action property that a run checks is also a theorem, and so are the four
refinements (`BuildPublishes`, `BuildSiteSpec`, `ListsKeepTheirNames`,
`AnswersInTurn`), which speak of what may happen and not of what must.

## 7. Not modelled, and the plan

Left out of the modelled parts:

* of `init`, the theme sources and `assets.lst` it writes, of which `SiteFiles`
  takes any;
* of `serve`, the choice of `WATTCP.CFG`, which sets an environment variable;
* of requests, the characters of a path and how it is mapped to a file, the text
  of the headers, the MIME types: a request is one of the outcomes;
* a full disk while a page or `BUILD.DAT` is written (no result of `fprintf` or
  `fclose` is looked at).  `StopInside` has the page cut, but not the build that
  then goes on;
* of `SiteCommands`, a full disk and what is in `ZINE$LST.TMP`: `ListFiles` has
  both;
* the names `C01.HTM` to `C16.HTM` and `T01.HTM` to `T16.HTM` of an earlier
  version, which `remove_previous_outputs` removes as well and no build writes
  (`site.c:474`);
* an editor during a build: DOS runs one program at a time, so that no source
  changes between the writing of its page and the saving of its stamp.

Not modelled at all: the shared helpers and the build scripts, which keep no
state, and the rest of Watt-32, a vendored library of 300,000 lines of which the
two programs call a dozen functions.  The programs themselves are some 6,000
lines.

What is left, in order:

1. `clean` removes posts by slug (`scaffold.c:1037`): a property of what is left
   in `OUT` after it, and its proof.
2. A full disk while a page is written, as in `SiteFiles`: what a build may still
   promise when it is not noticed.
3. A stronger invariant for the server with the slots that are off the list: how
   many can be lost at a time.
