# A TLA+ model of HighWire

HighWire is a web browser for the Atari ST and its successors, written in C.
This directory holds TLA+ modules that model the parts of it whose
correctness depends on the order of events, the TLC configurations that check
them on small instances, and proofs, checked by TLAPS, of what holds for every
instance. Paths such as `src/src/cache.c` are those of the repository; line
numbers are in `PROJECT.json` (`map`), definition by definition.

## The system

HighWire is a single-threaded GEM program. `main()` (`HighWire.c`) waits for
events, handles messages, mouse buttons and keys, and calls `schedule (1)`
once per turn as long as the bit `MU_TIMER` of its event mask is set. All that
takes time is a *job* in one list of `schedule.c`: fetching, decoding images,
parsing. So nothing runs in parallel, but everything is interrupted: between
two calls of a job the user can click, stop or close a window, other jobs run,
peers answer or hang up; and *within* one call handlers nest, because a job may
clear a container, which calls back other jobs (`sched_clear()`), which call
the cache.

| part | source | state | operations | what makes it correct |
|---|---|---|---|---|
| scheduler | `schedule.c`, `HighWire.c` | the list, priorities, `on_off`, `MU_TIMER` | `sched_init`, `sched_insert`, `sched_remove`, `sched_clear`, `schedule` | no node is used after it is freed, no wakeup is lost, every job is served |
| cache | `cache.c` | items in a list and a tree, counters, `cache.idx`, files | `cache_insert`, `_lookup`, `_bound`, `_release`, `_clear`, `_exclusive`, `_abort`, `_assign`, `_expires`, `_query`, `_setup`, `_build`, `_exit_flush` | counters and limits, objects in use stay, one file and one fetch for a location, an index that survives crashes |
| locations | `Location.c` | databases of hosts and directories, shared records | `new_location`, `location_share`, `free_location`, `location_wrIdx`, `location_rdIdx` | an index line names the location it was written for; counts |
| loaders | `Loader.c` | one record per transfer, its job, its connection | `start_*_load`, `header_job`, `chunked_job`, `receive_job`, `loader_job`, `start_parser`, `saveas_job` | each loader has one job, each reservation and connection one owner, each load ends |
| HTTP, TCP | `http.c`, `inet.c` | the kept connection, the header buffer, the bytes read beyond the header | `http_header`, `inet_*` | what is shown or saved is what was sent; a connection is closed once, a retry is bounded |
| containers, frames | `Containr.c`, `Frame.c` | a tree of frames, one document in each leaf | `containr_clear`, `_setup`, `_fillup`, `_escape`, `_process`, `_notify` | no job refers to a frame that is gone |
| parser | `parser.c`, `scanner.c`, `render.c` | the text being parsed, a stack of style sources, the open elements | `new_parser`, `delete_parser`, `parse_html`, `resume_job` | a wait for a style sheet ends |
| document tree | `render.c`, `DomBox.c`, `Paragrph.c`, `Table.c`, `list.c`, `W_Struct.c`, `O_Struct.c` | boxes, paragraphs, words, tables; stacks of lists and tables | the `render_*_tag` functions, layout | the text in its order, whatever tags are missing; tables without holes |
| images | `image.c`, `img_*.c`, `raster.c` | one record per image, deferred reflow | `new_image`, `image_job`, `image_ldr`, `delete_image`, `reload_image` | no image is decoded for a frame that is gone |
| windows, history | `hwWind.c`, `Window.c`, `Widget.c`, `Containr.c` | counters of activity, a list of entries, each with the containers of a page | `wnd_hdlr`, `hist_append`, `hwWind_history`, `history_create`, `_update` | begins and ends of activity balance; the list is the list of pages visited, each comes back as it was left |
| downloads | `dl_mngr.c` | four slots | `dl_manager`, `dlmngr_handler`, `conn_job`, `fsel_job`, `recv_job`, `load_job` | a job finds its own slot or none; a connection has one owner |
| cookies | `cookie.c` | jars of hosts and domains, a file | `cookie_set`, `cookie_Jar`, `jar_load`, `jar_save` | a request has the right cookies; the file is what the jars are |
| forms | `Form.c`, `Mouse_R.c` | lists of controls, the field with the cursor; text in one block with pointers to its lines | `new_form`, `new_input`, `form_*`, `selct_*`, `input_handle`, `input_activate`, `input_keybrd`, `edit_*`, `form_activate` | text and pointers agree; the field does what an editor does; controls, cursor and keys agree; what is sent is what is shown |
| bookmarks, configuration | `bookmark.c`, `config.c` | lists | reading, writing | |
| fonts, encodings, drawing, GEM, overlays | the rest | | I/O, tables | out of scope, see `PROJECT.json` |

How they interact: jobs are registered with a function, an argument and a
hash, which is the container they work for. `containr_clear()` and
`containr_escape()` call `sched_clear()` with that hash, and each job called
back frees what it has: a loader gives up its reservation in the cache
(`cache_abort()`), its connection and its references. A loader hands itself on
from job to job until a parser (a page) or a successor (an image, a style
sheet, a download) takes it.

What is hard to test in this, line by line, is listed under `hazards` in
`PROJECT.json`, with the properties that cover it or the reason why none does.

## Modules

| module | models | state | remarks |
|---|---|---|---|
| `JobList` | `sort_in()`, `move_out()` | | operators on the list, used by all other modules |
| `JobQueue` | `schedule.c`, `set_timer()`, the loop in `main()` | `queue`, `prio`, `running`, `clears`, `timer`, ... | nested calls are a stack: `clears` holds the active calls of `sched_clear()` |
| `Picks` | lists of what is taken out of a list, in its order | | operators, used by `Cookies`, `Edit` and `History` |
| `BasicTheorems`, `FetchTheorems`, `DownloadTheorems`, `CacheTheorems`, `CookieTheorems`, `PageTheorems`, `FormTheorems`, `BrowserTheorems` | | | proofs, see below; the last has those of `JobQueue` and `History`, which share no name |
| `Reservation` | what the cache promises for a location: nobody, one loader or a file has it | `up`, `held_by` | abstract; `Cache` implements it |
| `Cache` | `cache.c` with `cache.idx` and the files | see the module | over sessions: `Exit`, `Crash`, `CacheBuild`, `CacheSetup` |
| `CacheIndex` | `location_wrIdx()`, `location_rdIdx()` | addresses and tags of hosts, lines | hosts only: directories are treated in the same way |
| `Fetch` | `Loader.c`: the jobs of loaders, with the scheduler's list and the cache's answers | `queue`, `prio`, `ldr`, `disk` | composes `JobList` with the view of the cache that `Reservation` states |
| `Page` | `Containr.c`, `parser.c`, `image.c`, `wnd_hdlr()`: documents in windows, from the click to the last image | jobs, frames, images, parsers that wait, the counters of the windows, `reflow_frame` | the loaders are those of `Fetch`, reduced to one job each |
| `Http` | `http_header()`, `chunked_job()`, `receive_job()`, `recv_job()`: one answer, byte by byte | `wire`, `reply`, `text`, `hdr`, the buffers, what was delivered | for pages and images or, `mode = "download"`, for downloads |
| `Download` | `dl_mngr.c`: the slots and every job for one | `slot`, `ldr`, `job`, `open` | strings that move with a slot are its identity |
| `Editor` | what a text field promises: text before and after a cursor | `before`, `after` | abstract; `Edit` implements it |
| `Edit` | the `edit_...()` functions, the keys, clicks | `buf`, cursor, first row and column shown | memory is counted in characters |
| `Form` | the forms of a page: the tags that build them, clicks, Tab and Return, requests, the field that has the keys | `forms`, `ctl`, `wind`, `sent` | extends `Edit`: one field of the page is the one described there |
| `Browsing` | what a list of visited pages promises | `pages`, `at` | abstract; `History` implements it |
| `History` | `hist_append()`, `hwWind_history()`, `wnd_hdlr()` for page loads, `history_create()`, `_update()`, `containr_process()` | `tree`, `loads`, `hist` | framesets of one level |
| `Cookies` | `cookie.c` over sessions and crashes | `jars`, `file`, `changed` | |
| `Grid` | `table_row()`, `table_cell()`, `table_finish()`: rows, cells, dummies | | operators on a grid |
| `Render` | the tags that begin and end boxes, lists, tables, paragraphs; `paragrph_finish()`, `frame_finish()` | `tree`, `cur` | uses `Grid` |
| `MC...` | | | the values of the constants |

Correspondence, where it is not the name:

* `JobQueue`: a job is in `queue`, or it is `running`, or it is gone.
  `Schedule` is `schedule()` up to the call of the first job, `ScheduleReturn`
  is what follows the return of a job, up to the next call or the return to
  `main()`. `SchedClear` and `ClearReturn` cut `sched_clear()` at its
  callbacks in the same way; `ClearCall` is what it keeps on the stack: the
  job called and the successor, read before the call. Between them any action
  that `May` allows can happen. `pruned` is a history variable.
* `Cache`: `lru` is the list from `__cache_beg` on, `chain` the items of a
  location in the order of `NodeNext`. A disk item without a file name
  (`Cached = 0`) is a reservation. `held` and `loaded` are the pointers that
  clients have, counted on their side. `wrote` says that the last step wrote
  the whole of `cache.idx`: a crash then may leave any part of it. Left out
  is the answer to a POST, which reserves nothing, for a location whose line of
  the index nobody has looked up: `cache_assign()` would take its item over.
* `Fetch`: one step is one call of a job, with everything it calls. What
  `inet_recv()` and `http_header()` answer is chosen. `disk[u]` is what
  `cache_exclusive()` says of a location: `"none"`, `"busy"`, `"local"`. Of a
  loader's data only this is kept: the kind of body (known size, until the
  peer hangs up, chunks), whether bytes are missing of the block (`rdLeft`),
  whether the whole is in memory (`Data`).
* `Page`: one step is one call of a job or of a handler, with the whole of
  `containr_clear()` where it is called (`Cleared`). `jobs` counts the jobs of
  each kind: any of them may be next, which is more than `schedule()` allows,
  and nothing here depends on the order. `activity` is `isBusy - isDone`: both
  are reset when they meet, and only their ratio is drawn. `frames` are the
  frames that are allocated, `shown` those a container points to; a frame
  being parsed is not in `shown`, and one that is forgotten stays in `frames`.
  Memory that `containr_clear()` has freed is taken to be unchanged until it
  returns. `owed` and `stopped` are history variables.

* `Http`: the peer's answer is on `wire` from the start, in tokens; each call
  of `inet_recv()` takes as many as it likes, or finds a reset or a timeout.
  A header line is at least two tokens, so that it can be cut anywhere. The
  bytes that http_header() has read beyond the header (`tail`) go to the
  loader's buffer or to the download's.
* `Download`: `slot[p].arg` is the string object that the slot at place `p` has;
  `slot_remove()` moves the data with it. A job is a pair of its function and
  that string; `"header"` and `"conn"` have the loader as argument.
* `Edit`: `base` is where the array of pointers begins, counted from the end of
  the block, `line` what it holds; `PTR` is the size of a pointer in
  characters, `GROW` the 500 of `edit_grow()`.
* `Form`: `ctl` has the controls in the order they were allocated, radio
  buttons and groups among them; a pointer to a control is its place, `NULL` is
  0. `tags` is what the parser has not read. `wind` is the window's `Active`
  frame and its `Input`; `active` of `Edit` says that `TextActive` of the
  form is the field that can be edited, the others keep their text. Where a
  click meets is a choice. `sent` is the request of the last step, before it
  is encoded. Shift-Tab is left out where the loop runs off the list.
* `History`: `HistoryLast` is the constant of the code, the index of the last
  entry: there is one more entry than that. Which load ends last, and so decides
  about an entry, depends on who ends them: `containr_escape()` begins with the
  base (`LastToEnd`), `containr_clear()` ends with it (`LastCleared`). A mark in front of a title ('.',
  '*' and so on) is part of an entry, since `wnd_hdlr()` decides by it.
* `Cookies`: a crash cuts the file within any line: `Cut` keeps the cookies whose
  line C is whole, `torn` says that the lines behind the last one are not all
  there, and `Readings` what `jar_load()` may make of it. One step is one `cookie_set()` or one request; the jars that match
  are walked in the order of the list, as in `cookie_Jar()`.
* `Render`: one step is one tag with everything it calls. `k` stands for the
  pair `word`, `prev_wrd`: how many words of the paragraph are complete; a text
  that is not is stored at the next tag (`parse_html()`), which is why one
  number suffices. A paragraph that is used again with `k = 0` overwrites its
  first word, as `word_store()` does. Only cells with contents are nodes; the
  dummies are in the grid. Each document has a shape, chosen at its begin.

## Runs

Deadlock is not checked where jobs and user actions are used up: the browser
then waits for events.

| run | instance | shows |
|---|---|---|
| `jobqueue_calls` | 4 jobs, priorities 1, 3 and the caller's own, all four results, all calls from jobs, insertions from callbacks | `TypeOK`, `LinkedOnce`, `TimerArmed`, `EveryJobServed` |
| `jobqueue_order` | 4 jobs, priorities 1, 2 and own, limits -1, 0, 1, 2 of `schedule()`, no `JOB_NOOP` | `Sorted`, `RoundRobin`, `ClearLeavesNone` |
| `cache` | 2 locations, 3 items, 2 file names, limits of 2 objects and 2 files, sizes 1 | `Counters`, `Files`, `InUseStays`, `LeastRecentlyUsed`, and that `Cache` implements `Reservation` (`Reservations`) |
| `cache_index` | 2 hosts, 3 addresses, 3 lines | a violation of `RoundTrip`: an index line names another host, or none, after a restart |
| `fetch` | a page and an image, 2 locations, a redirection, 2 containers, 1 connection, 1 retry, a POST | `OneJob`, `Owners`, `EndsUnlessStarved` |
| `page` | 2 windows, 2 documents with 2 and 1 images, and one that is parsed at once; windows and the 2 images are symmetric | `Balanced`, `Live`, `LayoutOwed` |
| `http` | 4 bytes in all chunkings, of known size or open, behind an interim answer or not, buffers of 7 and 8 bytes, blocks of 3, the peer hangs up once, a timeout, 1 retry | `Faithful`, `Delivered`, `Closed`, `Ends` |
| `download` | 4 downloads, one of a local file, 3 slots | `OwnSlot`, `Owned`, `StaysShown` |
| `form` | a line, an area, a password, a read-only area, each alone on a page; pointers of 2 characters, growth by 3, 2 by 2 characters shown, texts up to 5; 6 pages with a field of one character among up to 11 controls, 2 files, one name that is in the path of each action | `Field`, `Controls`, `Submitted`, and that `Form` implements `Editor` (`Refines`) |
| `history` | 4 documents (a page, a long one, a frameset of both, an archive), 2 entries, 2 loads at a time, 4 visits, 1 allocation that fails | `Entries`, `InHistory`, `Remembers`, and that `History` implements `Browsing` (`RefinesBrowsing`) |
| `cookies` | 2 hosts, a domain in either case, 2 names, jars of 2, sets of 2, 3 cookies, times 1 and 2 | `Jars`, `Sent`, `Stored` |
| `render` | pages of 8 nodes without text, of 6 with 2 pieces of it, tables in tables with 3, tables of 4 cells in 3 rows with 6 pairs of spans | `Nested`, `Ordered`, `Grids` |

Why the bounds are enough. The list operations look at a job, its neighbours
and the ends of the list: four jobs give a list of three beside a running
one, with two jobs matching a call that are neighbours or not. In the cache
each limit (memory, files, file names, references) is reached and exceeded by
one, with two locations, so that what is removed belongs to another location
than what is inserted; `Small` bounds the list and the index together. Two
loaders suffice for a conflict over a location, a connection or a container;
a third would be one more that waits. Priorities in `MCFetch` keep the order
of those in `Loader.c` but are close together, so that aging, which takes one
step for each unit, stays short. In `page` a document can be replaced by
another in its window while it is loaded, parsed, waits for a style sheet or
is shown, twice in a row, while another window competes for the one parked
layout; two images of one document share its parser and its layout.
`MaxParked` is 1: with it images are reloaded as often as the user likes
without an unbounded number of parked jobs. In `http` every buffer is smaller
than the answer, so that it is filled, emptied in the middle of a chunk and
filled again, and every token may be the last of a packet. Three slots let the
first, the middle and the last one be removed while others work, and a fourth
download find the table full. In `form` a text outgrows its block twice, has
rows and columns outside what is shown, and joins and breaks lines; the pages
with more controls have names that are used twice, in one list and in the
query of the action, radio buttons with other controls between them and two of
them checked, a select without its end, one without options, a group and an
option outside of any form, two files, a form that is not ended, disabled
fields, and both orders of the fields of an authentication. Two
entries of history are full after two pages; four visits go back, forward and
overwrite. Jars of two are full with two cookies, in which a third comes,
moves to the front or expires. In `render` eight nodes are enough for a division
in a list in a cell, or three lists in each other, and every end tag may be
missing or come where it does not fit; three rows and cells of up to three
rows and two columns give dummies of dummies, empty rows that shorten a cell,
and rows that are longer than those above. `ALL` is the 32000 of the code: no
document has as many rows.

Fairness. `Schedule`: `main()` never blocks for good while `MU_TIMER` is set,
and no job blocks for ever. In `JobQueue` jobs and callbacks return. In
`Fetch` peers are fair in this sense only: one that is asked again and again
does not for ever send nothing, nor go on for ever without an end
(`ReceiveEnd`, `ReceiveLast`, `ChunkedJob` are strongly fair), and a parser
that is called again and again comes to the end of its text. In `Http` the
jobs are weakly fair: the scheduler calls a job that is registered, and its
peer either sends, hangs up or lets the time run out. Nothing is assumed of
the user, of retries (they are counted) or of redirections (the instance has a
finite chain; the code does not limit it).

## What is proved

Every theorem is about the module as it stands, for all values of its
constants that satisfy the assumptions named there: any number of jobs,
loaders, items, slots, documents, any sizes and limits, finite or not where
no assumption says so. What is assumed beyond types is stated with each
theorem below, and is what the runs assume too. Each proof module has one
inductive invariant (`IInv`, `FieldInv`, `HInv`), with a lemma for each handler.

`BasicTheorems` has what several of them need. The prover cannot apply an
induction theorem whose parameter is an operator; so induction is done with
*sets*: a set of numbers that contains 0 and, with all smaller numbers, each
number is all of them (`UpTo`), and a set of subsets of a finite set that is
closed in this way contains them all (`AllSubsets`). With these the recursive
functions that the models use for loops, and sums over a finite set
(`MapThenSumSet`), exist, are unique and can be computed step by step
(`Total...`).

**Scheduler** (`BrowserTheorems`, second part; the lemmas on the list are in
`BasicTheorems`). For any set of jobs, any functions, arguments and hashes,
any priorities, and any nesting of `sched_clear()`:

* `TypeCorrect`: `TypeOK`.
* `LinkedOnceHolds`: `LinkedOnce`. The set of jobs in the list and the running
  one are disjoint; every operation either moves one job between them or
  removes jobs, so `SortInInjective` and `MoveOutElements` carry it.
* `NoLostWakeup`: `TimerArmed` and its companion `TimerWhileRunning`, for jobs that return
  `JOB_DONE` once they have unregistered others (`Obliging`). `TimerArmed`
  also says the converse: `main()` does not wait with a timer for an empty
  list. The two are
  inductive only together: while a job runs it is on no list, so `TimerArmed`
  alone does not say that the timer still runs when it is put back. The
  assumption is needed: without it TLC finds the lost wakeup.
* `PriorityStaysPositive`, `SortedHolds` and `RoundRobinHolds`, the latter two
  for jobs that never return `JOB_NOOP`. `SortedHolds` needs that the list
  keeps its order when jobs leave it (`MoveOutKeeps`) and when one enters
  (`SortInKeepsOrder`); the priorities of the jobs in it do not change.
* `ClearLeavesNoneHolds`: `ClearLeavesNone`, for callbacks that register and
  unregister nothing (`CallbackCalls = {}`). Its invariant, `WalkInv`, says
  that at most one `sched_clear()` is active, and that every job of its hash
  that is still in the list is the one it has in hand, or stands at or behind
  the successor it has read; the step is that a walk without the job in hand
  goes on from the same place (`MoveOutBehind`, `WalksOn`).

**Loaders** (`FetchTheorems`). `OneJob` and `Owners` count loaders and jobs;
the invariant says the same of single ones: every loader has a job and only
one (`Serving`), a location that is reserved has a loader that receives it
(`NothingLeftOver`) and no other one (`Alone`). It is inductive only with what
each job function relies on in the record of its loader (`Reliable`): that a
connection is open only for the two functions that read from it, that a body
of known size has its memory, that only other bodies come in chunks. The
hard cases are `start_parser()` and `containr_escape()`, which take any number
of other loaders with them in the middle of a call, each of which gives up
what it has reserved.

* `LoadersServed`: `OneJob`, without any assumption.
* `OwnersKnown`: `Owners`, if memory does not run out and a POST is answered by
  text. Without the first, TLC finds a reservation that is given up twice;
  without the second, an answer is assigned to an item that another loader
  has reserved.
* `NothingForgotten`, without these: no reservation and no connection is ever
  without a job, so that nobody waits for what nobody gives up.

**Downloads** (`DownloadTheorems`), if the user does not cancel a download
whose connection is being made (`~Hasty`, see below). Slots move when others
are removed, but the set of the records in use does not change by it
(`Held`). So `slot_remove()`, and the loop of it that "clean up" is, are
described by what they do to that set (`RemovedShape`, and one induction for
the loop), and the invariant is stated of it: the table is packed, its strings
are a permutation (`Packed`), each record has at most one job or loader, which
is in the state the function relies on.

* `SlotsFound`: `OwnSlot`; `SlotsOwned`: `Owned`; `DownloadsStay`: the action
  property `StaysShown`.

**Cache** (`CacheTheorems`). The invariant is made of operators on *values*
(the set of items in the list, their fields, the chains, the files, the lines
of the index), since the handlers call each other: `destroy_item()`, say, is
proved once for the values in the middle of any handler. Its parts, and why
the properties are not inductive without them:

* `ItemsRight`: an item on disk without a file name is a reservation, to which
  nobody points, with one reference and no size: else `cache_abort()` would
  destroy what is in use, or the counters would not come back to what they
  were.
* `Distinct`, `FilesRight`: file numbers of items are below the next one to be
  given out, so that a new file is never that of another item.
* `IndexRight`: whatever lines `cache.idx` has, now and not only when it is
  read: distinct locations, distinct files with the right content, numbers
  below its own. A crash may come at any time, and leave any beginning of it.
* `Pointed`: `held`, which clients count, is at most the `Reffs` of the item.
* `CountsRight`, `Bounded`: sums over the items, and that above the limit of
  memory no object is left that nobody uses: what `cache_throw()` frees is
  proved to be enough (`ThrowEnough`).

From these: `CountersRight` (`Counters`) and `FilesAgree` (`Files`), over any
number of sessions, exits and crashes. Its second part says what a step may
do. Each handler removes some items and adds others (`Changes(S, N)`), and
from that follow the two action properties, `InUseHolds` (`InUseStays`) and
`ThrownInOrder` (`LeastRecentlyUsed`), and, step by step, the refinement:
`ReservationsHold` states that `Cache` implements `Reservation`.

**Containers, parsers, images** (`PageTheorems`). `containr_clear()` runs in the
middle of other handlers, so the invariant too is stated of values (`Sound`),
and `ClearedSound` says that it holds in between. Its parts: `Aimed` (what is
shown in a container, or works for it, was asked for there), `Loads` (a
document that loads is not yet shown or parsed), `Parsers` (one for a container, which
shows nothing meanwhile; a style sheet is loaded only for a parser that waits),
`Works` (every other job is for a document that is shown or parsed, with a
frame and, if it is an image's, an image that there is), `Layouts`.

* `JobsWork`: `Live`, if no style sheet has a protocol that cannot be fetched
  (`"bad" \notin Sheets`): with one, a parser waits for ever.
* `LayoutsMade`: `LayoutOwed`, without any assumption.
* `CountsRight`: `Balanced`, if images are reloaded only once they have come
  (`~ReloadBusy`; with it the counters are wrong, see below). Here the
  invariant has, beside `IInv`, that no image has two jobs (`OneEach`), because
  `delete_image()` ends one activity only, and that the counters of each window
  are the sum of what its jobs have to end, each weighed with how often
  (`Counted`). A handler that changes one job changes the sum by its weight
  (`OneJobCounted`); clearing a container is a sum that goes to zero in two
  parts, the images that are deleted and the jobs that are cleared
  (`ClearedCounted`). A document has finitely many images (`ImagesAssumption`).

**History** (`BrowserTheorems`, first part), if nothing happens that this code does not
survive (`Careless = {}`, see below); memory may fail and any load may be
stopped, be given to an application or be left. `History` has names of its own
(`HistoryInit`, `HistorySpec`, ...), so that a module may extend it beside
another one. The invariant, `HInv`, is stated of the containers, the loads and
the list, as values:

* `InUse`, `ProperEntries`, `Shared`: the entries below `HistUsed` are there,
  have a document and know of no frame that was never loaded; the users of a
  title are neighbours in the list. `hist_append()` compares a new title with
  the one before it only, so a count of users that were scattered would be
  wrong after a cut in the middle.
* `LoadsRight`: a load is for a container that there is, one parser at a time
  works for it, and a frameset is parsed for an empty base only.
* `MarkedRight`: the entry shown is the only one that may have the mark of a
  page that is being loaded, and none has it when nothing is. The mark of a
  first load stays behind when there was no memory for an entry
  (`hwWind.c:1056`), which is why its second part has an exception.
* `Calmly`, as long as nobody interrupts a load and memory suffices: what the
  containers have not of the entry shown is being loaded (`Restoring`), or a
  link is being followed (`Following`). `InHistory` alone says nothing of the
  time while something is loaded, and so is not inductive.

Each handler has a lemma that it keeps `HInv` (`...Right`) and that it moves
the list as `Browsing` allows (`Moves`): `EntriesStay` (`Entries`),
`ShownInHistory` (`InHistory`), the action property `LeftAsShown` (`Remembers`),
and the refinement, `ListOfPages` (`RefinesBrowsing`). The hard case is
`containr_process()`, which builds the frames of an entry again and starts
their loads one after the other (`LoadsFor`, `Remains`).

**Cookies** (`CookieTheorems`). The invariant, `IInv`, is stated of values: each
jar in memory is one of `Slots` (its cookies are in the first slots), the list
is one of `JarLists` (one jar for each host, and for each domain not in
`capitals`, `OneEach`; outside of `spoilt` no two cookies of a jar have one
name and path, `Distinct`), and the file is one of `Files`, where the same
holds of what is read back. The file has to be part of it, since any beginning
of it may be what the next session reads. `destroy_cookie()` closes up the
slots from the one it is given to the end of the jar (`DestroyedCloses`) if
its caller passes the right length, which `cookie_set()` does, and
`cookie_Jar()` only for a jar with an empty slot.

* `JarsGood`: `Jars`, if no cookie of a full jar expires
  (`"expire" \notin Careless`; with it the jar gets a hole, see below), for
  domains in any letters and for a file that ends anywhere: the invariant
  carries `capitals` and `spoilt`, and says of a torn file what each reading of
  it may give (`Readings`).
* `UnchangedStored`: `Stored`, if besides no cookie only changes in place
  (`Careless = {}`). Its invariant, `AgreeInv`, compares the cookies that
  outlive the session with those in the file: what is read (`LoadedLive`), what
  changes for this session only (`ChangeLive`), and what time takes from both
  (`LaterLive`).
* `SentRight`: `Sent`. The loop that removes what has expired leaves nothing
  expired and no hole (`PurgedSlots`, by induction over its rounds), the two
  nested loops reach each slot once (`PlacesAll`), and the loop that fills the
  array of the request keeps it sorted by length and misses no cookie longer
  than one it has (`Ranked`; `InsertRanked`, `CollectedRanked`).

**Text fields** (`FormTheorems`), for any characters, sizes of a pointer and of
what a block grows by, texts, limits of their length, and numbers of rows and
columns shown; and for every page around the field. The assumptions are that a
block grows by more than a pointer (`EditAssumption`) and that a field that is no area has one line, as `edit_feed()` leaves it
(`InputsAssumption`). What makes the proof hard is that a text is held three
times over: in the block, in the array of pointers behind it, which moves
when the block grows, and, for a password, in `Value`.

* `Laid` says of a block and any array that the array cuts it into lines:
  every operation is first described by what it does to both, apart from
  memory (`LaidPutIn`, `LaidBroken`, `LaidTaken`, `LaidMerged`). A line that
  is broken gives one pointer more, and all behind it are one further; when
  two are merged it is the other way round.
* `Sound` is `Buffer` for a block that is not in a variable, since the
  functions call each other: `ctrl_right()` calls `edit_delc()` as often as a
  word is long, and every block in between is `Sound` (`DelLeftIs`,
  `DelRightIs`, by induction on the characters deleted). It says besides
  what `Buffer` does not: only an area has more than one line, so that a place
  in the row of a password is the place in its `Value`; the block never has
  more room for text than `Value`; and a limit of the length is the room of
  the block. Without the first a password of two lines would keep `Buffer`,
  and the next key would write to the wrong place of `Value`.
* `FieldInv`, which is inductive, adds `Cursor` and the types. Both halves need
  each other: a key deletes where the cursor is, and the cursor stays in
  the text only since the row it moves to is as long as the operation says.

From these: `FieldAgrees` (`Field`). The second part describes what each
operation does to the *text*: it is `Inserted` at a place or `Without` some
characters at one; a line that is broken and one that grows are the same
there. With the place of the cursor (`Position`) that is what `Editor` allows
(`EditsAre`, `TextStays`), and `FieldIsEditor` states the refinement
(`Refines`). Every other action of `Form` leaves the field alone (`FormSteps`).

Only model-checked: all liveness (`EveryJobServed`, `EndsUnlessStarved`, `Ends`)
and what depends on fairness; the
controls of a form and what is sent (`Controls`, `Submitted`); and the
properties of `Http`, `Render` and `CacheIndex`. Liveness is out
of reach of the prover; so is what `Render` reads from a tree and `Grid` from
chains of dummies, which are recursive operators. `Faithful` and `Delivered`
of `Http` speak of a body that is a fold over its chunks: what such a fold
yields for every division into chunks is an induction over data. `Controls`
is within reach and not proved: besides what it says of the controls, its
invariant has to say how the tags that the parser has not reached yet fit the
elements that exist (which forms and lists are open), action by action.

## What the models found

Constants named `Careless`, `Hasty`, `Apart`, `Faults`, `Sheets`, `ReloadBusy`,
`Stray`, `Strays` and `Again` let in what the code does not survive; the runs leave it out, so
that the rest can be checked beyond the first such event. Setting them makes
TLC show the following. What `findings` in `PROJECT.json` lists is checked by
a run of its own.

* Scheduler. A `JOB_NOOP` job is not sorted to the end of the list
  (`schedule.h:39` says so) but breaks its order; `EveryJobServed` says that
  this puts a job off and does not lose it. What callbacks of `sched_clear()`
  may do is a constant (`CallbackCalls`): with `"remove"` or `"clear"` the walk
  would go on from a freed node. The browser comes close to this:
  `delete_parser()` deletes a document with its images, and so unregisters
  their jobs (`image.c:256`), if the container is not empty (`parser.c:141`);
  `ParserAlone`, a part of `Live`, says that it has no page.
* Cache index. A host read from `cache.idx` keeps the tag of the last session,
  but lines refer to it by its address (finding, `Location.c:1341`).
* Loaders. A header job that waits, with a high priority, for a job with a
  lower one is called for ever (`Loader.c:843`; `EndsUnlessStarved` names this
  exception). A connection that ends within a chunk is never noticed by
  `chunked_job()` (`Faults = {"cut"}`). When memory is exhausted a reservation
  is given up twice (`"memory"`).
* HTTP. A final answer in the packet of an interim one is lost (`Apart`,
  `http.c:458`; `docs/history.txt:365` introduced the loop). A peer that hangs
  up within the header, before its length field, leaves a download of unknown
  size that is shown as complete (`http.c:652`). A header of more than the
  buffer is cut and its rest is taken for the body (`http.c:741`). A body of
  known size that is cut is cached as complete (`Loader.c:749`). A timeout
  after an interim answer leaves a handle in `*keep_alive` that is closed twice
  (`http.c:664-679`).
* Containers and images. A document that is replaced while it is parsed leaves
  its frame behind (`Containr.h:110`); the stop button drops a layout that
  images were waiting for (`image.c:557`); a style sheet whose protocol cannot
  be fetched lets its document wait for ever (`"bad"` in `Sheets`,
  `parser.c:919`); an image that is reloaded while it waits, and then left,
  keeps its window busy (`ReloadBusy`, `image.c:294`); `image_calculate()`
  never registers the job it means to.
* History. The first load of a window ends without a page: `wnd_hdlr()` writes
  to an entry that is `NULL` (`"first"`, `hwWind.c:2016`). An entry is restored
  while a page is parsed: it is freed and then read (`"restore"`,
  `hwWind.c:1086`). A window is closed while a page is loaded (`"close"`,
  `hwWind.c:500`). There is no memory for an entry when the list is full: the
  entry shown is the empty slot (`"memory"`, `hwWind.c:1043`; the comment at
  1054-1057 says that it stays outside the used range). A frameset whose last
  load ends without a page gets no entry (`hwWind.c:2013`).
* Downloads. A slot that is removed while its connection is made gets the
  answer of `header_job()` all the same (`Hasty`, `dl_mngr.c:547`); a target
  that cannot be created leaves a slot with a connection and no job.
* Text fields. Ctrl-Delete takes one character more than the comment at
  `Form.c:2581` says; `TextShiftX` can become negative (2253); a click on the
  lower border puts the cursor below the last row shown (1091); Return breaks
  a line of a read-only area (1942). `Cursor` states what holds instead.
* Forms. A field has the keys, and the scroll bar of another frame is used:
  that frame is the active one now, so that `HW_PageCleared` of the field's
  page does not make the window forget the field (`Strays`, `hwWind.c:1953`),
  although `Containr.h:34-36` asks for it. A file selected after its form was
  sent appears, and is sent, as asterisks: `edit_feed()` takes a field with a
  `Value` for a password, and `form_activate_multipart()` has set it (`Again`,
  `Form.c:2439`). After Return, or a file selected while another field has the
  keys, the window still has an `Input` that is not the `TextActive` of its
  form: its keys are lost, which `Form.c:1761` says should not happen. An
  option behind `</select>` counts from 0 again (`Form.c:786`): the popup then
  chooses another entry than the one clicked (`Selected`, on a page that has
  one). Shift-Tab in the first field of a list, or behind a disabled control,
  reads past its end (`Form.c:2013`; `PrevDefined`). Disabled controls are sent.
  Two forms of a page each keep their `TextActive`: a field clicked in one goes
  on showing its cursor when a field of the other gets the keys
  (`input_handle()` looks at its own form, `Form.c:1079`), so `Focus` speaks of
  one form. A name in the data of a GET is looked for from the begin of the
  address: if it occurs before the `?`, as `s` does in `host/search?s=x`, the
  place behind the `?` is missed, for the later ones count behind an `&` only
  (`Form.c:1318-1330`), and the name is sent twice (`Within`, `Twice`).
* Cookies. When a cookie of a full jar expires, the jar gets a hole
  (`"expire"`: the length passed at `cookie.c:680` is one short). A value that
  changes in place is not saved (`"update"`, `cookie.c:541`), although
  `Change.Log:652-654` says that cookies are kept over sessions. A domain that
  the server writes in capitals gets another jar with each answer, since it is
  stored in small letters (`cookie.c:40`) and looked for as it came (463):
  `capitals` are the exception in `Jars`. Of a file that ends within a cookie
  this cookie is read as far as its lengths say, with whatever is in the memory
  for the lines that are missing (173-184): `spoilt` are the jars for which
  `Jars` does not exclude that it is the double of another one.
* Document tree. A division left open in a list stops the program at the next
  cell or at the end of the page: `paragrph_finish()` repeats `list_finish()`,
  which does nothing (`Paragrph.c:279`). `Nested` says that nothing else does.
  Blocks that begin or end between `<table>` and the first cell (`Stray`) leave
  the paragraph of the table in another box ("parents differ!"), reach the end
  of a list that is open outside, or make `list_start()` read through an empty
  stack (`list.c:27`); text there is moved in front of the table, as the
  comment at `Table.c:299` says, only if no block precedes it, and is
  overwritten if the table has no cell. `</td>` before any cell reads
  `WorkCell` through `NULL` (`render.c:4177`).

## Plan

In the order of importance.

1. Proofs: the radio groups of `Form`, the buffers of `Http`.
2. Pure functions against a reference definition over bounded inputs: the
   columns of a table (`calc_minmax()`, `vTab_format()`), the search tree of
   the cache against the chain that `Cache` has, `strip_scripts()` and
   `cap_document()`, the decoding of UTF-8, path arithmetic of
   `new_location()`.
3. `Location`: counted references of shared records. `Page` with framesets, and
   images composed with the references that `Cache` counts, for
   `reload_image()`. Forms with more than one field that is edited.
4. Bookmarks.

## Not modelled

Most of the source draws or converts: drawing, font metrics and colours, image
decoders, and whole libraries that are included (`lib/libpng` and others) make
up the greater part of it; GEM messages, overlays, drag and drop, text of
pages that the browser makes itself have no state of several actors, or are
pure I/O. So the modules stand for a small share of its lines, those whose
correctness depends on an order of events or on pointers that must agree.

`malloc()` is assumed to succeed except where a constant names the fault.
`Page` has no framesets (`History` has), no liveness (that loads end is a
matter of `Fetch` and `Http`) and no sizes: whether an image has the size that
was expected is a choice. `Fetch` does not have downloads, which have no
container. `Render` has no attributes, fonts or links, and `Form` reads the tags of
forms apart from it.
