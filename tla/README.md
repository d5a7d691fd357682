# FreeDesk: a TLA+ development

FreeDesk is a remote desktop. An agent (`src/host-agent`, Go) runs on the computer
to be seen, a web page (`src/frontend`, Vue/TypeScript) is the viewer, and a Firebase
Realtime Database (`src/firebase/database.rules.json`) is where the two find each
other. Pictures, input, clipboard and files go over a WebRTC connection between them.
This directory holds TLA+ modules of the parts of it that are concurrent or have a
protocol, TLC configurations that check them, and proofs for TLAPS.

    tlc -config MCSession.cfg MCSession      # one run; PROJECT.json lists them all
    tlapm SessionProofs.tla                  # one module of proofs

`PROJECT.json` gives, for every definition that models code, the lines it stands for;
for every property, a fault of the code that breaks it; and the hazards the
properties are aimed at, each at its line.

## 1. Inventory

Paths: `ha` is `src/host-agent`, `fe` is `src/frontend/src`.

| Component | State it keeps | Operations | Talks to | Modules |
|---|---|---|---|---|
| Agent start and end (`ha/cmd/host/main.go`) | contexts, the session tracker | start, fail, stop, drain, withdraw | everything below | `StatusWindow`, `HostRecord`, `Coordinator` |
| Host record (`ha/cmd/host/main.go`, `ha/internal/host`) | the code in use (`pairing`), the record `/hosts/{code}` with owner and `lastSeen` | register, rotate, heartbeat, withdraw | database, status window, coordinator (`onRefusals`) | `HostRecord` |
| Request inbox (`ha/internal/session/inbox.go`) | ids seen, the stream | dispatch, forget, reconnect | database; starts a goroutine `Run` per request | `Inbox` |
| Session coordinator (`ha/internal/session/coordinator.go`) | the slot (`active`), the streak of prompts without a yes, the locals of each `Run` | `Run`, `acquire`, `prepare`, `run`, `finish`, `streamScreen` | all of the below | `Coordinator`, `Session`, `Capture` |
| Signaling transport (`ha/internal/signaling`) | the answer, the buffer of candidates, `gone` | route, await answer, reopen | database, peer | `Trickle`, `Coordinator` |
| WebRTC peer (`ha/internal/webrtc`) | the connection, candidates not yet published | prepare, negotiate, close | transport; pion | `Trickle`, `Coordinator` |
| Operator's screen (`ha/internal/consent`, `ha/internal/macos`) | `uiMu`, `attention`, windows | ask, pick, busy | coordinator, transfers, input gate | `OperatorScreen` |
| Input (`ha/internal/session/inputgate.go`, `ha/internal/input`) | keys and buttons held | apply, release all | data channel, operating system | `OperatorScreen` |
| Files, host side (`ha/internal/transfer`) | one inbound and one outbound batch | offer, chunk, end, cancel, request, accept, close | data channels, operator's screen, disk | `FileUpload` |
| Clipboard (`ha/internal/clipboard`) | the sequences of the last poll and of the last own write, the last text | poll, handle, put files, stop | data channel, the worker's thread, operating system | `ClipboardSync` |
| Capture (`ha/internal/capture`, `ha/internal/vpx`) | the source, its frame, the pool of images, the waiting job, the encoder | grab, reopen, convert, merge, encode, keyframe | peer, operating system | `ScreenSource`, `DesktopSource`, `Capture` |
| Status window, firewall watch, notices (`ha/internal/ui`, `ha/internal/firewall`) | the queue of updates, the window's flags | post, drain, close, finish | the agent's goroutines, operating system | `StatusWindow` |
| Viewer connection (`fe/composables/useViewerConnection.ts`, `fe/services/session.service.ts`) | state, session id, timers, listeners, onDisconnect handlers | connect, teardown, answer | database, browser | `Viewer`, `Trickle` |
| Viewer files (`fe/composables/useFileTransfer.ts`) | batches, rows | send, receive, cancel, clear | data channel | `FileUpload` |
| Viewer clipboard (`fe/composables/useClipboardSync.ts`) | last texts of either way, one that waits for a click | paste, focus, receive | data channel, browser | `ClipboardSync` |
| Viewer presence (`fe/services/host.service.ts`, `fe/utils/presence.ts`) | none | look a code up, remove a stale record | database | `HostRecord` |
| Database rules (`src/firebase`) | the data | read, write, onDisconnect | every component | `Signaling`, `HostRecord` |
| Database client, identity (`ha/internal/firebase`, `ha/internal/auth`) | a token | get, put, patch, delete, stream | database | `Inbox`, `Trickle` |
| Viewer input, local endpoint, greeting, configuration, licenses, pages | see section 7 | | | none |

### How they work together

1. The agent publishes `/hosts/{code}` and keeps `lastSeen` fresh. The operator reads
   the code to the person at the viewer, who types it.
2. The viewer arms `onDisconnect().remove()` on `/sessions/{id}` and
   `/inbox/{owner}/{id}`, then creates both in one update, status `waiting`.
3. The inbox hands the entry to `Coordinator.Run` on a goroutine of its own. `Run`
   reads the node, takes the slot or declines, writes `connecting`, starts a peer and
   asks the operator, while a watcher looks for a viewer that takes its request back.
4. On a yes the agent posts an offer, the viewer an answer, ICE finds a path, both
   write `connected`, capture starts.
5. Whatever ends it, the viewer writes `ended` and removes the nodes, the agent does
   the same, releases the peer and frees the slot. Every one of these writes may fail.
6. Three prompts in a row without a yes make the agent rotate its code.

### What is hard about it, and what makes it correct

* **Interleavings.** Runs of several requests, their watchers, the stream readers,
  the capture goroutine; rotations beside each other and the heartbeat; prompts,
  pickers and the input channel's read loop. One session at a time; one question at a
  time; no frame passes the gate while a question is up; one computer per code.
* **Failure.** Every database call may fail; the link breaks; the tab or the agent
  dies anywhere. The slot comes back, nothing is held by a run that has returned,
  nodes do not stay behind, deleted nodes do not return, no key stays pressed.
* **Stale reads.** Status is written from a snapshot, a withdrawal races a yes, a
  rotation has read the code it replaces long before it retires it, `Busy()` is read
  before a frame is applied.
* **Waiting.** Every wait (answer, ICE, prompt, picker, drain) must end when the
  session does.
* **Files.** Offers, answers, chunks and cancels cross on one channel whose chunks name
  no file; the question is asked on a goroutine of its own and may outlive its offer.
  Nothing is written without a yes, nothing half written stays, the slot comes back,
  a row says what became of its file.
* **Replay.** The inbox is streamed anew after every break and every token, and the
  stream begins with all that is there; what was handled is forgotten after a while,
  and its removal may have failed. A request is handled once, and none is overheard.
* **Order.** Every candidate is published by a goroutine of its own, and read through a
  stream that may end at any event. None is there before its offer; all arrive.
* **Merging.** A tick is skipped, converted, merged with the one that waits, or encoded,
  while the screen changes its size, locks, or loses its duplication. The last change
  is sent, a new size gets a new encoder, three images are enough.
* **Two threads, one window.** The status window and the clipboard each belong to one
  thread and are written to from many. No update is lost, no call waits for ever, what
  the viewer put on the clipboard is not sent back as the operator's.

`PROJECT.json` lists each hazard at its line with the properties that would catch it,
or says why none does.

## 2. Modules

| Module | Models | Code it follows |
|---|---|---|
| `Signaling` | the session node, the inbox entry, the rule that decides a write, the link | `database.rules.json`, `session.service.ts`, `connect.go` |
| `Coordinator` | the agent's side of every request, and its process | `coordinator.go`, `inbox.go`, `rtdb_transport.go`, `connect.go`, `main.go` |
| `Viewer` | one page per request, and the server's onDisconnect | `useViewerConnection.ts`, `session.service.ts` |
| `Session` | the composition of the three; properties; refinement mapping | |
| `SessionLifecycle` | abstract: one request at a time, admitted, accepted, connected, closed | |
| `OperatorScreen` | prompts, pickers, the lock, the input gate and handler, the end of `run()` | `consent/*`, `inputgate.go`, `handler.go`, `coordinator.go` |
| `HostRecord` | registration, rotation, heartbeat, withdrawal, ageing, other agents and viewers | `main.go`, `registrar.go`, `presence.ts`, rules of `/hosts` |
| `FileUpload` | files from the viewer to the host, both sides and the channel, the file questions' quiet period | `transfer/session.go`, `coordinator.go` (`fileApprover`), `useFileTransfer.ts` |
| `ScreenSource` | the monitor, and what a source of pictures promises the pipeline | `capture/pipeline.go` (`source`), `capture.go` |
| `DesktopSource` | the sources behind the promise: DXGI, GDI, ScreenCaptureKit; the painted pointer | `dxgi_windows.go`, `gdi_windows.go`, `cursor_windows.go`, `capture_darwin.go` |
| `Capture` | the pipeline over any source that keeps the promise, the encoder, the loop that feeds the track | `capture/pipeline.go`, `vpx`, `coordinator.go` (`streamScreen`) |
| `Inbox` | the inbox over its stream, the memory of what was handled, the token | `session/inbox.go`, `firebase/rtdb.go`, `auth.go` |
| `Trickle` | offer, answer and candidates between peer, transport and page | `webrtc/connect.go`, `signaling/rtdb_transport.go`, `useViewerConnection.ts` |
| `StatusWindow` | the agent from start to end, the firewall watch, the notices, the window and its thread | `cmd/host/main.go`, `ui/window_windows.go`, `firewall/status.go` |
| `ClipboardSync` | both clipboards, the host's worker thread and the page | `clipboard/*`, `useClipboardSync.ts` |
| `MCSession`, `MCFileUpload` | symmetry sets and sizes for TLC | |
| `*Proofs` (8) | theorems and their proofs | |

`Session` composes `Coordinator`, `Viewer` and `Signaling`. `Capture` and
`DesktopSource` meet at `ScreenSource!Promise`: the pipeline is checked over every
source that keeps the promise, and each source is checked to keep it. The others are
parts of their own: `Coordinator` takes from `Inbox` that a request is handed over once
(`Dispatch`), and from `Trickle` that a removal is told (`StreamReports`), and both are
theorems or checked properties there.

Where a definition stands beside one of nearly the same name (`Copyable` and
`CopyableAlways`, `Merged` and `MergedNoRestart`, `Expires`), the second is the first with
a fault of the code in it. Such definitions are used by no action; `PROJECT.json`
names the property each of them breaks.

### Session: state and actions

A *request* `r` is a session id. `pc[r]` is the line of `Run` its goroutine stands at;
the variable names are those of the code (`active`, `unapproved`, `withdrawn`,
`live`), `defers[r]` is the stack of deferred releases (`slot` below `peer`), so that
the reverse order in which Go runs them is a guard (`FreeSlot` needs
`defers[r] = {"slot"}`). `snap[r]` and `news[r]` are what the transport's stream has
delivered but nobody may have read yet; a status that was replaced before it was
reported is never seen, as in the code. Each database write is an action of its own,
so everything can happen between two of them; a best-effort write (`setStatus`,
`finish`) is applied or not (`TrySetStatus`). A write to a node that is not there is
refused by the rules and changes nothing (`PutStatus`).

The viewer's `connect()` is two actions (arm the handlers, the update is applied)
because a tab can die, or a page be left (`LeaveEarly`), in between; `teardown()` is
three (close, status, removal). `announcing` is the status write nobody waits for. The
page's writes may fail like the agent's. A removal that is refused keeps the nodes and
the handlers (`RemoveNodes`, second disjunct), so the tab can still die after its request
is over. `OnDisconnect` is the server's: a dead tab, or a dropped socket of a live one.
The removal of an inbox entry is one deletion, in `Dispatch`: `finish()` tries it again,
and what becomes of an entry whose removal failed is modelled in `Inbox`.
SDP, candidates, frames, the greeting and log lines are left out: no property and no
guard of these parts depends on them.

`ProcessEnds` may come at any time: it is the kill as well as the end of a shutdown,
whose drain has a timeout (`sessionDrainTimeout`).

### OperatorScreen: state and actions

`stage[a]` is where the goroutine of question `a` stands in `exclusive()`; the lock
and the counter are separate steps, taken and given up in the code's order. The two
systems differ in `canBeClosed`, chosen in `Init`: on macOS the agent closes its picker when the context
ends, on Windows it walks away from it and the window stays (`Abandon`). A frame
passes the gate (`Receive`) and is applied (`Apply`) in two steps, as `Busy()` is read
before the handler's lock is taken. `run()` releases what is held, then closes the
transfers and the peer; the input channel's `OnClose` comes when its read loop ends.

### HostRecord: state and actions

A registration is a job: one at start-up, one per rotation. `Register` is one attempt
of `registerWithFreshCode` with every outcome, including a write that was applied and
whose answer was lost. Time is the age of a record in the three classes the code
distinguishes: fresh (shown online), late, stale (anyone may delete or take it).
`KeptFresh` is the one timing assumption: in contact, a heartbeat every 30 s does not
let the 90 s of the code in use pass; nor does a goroutine spend 90 s between the
answer to its registration and the assignment in the next line.

### FileUpload: state and actions

`up` and `down` are the two directions of the ordered, reliable channel. On the host,
`job[b]` is where the goroutine of the offer of batch `b` stands in `offered()`
(one action per lock section or message), and the read loop takes one message at a
time: `ReceiveChunk` and `FinishFile` are two actions because `handleChunk()` gives
the lock back in between, and until the second the loop takes no further message
(`finishing`). `rx`, `pending`, `files`, `closed` are the fields of `Session`; `part`
and `saved` are the disk. On the viewer, `batch[b]` is where `runBatch()` stands
("over" once it left `batches`; "stranded" if it left because the page could not read the
file or send on, `SendFails`, which the host is not told), `rows[b]` the rows as the panel lists them: a message
finds its row by position, as in the code.

A chunk carries the file it was cut from for the properties only; the host does not
look at it (`mixed` records when the two differ). Sizes are units, a chunk is at most
`ChunkUnits`. The quiet period is a flag that a refusal sets and time clears, whatever
its length. Progress messages, file names, the room on the disk and the session's byte
limit (beside the file limit) are abstracted: the offer check may fail at any time.

### ScreenSource, DesktopSource and Capture: state and actions

A picture is a number, the image of the desktop it shows; a mode is a resolution.
`Promise(said)` is the interface `source` of the pipeline: what a grab that says
"changed", "same", "unavailable" or fails may have done to the frame.

`DesktopSource` has one operator per source, each a set of outcomes of one grab, as
what Windows or macOS answers is not the program's to decide. `source.news` is a first
or a next image that waits, `waiting` the 500 ms after a failed duplication (the
display check's second on macOS), `probe` the answer of `desktopProbe` while it is
fresh. `bitmap.marks` are the pointers in the pixels, with `"smear"` for a rectangle
restored where it was not saved; `Paint` is `cursorPainter.paint`.

In `Capture` a tick with its `send()` is one step: only the capture goroutine puts
anything into the channel of one, so that the encoder taking a job in between changes
what `send()` finds and nothing else. `Encode` and the delivery are two, because the
hand-over waits for the reader. `want` is the keyframe request, whose rate limit is
the choice of `force`. An encoder always has something to deliver: the packet without
data (`pipeline.go:411`), which is not sent, is left out. A new capture starts when both goroutines of the old one are
gone, for which `captureRetryBackoff` leaves them two seconds.
`owed` is auxiliary: a new encoder has been called for and not been made.

### Inbox: state and actions

`clock` is the server's, `Skews` how far the agent's may be from it at one reading.
`stream.events` is what the server has sent and the agent has not read; a break cuts it
anywhere, an expired token ends it with `auth_revoked`, before or behind what is still
under way; the code drains that without looking. A reopened stream begins with all of
the node. `Dispatch` is one entry of an event: it forgets what is too old, notes the id
and goes to remove it (`RemoveReturns`), and only then is the request looked at, as in
the code; the model counts how often an id is handed over (`handled`).

### Trickle: state and actions

Each candidate of the host is a goroutine (`peer.sending`) that has only its own
publication left. `call` is where `Negotiate` stands; `End` comes at any time. The
transport's goroutine takes an event (`Receive`), and its candidates one by one
(`Emit`), blocked while the buffer is full and the context is alive. `Reopen` after the
removal is a denial, which the code takes for `gone`. `lost` is auxiliary, the
candidates whose publication failed, which nobody repeats.

### StatusWindow: state and actions

`run` is what main's goroutine does next. What a goroutine says is a list of updates
(`say`), and each is two steps, into the queue under its lock (`Enqueue`) and the wake-up
(`Wake`); the UI thread's `OnRefresh` resets the flag and `Drain` empties the queue, two
steps again. Closing, an ending Windows session (`EndSession`, which waits on the UI
thread) and the end of the agent meet in any order. The log pane is left out, and a
configuration that cannot be read is one more way in which the start fails.

### ClipboardSync: state and actions

`worker.at` is where the locked thread stands within `poll()` or a job; between two of
these points any other program may write the clipboard (`OperatorCopies`) and the
system may refuse a call (`Busy`). `jobs` are the goroutines that wait in `do()`. A text
is one of the operator's or one of the viewer's, disjoint sets, so that an echo shows;
`"files"` and `"pasted"` are files either person put there, `"secret"` a text marked
private. On the page, reading the clipboard is two steps around its `await`; its other awaits
(the permission, the write) are part of the step they end. Another owner that bumps the
sequence with the viewer's own text, the second guard of `sync.go:54`, is not modelled.

## 3. Runs

Deadlock is not checked anywhere (`CHECK_DEADLOCK FALSE`): sessions are over, questions
have been answered, processes have exited and the budgets of faults are spent for good;
the liveness properties say which of the waits must end. A passing run takes between
seconds and three minutes or so with two workers. Types are not checked by runs: the
type invariants are theorems (section 4). `DesktopSource` states none beyond what
`PointerInv` and `ScreenTypeOK` say.

| Run | Instance | States | Question |
|---|---|---|---|
| `session` | 2 requests, symmetric; `MaxUnapproved` 2 | 2.4 M | slot, consent, clean-up, no resurrection; implements `SessionLifecycle` |
| `session_live` | 1 request; `FairSpec` | 5.5 k | each request is decided, departures end it, nodes go, the viewer is answered |
| `session_orphan` | as above, drops before the update | 8.3 k | violated: `NoOrphans` |
| `screen` | both systems, 2 prompts, 1 picker, 1 key; `FairSpec` | 24 k | one live window, covered by `Busy()`; lock and counter agree; cancelled questions end; no key stays held |
| `host_record` | 3 codes, 1 rotation, 2 attempts; `FairSpec` | 355 k | live records are safe, never without a code, replaced codes die |
| `file_upload` | 2 batches of 2 files (2 chunks and 1 chunk each), 2 messages of window, 3 files a session, 1 unanswered question; `FairSpec` | 389 k | what was agreed is what is done, no remains; rows and slot come to an end |
| `desktop` | both systems, 2 modes, 1 place of the pointer, 2 pictures, 2 upsets; fair | 9.2 k | each source keeps its promise, one pointer, the frame catches up |
| `capture` | 2 modes, 1 picture and none, 1 upset, 3 images; `FairSpec` | 216 k | images, encoder, keyframes, last change, the end of an unread capture |
| `inbox` | 2 ids, age 1, token 2, skew 0 or 1, 5 times, 2 faults; `FairSpec` | 874 k | handled once, none overheard |
| `trickle` | 1 + 2 candidates, buffer 2, 2 faults; `FairSpec` | 99 k | order, arrival, the removal is told |
| `window` | 3 updates behind; `FairSpec` | 711 k | updates are shown, closing ends, the code is offered while it is good, the record goes before the window |
| `clipboard` | 2 texts of the operator, 1 of the viewer, 3 gestures, 1 refused call; `FairSpec` | 73 k | no echo, copies arrive, nobody waits for ever |

Why the bounds are enough to be interesting:

* *Two requests* are the least with a contention for the slot, a second question, and
  a streak over several requests; `MaxUnapproved = 2` lets the streak both grow and
  be reset by an alert. Liveness needs no second one, as the only thing requests share
  is the slot, and `Decline` answers at once.
* *Two prompts and a picker* put a waiting question behind each kind of holder, with
  one more to come; *one key* is enough because keys do not interact.
* *Three codes* let a rotation, its retry and another agent collide; *two attempts*
  have both a retry and an exhaustion.
* *Two batches* let one be offered while the other is decided, written or given up;
  *two files* have a first and a last one; a limit of three files lets one batch in and
  refuses the other after it; files of *two chunks* have a state in between, and those
  of one have none.
* *Two modes* let the resolution change and change back with images of both sizes in
  the pool; *three images* are all there can be in use, so the third is the one that a
  fourth would have to come from. One upset is either a change of the resolution or a
  failure; `desktop`, where both meet within one source, has two. *One picture* in
  `capture` is a frame with something and one without; which picture it is matters to
  the sources, where there are two.
* In `inbox` *five times* hold a token's life, the age of a request and its forgetting
  one after the other; *two faults* let a removal and the stream that would have told
  of it fail. In `trickle` *two* candidates of the viewer fill the buffer.
* *Three gestures* are a copy on either side and a third that crosses one of them.
* `DropsBeforeCreate` says whether the browser's socket may drop between the
  registration of the handlers and the update. It is FALSE where `NodeRemoved` is
  checked, and TRUE in `session_orphan`, which shows what the drop does.
* `Redraws` says whether a code may be drawn twice by one agent. It is FALSE in the
  run, a premise of `RotationKeepsACode`, and discussed in section 5.

Symmetry is used in `session` only, where no property names an element of the set.

### Fairness

`Session`: each `Run` proceeds (`RunProceeds`, one weak fairness per goroutine): its
HTTP calls have timeouts, `snapshotTimeout`, the prompt's 45 s and ICE's own timer end
its waits; `AskReturns` is in it because the prompt times out, not because anyone
answers. Streams are read, the capture goroutine notices its context. On the viewer's
side pending writes are sent, the connection timer fires, listeners are called, and the
server runs the handlers of a dead tab. Nobody has to ask, answer yes, leave or stop
the agent, and the link need not come up.

`OperatorScreen`: goroutines go on; `Enter` is strongly fair because Go's mutexes do
not starve a waiter; a prompt's window closes by its own timeout, a picker's need not;
a closed channel carries finitely many messages, so its read loop ends (strong
fairness of `InputOnClose`: `Receive` disables it for a moment only).

`FileUpload`: messages are delivered and handled, `offered()` goes on (a question has a
timeout), the viewer's timer fires, chunks are sent while the queue has room; a closed
session takes its channel along and a lost channel calls `Close()`. Nobody has to send,
answer yes, cancel or clear; no file has to succeed.

`HostRecord`: goroutines go on, the heartbeat's ticker ticks, time passes. Contact may
come and go as it likes.

`DesktopSource`: the capture ticks, its clocks run out, and the system delivers the
first image of a duplication or stream whose frame is behind. `Grab` is strongly fair,
as a failure disables it until the source is open again. Failures are finitely many
(`MaxUpsets`); without that no picture need ever come.

`Capture`: ticks and the reader go on; `Encode` is strongly fair because a capture that
is replaced disables it for a moment; and a tick comes for which `keyframeMinInterval`
has passed, which is what strong fairness of `Tick /\ ~want'` says.

`Inbox`, `Trickle`: the agent's goroutines run, their calls return, the server ends the
stream of an expired token; calls fail and connections break finitely often
(`MaxFaults`). In `Trickle` `Await` and `AddRemote` are fair beside each other. Nobody
has to answer, and no request has to be withdrawn.

`StatusWindow`: goroutines and the UI thread run, and the calls of the start and of the
end have timeouts. Nobody has to close the window, and the firewall need not be opened.

`ClipboardSync`: the worker's loop goes on, and of the ready cases of its `select` each
is taken in the end, which is strong fairness of `Poll`, `Quit` and `Write`: a Go
`select` chooses at random. Nobody has to copy, paste or leave.

### Properties worth a word

* `OneSessionAtATime` and `ReturnedIsClean` are about the order of Go's deferred calls
  on every way out: freeing the slot before the peer is released would let two sessions
  hold a peer, an early return before the `defer` would decline everyone for good.
* `NothingWithoutYes` covers a late consequence as well: neither a retry nor a
  withdrawal racing the answer makes an offer, a link or a capture unapproved.
* `NeverResurrected` is what the rules' four required fields are for: `announcing`,
  `WriteEndedStatus` and the like arrive after a deletion.
* `NodeRemoved` has three that can remove a node: the agent's clean-up and the page's,
  which can both fail, and the server once the tab is gone. Its one exception is a page
  that was refused the removal and is never closed (`NodeKept`); the server then has its
  handlers still armed, so that closing the tab is all it takes. The same page is the
  exception of `EveryRequestIsDecided` and `DepartureEndsSession` (section 5).
* `AttentionIsHeld` says more than that no window goes uncounted, which is
  `OneLiveWindow`: nor does the counter stay up without a question. Neither speaks of a
  frame that passed the gate just before the counter went up and is applied after it;
  the code lets that happen (section 1, stale reads), and no property forbids it.
* `ReplacedCodeDies` holds because the heartbeat reads `pairing` afresh at each tick.
* `AgreementIsKept` is decided before the question and used after it; it holds only
  because one batch at a time is decided or written.
* `SlotComesBack` is about everything that ends a batch while the page streams it; the
  batch the page itself cannot go on with is its exception (section 5), and a batch that
  was withdrawn before the answer is outside it.
* `RowsSettle` relates the panel to the disk at the other end, through messages that
  cross. Chunks gone astray and shifted rows (section 5) are its exceptions.
* `HandledOnce` leans on two clocks: what is handled is forgotten by one and judged too
  old by the other. That the agent's is not behind is a premise (section 5).
* `EncoderIsCurrent` is about merging: the order for a new encoder may be merged into
  jobs that carry none, and must be with the job that waits all the same.
* `OnePointer` is about the rectangle under the pointer: it belongs to one bitmap, and
  sources replace, overwrite and keep theirs at different moments.
* `UpdatesAreShown` is the order of `drain()`: were the flag reset after the queue is
  emptied, an update could be left there with nobody to wake the thread.
* `CopyIsOffered` speaks of the codes the agent has shown. Between the retirement of an
  old code and the announcement of the new one the old can still be copied.
* `CopiesReachTheViewer` names the ways in which a copy does not arrive: the clipboard
  could not be read, the copy fell between a write and its reading back, or it equals
  what the viewer sent last. All three are in section 5.

## 4. Proofs

TLAPS proves, for every value of the constants:

| Theorem | Says | By |
|---|---|---|
| `SessionProofs!TypeCorrect` | `Spec => []TypeOK` | one step per action |
| `SessionsExclude`, `WaysOutAreClean` | the slot, and what a returned run holds | `SlotInv` |
| `ConsentFirst` | nothing without a yes | `ConsentInv` |
| `DeletedStaysDeleted` | `NeverResurrected` | `HostKeepsAbsent`, `ViewerKeepsAbsent` |
| `LifecycleIsImplemented` | `Session` implements `SessionLifecycle` | `SlotInv` and the lemmas on `Phase` |
| `NothingIsOrphaned`, `NoHalfOpenLink` | who removes a node, who notices a lost link | `Covered`; `LinkInv` |
| `OperatorScreenProofs!TypeCorrect`, `LockGuardsAttention`, `OneWindow`, `ReleasedOnClose`, `QuestionsAreFreed` | lock, counter, windows, keys, ends | `ScreenInv` |
| `AgentProofs!TypeCorrect`, `CodesStayPut`, `RotationKeepsACode`, `ReplacedCodeFades` | records and rotation | the rule of `WritableBy`; `RotationInv` |
| `AgentProofs!WindowTypeCorrect`, `WindowGoesLast`, `CodeOnOffer`, `NoLostWakeUp`, `CloseIsAnswered` | the agent's window | `WindowInv` |
| `FileUploadProofs!TypeCorrect`, `AgreementHolds`, `NothingHalfWritten`, `ClaimIsGivenBack` | the host's side of uploads | `UploadInv` |
| `CaptureProofs!TypeCorrect`, `EncoderStaysCurrent`, `ImagesHaveOneHolder` | the pipeline | `CurrentInv`, `PoolInv` |
| `StrayCaptureIsStopped`, `LossIsNotForgotten` | its end, its keyframes | `StrayInv`, `RepairInv` |
| `CaptureProofs!SourcesKeepTheirPromise`, `PointerLeavesNoTrace` | the sources | `Kept`, outcome by outcome; `PointerInv` |
| `InboxProofs!TypeCorrect`, `HandledAtMostOnce`, `NoRequestIsOverlooked` | the inbox: once, and once at least | `OnceInv`; `HeardInv` |
| `TrickleProofs!TypeCorrect`, `CandidatesFollow` | order of offer and candidates | `OrderInv` |
| `HostCandidatesAreKept`, `ViewerCandidatesAreKept`, `GoneIsNotMissed` | what the transport carries | `QueuesInv`; `SeenInv`; `StreamInv` |
| `ClipboardSyncProofs!TypeCorrect`, `NoEcho` | the clipboard | `EchoInv` |
| `CopyIsNotLost`, `NobodyIsLeftWaiting` | a copy on its way, the worker's callers | inductive as they stand |

*The slot.* Neither `OneSessionAtATime` nor `ReturnedIsClean` is inductive: that a step
of `r` frees the slot of `r` and of no one else needs to be known from where `r`
stands. `Owes(r)` says it: which deferred releases `r` owes at each point of `Run`,
and that a peer or a clipboard worker exists only while its release is owed.
`SlotInv` adds that the flag is up exactly while someone owes the slot, and that no two
do; `Acquire` is guarded by the flag, `FreeSlot` by the stack.

*Consent.* `ConsentInv` says that every point beyond the decision (`Granted`) that a
refused request cannot skip to, and everything that outlives that point (the offer, the
link, the capture), comes with `approved`. It includes what must hold before: no offer,
no link and no capture at the earlier points.

*The life cycle.* `Phase` maps a request to the abstract state from the slot it owes
and the point of `Run`. The lemmas say that a step which moves neither leaves the
phases alone (a stutter), and one that moves a single request is one abstract move;
that the others are outside when one is admitted is `SlotInv` again. `ProcessEnds` is
`LStop`.

*The screen.* `ScreenInv` puts the lock's holder, the counter and the stages together:
the counter's type (0 or 1) is itself a consequence of the lock. `OneWindow` leaves
out the windows that were abandoned, and must (section 5).

*Rotation.* `RotationKeepsACode` needs that the code a rotation retires is not the
current one, which holds because codes are drawn once (`Drawn`, `RetiredIsOld`), and
that a published code stays the agent's until it is current (`PublishedIsKept`, from
the rule and from `KeptFresh`). `ReplacedCodeFades` has the same two reasons: a replaced
code was drawn, so it is not drawn again, and is not the current one, so the heartbeat
leaves it alone.

*The window.* The run's end is told by a message, and `EndIsTold` is exact about it: the
run is over if and only if the message is in the queue or the thread has taken it. With
it `finish()` and a late `requestClose()`, the two that destroy the window, find the
agent's end behind them. `WakeIsOwed` follows an update from `post()` to `drain()`: the
goroutine that queued it, the flag, whose message is then in the queue, the thread. It
is inductive because the thread resets the flag before it takes the updates; for
`drain()` the proof needs only which update of each kind is shown (`DrainShows`).

*Uploads.* The limits are looked at before the question and the quiet period before the
prompt, each under a lock that is given back; `OneClaim` is why both are still good when
they are used: one batch at a time is between the claim and the release, and nothing
else is written while one is being decided. With it `LimitsKept` carries the check to
`beginBatch()`, and from there file by file to the end of the batch. `ChannelOK` types
the messages, which the read loop's steps need.

*Capture.* `CurrentInv` adds to `EncoderIsCurrent` that a job which orders an encoder
has an image, so that `Encode` cannot skip it. `PoolInv` says by three names what
`ImagesExclusive` counts: every image there is, is one of `i`, `j`, `k`; a tick takes a
free one or, with none free, a third. `ImagesHaveOneHolder` takes from
`CaptureAssumption` that an image can be made when two are held. For the sources the
promise is proved of every outcome of every call (`DxgiKeeps`, `GdiKeeps`, `SckKeeps`,
`OpensKeep`), and needs of the state only that the monitor has a mode. `PointerInv` is
exact: the bitmap's marks are the pointer the painter believes it has drawn there, and
none when it believes in none.

*The inbox.* `HandledOnce` follows from what may still come: `CopyIsOut` is every place
an entry can be read from (the node, the batch in hand, an event under way), and
`CopiesAreSpent` says of each that it cannot be handled again: its id is in `seen`, or
was never handled, or it is too old by now. The last is what the skew could undo, hence
the premise `Skews \subseteq Nat`. `Ledger` keeps the book on what is handled next.

*Order.* The order of offer and candidates is not in the goroutines but in when the
first of them can start; `OrderInv` says that none does before `startPublishing`, and
that the offer is in the node by then, or the node is gone.

*The clipboard.* `poll()` goes by the sequence alone. `EchoInv` says why that is enough:
while the viewer's data is on the clipboard the worker is between the write and the
reading back, or knows the sequence.

*What liveness rests on.* That something happens in the end cannot be proved here, but
what fairness is given to work on can: that nothing which must still happen was lost,
and that somebody who goes on has it in hand. The runs check the liveness property on a
small instance, the theorem its safety half for every value of the constants:

| Liveness (runs) | Safety half (theorem) |
|---|---|
| `NodeRemoved` | `NothingIsOrphaned`: whatever a request left in the database, whichever writes fail and whether its page is at work, over or dead, the server has the handlers that remove it when the tab goes. They are armed first and cancelled last. Only while the page keeps its connection until the request is there (`~DropsBeforeCreate`); the run `session_orphan` is the other case (section 5) |
| `DepartureEndsSession` | `NoHalfOpenLink`: a link that is up has both ends, and a run past the answer whose page has left has lost it. `LinkInv` adds that an answer is the page's |
| `CancelledQuestionsEnd` | `QuestionsAreFreed`: the lock is with a question that gives it back, a question that waits for a window has one, the pickers of a session that is over are cancelled |
| `ReplacedCodeDies` | `ReplacedCodeFades`: nothing renews a code that was replaced |
| `EveryRequestIsHeard` | `NoRequestIsOverlooked`: an entry was handed over, is too old, or is in the batch, in an event or in what the next stream begins with. `LookedAt` is needed of `seen`, which would hide it otherwise, and `WrittenOnce` of what may still come; no premise on the skew |
| `CandidatesArrive` | `HostCandidatesAreKept`, `ViewerCandidatesAreKept`: a candidate is in one of the places it passes through, or applied |
| `GoneIsTold` | `GoneIsNotMissed`: a transport that has not told it has still something to read that does |
| `LossIsRepaired` | `LossIsNotForgotten`: the request is pending, or with the waiting job, or its keyframe at the encoder, or a restart stands for it. `RepairInv` adds that a capture which has sent a job has an image, so the encoder skips no job with a request |
| `UnreadCaptureEnds` | `StrayCaptureIsStopped`: whenever the session reads no frames, its capture is over or told to be |
| `UpdatesAreShown`, `ClosingEnds` | `NoLostWakeUp`, `CloseIsAnswered` |
| `CopiesReachTheViewer` | `CopyIsNotLost`: a copy that was seen is being read, or is the last message under way or taken |
| `DoReturns` | `NobodyIsLeftWaiting`: what is written is awaited, and quit is seen between two jobs |

The others (`EveryRequestIsDecided`, `ViewerResolves`, `RowsSettle`, `SlotComesBack`,
`FrameCatchesUp`, `PictureArrives`) have no such half beyond the type and the invariants
above. `ClaimIsGivenBack` is of the same kind without a run: `pending` is up exactly while
one batch is between the claim and its release, so no early return of `offered()` forgets
it and no offer is refused as busy because of a batch that is gone.

The assumptions are those named in the modules (`MaxUnapprovedAssumption`,
`DropsBeforeCreateAssumption`, `QuestionsAssumption`, `HostRecordAssumption`,
`FileUploadAssumption`, `ScreenAssumption`, `SpotsAssumption`, `CaptureAssumption`,
`InboxAssumption`, `TrickleAssumption`, `ClipboardAssumption`, `WindowAssumption`); TLC
evaluates each of them. Only model-checked: all liveness properties, as the proof system
has no `ENABLED`, and `NoOrphans`, which does not hold. Every other property of the runs
is the statement of a theorem.

## 5. Where the code and its words disagree

Shown by a run:

* `session_orphan`: `session.service.ts:73` promises no window for an orphan; a drop
  of the socket while `createSession()` is in flight uses the handlers up, the SDK
  resends the update, and a tab that then dies leaves the node.

Behaviours of the modules that have no run of their own. Sessions:

* The status may go from `ended` back to `connecting` or `connected`
  (`PROTOCOL.md:78` gives an order): the agent writes it from its snapshot
  (`coordinator.go:354`, `:611`). The end is noticed by the removal that follows.
* A page whose removal was refused is finished with its request (`session.service.ts:187`)
  and tries no more: the node stays until the tab closes or drops its connection. An
  agent that was approved meanwhile and waits for the answer goes on waiting, as nothing
  else ends that wait (`rtdb_transport.go:150`), and declines everyone else as busy.
* A request handled by an agent whose clock is behind the server's may be handled
  again: it is forgotten after `staleRequestAge` while its entry, not removed, still
  looks young (`inbox.go:172`).

The operator's screen:

* On Windows a file dialog whose session ended stays on the screen when the next prompt
  opens (`picker_windows.go:134`, against `ui.go:10`).
* A key held when a prompt appears is released by the next frame only
  (`inputgate.go:25`); a viewer that sends none holds it through the question.
* `ui.go:17` bounds the wait for the lock by a prompt's timeout; a picker has none.

The record:

* A record lost while the agent was offline is never registered again, although the
  message says the code works again once contact is back (`main.go:589`).
* With two rotations, one whose `Unregister` is slow announces its code after the next
  one has (`main.go:568`, `:575`); the window then shows a code that does not work.
* A rotation that draws the code it replaces would delete its own new record
  (`main.go:568`); this is why `Redraws` is a premise.
* A rotation in flight at a graceful exit may leave its record behind (`main.go:352`,
  `PROTOCOL.md:90`); it expires by itself.

Files:

* An `f-cancel` that comes while the question is up is not heeded (`session.go:163`,
  against the comment at `:24`); a late yes begins a batch nobody sends, and every later
  offer of the session is refused as busy.
* Chunks of a batch that the host gave up are written into the next batch's file when
  that is accepted before the viewer has heard (`session.go:306`, `PROTOCOL.md:209`).
  They may complete files before their batch's `f-accept` puts its rows back to
  `sending` for good.
* A file that the page cannot read on (`useFileTransfer.ts:437`), or a `send()` that
  throws (`:441`), ends the rows of its batch but posts no `f-cancel` (`:389`). The host
  keeps its half of the file and the slot, and refuses every later offer as busy, until
  the session ends.
* "Clear finished" in the middle of a batch shifts each `f-done` to a later row
  (`useFileTransfer.ts:192`, `PROTOCOL.md:220`): it shows as done what is not stored.
* Rows of a batch that was sent completely stay `sending` when the channel goes before
  its last `f-done` (`useFileTransfer.ts:528`).

Capture:

* A duplication whose first image has not come, and whose seed from GDI fails, leaves an
  empty frame that a grab calls unchanged (`dxgi_windows.go:324`); the pipeline encodes
  a black picture until the first image comes. The promise allows it: `FrameCatchesUp`
  says it passes.

The window:

* A firewall check that fails ends the watch, also after it has warned; the warning then
  stays although the operator has clicked Allow (`main.go:389`, against `:374`).
* "Stopping…" may be overwritten by a status that was queued before
  (`ui/ui.go:24`), the warning by a status of the start-up, and the note to see the
  activity log by the watch's.

The clipboard:

* A password copied between the question whether the clipboard is private and the
  reading of its text is sent (`sync.go:127`, `:144`).
* A copy is lost when the clipboard is busy at the moment of the poll, as its sequence
  counts as seen (`sync.go:127`), and when it falls between a write and the reading back
  of its sequence.
* A text equal to the one the viewer sent last is not sent although the clipboard held
  another since; the same on the page (`useClipboardSync.ts:100`). The page may send
  back an older copy of the operator's that it was reading when a newer one came
  (`useClipboardSync.ts:48` says it does not bounce).
* Text and the keystroke that pastes it take different channels, so a paste may insert
  what was there before (`sync.go:167`, `worker.go:92`).

## 6. Left to do

What could be added, by weight:

1. Files to the viewer (`transfer/send.go` and the receiving half of
   `useFileTransfer.ts`): request, picker, accept, stream, cancel; the outbound slot,
   which nothing frees after a completed download; two accepts of one batch; a
   refusal that never resets `pendingRequest`. An abstract batch (offered, decided,
   whole or absent) for both directions to implement.
2. The viewer's input capture against the handler's keys held, over the gate of
   `OperatorScreen`.
3. `SafeName` and pairing codes as functions over bounded inputs.
4. A refinement from `Inbox` and `Trickle` to the `Dispatch` and `StreamReports` of
   `Coordinator`, which now are tied by their properties.
5. The safety half of `SlotComesBack`, for a batch that is not stranded: what the host still misses of a file is what the
   viewer has still to send and what is under way. It needs the offset of every chunk on
   the channel, which the messages do not carry.

## 7. Not modelled

* *Files to the viewer* and the *viewer's input capture*: see section 6; the hazards of
  the first are listed without a property.
* *Local identity endpoint, greeting and capabilities*: one request and one answer each,
  without state that anything else depends on.
* *Configuration, licenses, build tools, web pages*: read at start-up or rendered; no
  state machine of their own.
* *Database client*: its streams and failing calls are part of `Inbox` and `Trickle`;
  the parsing of server-sent events and the retry of HTTP are left out.
* *Updates and the firewall's rules*: what they tell the window is in `StatusWindow`,
  how a release or a rule is found is not.
* *The window on macOS*: AppKit's main queue, outside the repository's Go code, has the
  part of the queue and its wake-up.
* *Pixels*: conversion, scaling, VP8 and what a cursor looks like are data no property
  here tells apart.
* Pion, the browser's WebRTC and the operating systems' capture, clipboard and injection
  are outside the repository: the modules have what the code relies on.
