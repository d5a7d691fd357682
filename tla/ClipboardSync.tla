----------------------------- MODULE ClipboardSync -----------------------------
(***************************************************************************)
(* The shared clipboard of a session: Sync and its worker thread on the    *)
(* host (internal/clipboard), useClipboardSync.ts on the page, and the     *)
(* file channel between them.                                              *)
(***************************************************************************)
EXTENDS Naturals, Sequences

CONSTANTS
  HostTexts, ViewerTexts,  \* what either person copies
  MaxGestures,             \* bound: what the two people do
  MaxBusy                  \* bound: calls the system's clipboard refuses

Texts == HostTexts \cup ViewerTexts
None == "none"
Mine == HostTexts \cup {"files"}              \* what the operator shares by copying
Theirs == ViewerTexts \cup {"pasted"}
Values == Mine \cup Theirs \cup {"secret", None}

ASSUME ClipboardAssumption ==
  /\ HostTexts \cap ViewerTexts = {}
  /\ Texts \cap {"files", "pasted", "secret", None} = {}
  /\ MaxGestures \in Nat /\ MaxBusy \in Nat

VARIABLES
  board,     \* the operator's clipboard: Sequence() and what it holds
  sync,      \* Sync: ownSeq, lastSeq, lastApplied
  worker,    \* the locked thread: where it is, what poll has read, and whose job
  jobs,      \* the goroutines in do: the file channel's and a transfer's
  stop,      \* Stop(): "no", "asked", "over"
  toHost, toViewer,
  page,      \* lastFromHost, lastToHost, pending, and readLocal's await
  local,     \* the viewer's clipboard
  joined,    \* the page's end of the channel is open
  unread,    \* auxiliary: the copy whose reading failed
  gestures, busy

vars == <<board, sync, worker, jobs, stop, toHost, toViewer, page, local, joined,
          unread, gestures, busy>>
host == <<board, sync, worker, jobs, stop, unread>>
viewer == <<page, local, joined>>

Idle == [at |-> "idle", text |-> None, for |-> None]
Gesture == gestures > 0 /\ gestures' = gestures - 1
Busy == busy > 0 /\ busy' = busy - 1
Waiting == worker.at = "idle" /\ stop # "over"
Holding(what) == [seq |-> board.seq + 1, has |-> what]

-----------------------------------------------------------------------------
\* The operator copies: text, files in Explorer, or a password marked private.
OperatorCopies ==
  /\ Gesture
  /\ \E what \in Mine \cup {"secret"} : board' = Holding(what)
  /\ UNCHANGED <<sync, worker, jobs, stop, toHost, toViewer, viewer, unread, busy>>

\* poll(): the sequence decides whether there is anything to read.

Poll ==
  /\ Waiting /\ board.seq # sync.lastSeq
  /\ sync' = [sync EXCEPT !.lastSeq = board.seq]
  /\ worker' = IF board.seq = sync.ownSeq THEN worker ELSE [worker EXCEPT !.at = "private?"]
  /\ UNCHANGED <<board, jobs, stop, toHost, toViewer, viewer, unread, gestures, busy>>

\* What the clipboard offers: Excluded(), the formats of ReadFiles() and ReadText().
Private == board.has = "secret"
HasFiles == board.has \in {"files", "pasted"}
HasText == board.has \in Texts \cup {"secret"}

\* In doubt, private.
AskPrivate ==
  /\ worker.at = "private?"
  /\ \/ /\ worker' = IF Private THEN Idle ELSE [worker EXCEPT !.at = "files?"]
        /\ UNCHANGED <<unread, busy>>
     \/ Busy /\ worker' = Idle /\ unread' = board.seq
  /\ UNCHANGED <<board, sync, jobs, stop, toHost, toViewer, viewer, gestures>>

\* Files first; a failure to read them falls through to the text.
ReadFiles ==
  /\ worker.at = "files?"
  /\ \/ /\ HasFiles
        /\ toViewer' = Append(toViewer, board.has) /\ worker' = Idle /\ UNCHANGED <<unread, busy>>
     \/ /\ ~HasFiles
        /\ worker' = [worker EXCEPT !.at = "text?"] /\ UNCHANGED <<toViewer, unread, busy>>
     \/ /\ HasFiles /\ Busy
        /\ worker' = [worker EXCEPT !.at = "text?"] /\ unread' = board.seq /\ UNCHANGED toViewer
  /\ UNCHANGED <<board, sync, jobs, stop, toHost, viewer, gestures>>

ReadText ==
  /\ worker.at = "text?"
  /\ \/ /\ worker' = IF HasText
                     THEN [at |-> "send", text |-> board.has, for |-> None] ELSE Idle
        /\ UNCHANGED <<unread, busy>>
     \/ Busy /\ worker' = Idle /\ unread' = board.seq
  /\ UNCHANGED <<board, sync, jobs, stop, toHost, toViewer, viewer, gestures>>

\* The second guard: it is what the viewer sent last.
RepeatedAlways == sync.ownSeq # 0
Repeated == worker.text = sync.lastApplied

Send ==
  /\ worker.at = "send"
  /\ toViewer' = IF Repeated THEN toViewer
                 ELSE Append(toViewer, worker.text)
  /\ worker' = Idle
  /\ UNCHANGED <<board, sync, jobs, stop, toHost, viewer, unread, gestures, busy>>

-----------------------------------------------------------------------------
\* Handle, on the goroutine of the file channel.
Handle ==
  /\ jobs.handle = None /\ toHost # <<>>
  /\ jobs' = IF stop # "no" \/ Head(toHost) = sync.lastApplied THEN jobs
             ELSE [jobs EXCEPT !.handle = Head(toHost)]
  /\ toHost' = Tail(toHost)
  /\ UNCHANGED <<board, sync, worker, stop, toViewer, viewer, unread, gestures, busy>>

\* PutFiles, once a batch the viewer pasted is saved.
PutFiles ==
  /\ jobs.put = None /\ joined /\ Gesture
  /\ jobs' = [jobs EXCEPT !.put = "pasted"]
  /\ UNCHANGED <<board, sync, worker, stop, toHost, toViewer, viewer, unread, busy>>

\* The worker takes a job and writes: nothing when the clipboard cannot be opened,
\* an empty clipboard when it then does not take the data.
Write(who) ==
  /\ Waiting /\ jobs[who] # None
  /\ \/ /\ board' = Holding(jobs[who])
        /\ worker' = [at |-> "wrote", text |-> None, for |-> who] /\ UNCHANGED <<jobs, busy>>
     \/ /\ Busy /\ board' \in {board, Holding(None)}
        /\ jobs' = [jobs EXCEPT ![who] = None] /\ UNCHANGED worker
  /\ UNCHANGED <<sync, stop, toHost, toViewer, viewer, unread, gestures>>

\* The sequence is read back, as that of our own write.
OwnedBefore(who) ==
  [sync EXCEPT !.lastApplied = IF who = "handle" THEN jobs[who] ELSE @]

Owned(who) ==
  [ownSeq |-> board.seq, lastSeq |-> board.seq,
   lastApplied |-> IF who = "handle" THEN jobs[who] ELSE sync.lastApplied]

ReadBack ==
  /\ worker.at = "wrote"
  /\ sync' = Owned(worker.for)
  /\ jobs' = [jobs EXCEPT ![worker.for] = None]
  /\ worker' = Idle
  /\ UNCHANGED <<board, stop, toHost, toViewer, viewer, unread, gestures, busy>>

RefusedNever(who) == FALSE

\* do: the thread has ended before it took the job.
Refused(who) ==
  /\ stop = "over"
  /\ jobs' = [jobs EXCEPT ![who] = None]

GiveUp(who) ==
  /\ jobs[who] # None /\ Refused(who)
  /\ UNCHANGED <<board, sync, worker, stop, toHost, toViewer, viewer, unread, gestures, busy>>

\* The channel closes or the session is released: Stop.
Stop ==
  /\ stop = "no"
  /\ stop' = "asked"
  /\ UNCHANGED <<board, sync, worker, jobs, toHost, toViewer, viewer, unread, gestures, busy>>

\* The loop sees quit between two steps, whatever else it could do.
Quit ==
  /\ Waiting /\ stop = "asked"
  /\ stop' = "over"
  /\ UNCHANGED <<board, sync, worker, jobs, toHost, toViewer, viewer, unread, gestures, busy>>

-----------------------------------------------------------------------------
\* post: sent when it is neither what the host sent last nor what it was sent last.
\* (A secret read in error is not posted here: written back it would be plain text.)
Fresh(text) == text \notin {page.lastFromHost, page.lastToHost}

Posted(text) ==
  IF joined /\ text \in Texts /\ Fresh(text)
  THEN /\ page' = [page EXCEPT !.lastToHost = text, !.reading = None]
       /\ toHost' = Append(toHost, text)
  ELSE page' = [page EXCEPT !.reading = None] /\ UNCHANGED toHost

ViewerCopies ==
  /\ Gesture
  /\ \E text \in ViewerTexts : local' = text
  /\ UNCHANGED <<host, toHost, toViewer, page, joined, busy>>

\* Taking control reads the local clipboard; the answer comes later, and is posted.
Focus ==
  /\ joined /\ page.reading = None /\ Gesture
  /\ page' = [page EXCEPT !.reading = local]
  /\ UNCHANGED <<host, toHost, toViewer, local, joined, busy>>

ReadLocal ==
  /\ page.reading # None
  /\ Posted(page.reading)
  /\ UNCHANGED <<host, toViewer, local, joined, gestures, busy>>

\* A paste on the page; the keystroke is forwarded on the input channel.
OnPaste ==
  /\ Gesture /\ page.reading = None
  /\ Posted(local)
  /\ UNCHANGED <<host, toViewer, local, joined, busy>>

\* onMessage: the text goes on the local clipboard, or waits for a click.
Applied(text, taken) ==
  [page EXCEPT !.lastFromHost = text, !.pending = IF taken THEN None ELSE text]

OnMessage ==
  /\ toViewer # <<>>
  /\ LET text == Head(toViewer)
     IN \/ /\ joined /\ text \in Texts \cup {"secret"}
           /\ \E taken \in BOOLEAN :
                /\ page' = Applied(text, taken)
                /\ local' = IF taken THEN text ELSE local
        \/ (~joined \/ text \notin Texts \cup {"secret"}) /\ UNCHANGED <<page, local>>
  /\ toViewer' = Tail(toViewer)
  /\ UNCHANGED <<host, toHost, joined, gestures, busy>>

CopyPending ==
  /\ page.pending # None
  /\ local' = page.pending
  /\ page' = [page EXCEPT !.pending = None]
  /\ UNCHANGED <<host, toHost, toViewer, joined, gestures, busy>>

\* The page's side ends.
Leave ==
  /\ joined
  /\ joined' = FALSE
  /\ page' = [page EXCEPT !.pending = None, !.lastFromHost = None, !.lastToHost = None]
  /\ UNCHANGED <<host, toHost, toViewer, local, gestures, busy>>

-----------------------------------------------------------------------------
\* startWorker(): the thread is up, with nothing to do, when NewSync returns.
Started == worker = Idle /\ stop = "no"

Init ==
  /\ board \in [seq : {1}, has : {None, "secret"} \cup Mine]
  /\ sync = [ownSeq |-> 0, lastSeq |-> board.seq, lastApplied |-> None]
  /\ Started /\ jobs = [handle |-> None, put |-> None]
  /\ toHost = <<>> /\ toViewer = <<>>
  /\ page = [lastFromHost |-> None, lastToHost |-> None, pending |-> None, reading |-> None]
  /\ local \in {None} \cup ViewerTexts /\ joined = TRUE /\ unread = 0
  /\ gestures = MaxGestures /\ busy = MaxBusy

Loop ==
  \/ Poll \/ AskPrivate \/ ReadFiles \/ ReadText \/ Send \/ ReadBack \/ Quit
  \/ \E who \in DOMAIN jobs : Write(who)

Next ==
  \/ OperatorCopies \/ Loop \/ Handle \/ PutFiles \/ Stop
  \/ \E who \in DOMAIN jobs : GiveUp(who)
  \/ ViewerCopies \/ Focus \/ ReadLocal \/ OnPaste \/ OnMessage \/ CopyPending \/ Leave

Spec == Init /\ [][Next]_vars

\* The worker's loop takes steps, of the ready cases of its select each in turn (a
\* Go select chooses at random), and so do the goroutines and the page.
FairSpec ==
  /\ Spec
  /\ WF_vars(Loop) /\ SF_vars(Poll) /\ SF_vars(Quit)
  /\ WF_vars(Handle) /\ WF_vars(OnMessage) /\ WF_vars(ReadLocal)
  /\ \A who \in {"handle", "put"} : SF_vars(Write(who)) /\ WF_vars(GiveUp(who))

-----------------------------------------------------------------------------
Points == {"idle", "private?", "files?", "text?", "send", "wrote"}

HostTypeOK ==
  /\ board \in [seq : Nat, has : Values]
  /\ sync \in [ownSeq : Nat, lastSeq : Nat, lastApplied : Values]
  /\ sync.ownSeq =< board.seq /\ sync.lastSeq =< board.seq
  /\ worker \in [at : Points, text : Values, for : {None, "handle", "put"}]
  /\ jobs \in [handle : Texts \cup {None}, put : {None, "pasted"}]
  /\ stop \in {"no", "asked", "over"}
  /\ toViewer \in Seq(Values)
  /\ unread \in Nat

PageTypeOK ==
  /\ page \in [lastFromHost : Values, lastToHost : Values, pending : Values, reading : Values]
  /\ local \in Values /\ joined \in BOOLEAN
  /\ toHost \in Seq(Texts)

TypeOK ==
  /\ HostTypeOK /\ PageTypeOK
  /\ gestures \in 0 .. MaxGestures /\ busy \in 0 .. MaxBusy

\* What the viewer put on the operator's clipboard is never sent back as if the
\* operator had copied it, however the writes and the polls fall and whatever
\* the system refuses (sync.go: Handle, PutFiles, poll).
NothingEchoed == \A i \in DOMAIN toViewer : toViewer[i] \notin Theirs

\* A text the operator copies and leaves there gets to the page while both stay --
\* unless the system would not let it be read, the copy fell between a write and its
\* reading back, or it equals what the viewer sent last (poll, onMessage).
CopiesReachTheViewer ==
  \A text \in HostTexts :
    (board.has = text /\ board.seq # sync.lastSeq) ~>
      \/ page.lastFromHost = text
      \/ board.has # text \/ stop # "no" \/ ~joined
      \/ unread = board.seq \/ sync.ownSeq = board.seq \/ sync.lastApplied = text

\* Nobody waits for the clipboard for ever: every do returns, in a stop as in a
\* session, and so does Stop (worker.go: do, stop).
DoReturns ==
  /\ \A who \in {"handle", "put"} : (jobs[who] # None) ~> (jobs[who] = None)
  /\ (stop = "asked") ~> (stop = "over")
=============================================================================
