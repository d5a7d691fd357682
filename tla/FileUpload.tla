------------------------------- MODULE FileUpload -------------------------------
(***************************************************************************)
(* Files from the viewer to the host: useFileTransfer.ts on one side,      *)
(* transfer/session.go and the fileApprover of session/coordinator.go on   *)
(* the other, and the ordered and reliable `file` channel between them.    *)
(*                                                                         *)
(* A batch b has Files files of Size[b] units each, sent as chunks of at   *)
(* most ChunkUnits.  job[b] is where the host's goroutine offered(b)       *)
(* stands:                                                                 *)
(*                                                                         *)
(*   none     no offer seen          asking   the question is with the     *)
(*   claim    claimPending()                  operator                     *)
(*   check    names, limits, room    begin    beginBatch()                 *)
(*   ask      AskFiles(): may the    accept   f-accept is to be sent       *)
(*            operator be asked?     release  releasePending()             *)
(*                                   over     returned                     *)
(*                                                                         *)
(* A batch the person retries is another batch.  Progress reports and the  *)
(* hand-over of a pasted batch to the clipboard change nothing here.       *)
(***************************************************************************)
EXTENDS Integers, Sequences

CONSTANTS
  Batches,        \* the batches the viewer may send
  NoBatch,
  Files,          \* files in a batch
  Size,           \* Size[b]: the declared size of each file of b
  ChunkUnits,     \* CHUNK_BYTES
  Window,         \* SEND_HIGH_WATER, in messages
  MaxFiles,       \* MaxSessionFiles
  MaxUnanswered   \* maxUnansweredPrompts

ASSUME FileUploadAssumption ==
  /\ NoBatch \notin Batches
  /\ Files \in Nat \ {0} /\ ChunkUnits \in Nat \ {0} /\ Window \in Nat \ {0}
  /\ Size \in [Batches -> Nat \ {0}]
  /\ MaxFiles \in Nat /\ MaxUnanswered \in Nat \ {0}

Indices == 1 .. Files

VARIABLES
  \* the channel
  open,        \* the channel carries messages
  up, down,    \* what is under way to the host, and to the viewer
  \* the viewer
  batch,       \* batch[b]: "new", "waiting", "sending", "over" (not in `batches`), or
               \* "stranded": over as well, but the host has not been told
  at,          \* at[b]: the next chunk, <<index, offset>>
  rows,        \* rows[b]: the rows of b in the panel, in the order they were added
  \* the host
  closed,      \* Session.closed
  pending,     \* Session.pending
  rx,          \* Session.rx: the batch, its current file, what is written of it
  finishing,   \* the read loop is between handleChunk() and finishFile()
  files,       \* Session.files
  job,         \* job[b]: see above
  unanswered,  \* fileApprover.unanswered
  quiet,       \* fileApprover.quietUntil is still to come
  \* the disk, and what is remembered of it
  part,        \* the files that exist as .part
  saved,       \* the files that exist under their final name
  agreed,      \* the batches the operator said yes to
  mixed        \* the files that were given a chunk of another file

viewerVars == <<batch, at, rows>>
channelVars == <<open, up, down>>
promptVars == <<unanswered, quiet, agreed>>
diskVars == <<rx, finishing, files, part, saved, mixed>>
vars == <<channelVars, viewerVars, closed, pending, job, promptVars, diskVars>>

Idle == [b |-> NoBatch, i |-> 1, n |-> 0]

Jobs == {"none", "claim", "check", "ask", "asking", "begin", "accept", "release", "over"}
BatchStates == {"new", "waiting", "sending", "over", "stranded"}
RowStates == {"awaiting", "sending", "done", "failed", "cancelled"}
Unfinished == {"awaiting", "sending"}

\* What is sent on the channel in each direction; n is the size of a chunk.
UpMessages == [t : {"offer", "chunk", "cancel"}, b : Batches, i : Indices, n : Nat]
DownMessages == [t : {"accept", "reject", "done", "error"}, b : Batches, i : Indices]

\* Of the panel only the batches: rows[b] is a sequence of [i, st] records.
TypeOK ==
  /\ open \in BOOLEAN
  /\ up \in Seq(UpMessages) /\ down \in Seq(DownMessages)
  /\ batch \in [Batches -> BatchStates]
  /\ at \in [Batches -> Indices \X Nat]
  /\ closed \in BOOLEAN /\ pending \in BOOLEAN
  /\ rx \in [b : Batches \cup {NoBatch}, i : Indices, n : Nat]
  /\ finishing \in BOOLEAN
  /\ files \in 0 .. MaxFiles
  /\ job \in [Batches -> Jobs]
  /\ unanswered \in 0 .. MaxUnanswered
  /\ quiet \in BOOLEAN
  /\ part \subseteq Batches \X Indices
  /\ saved \subseteq Batches \X Indices
  /\ agreed \subseteq Batches
  /\ mixed \subseteq Batches \X Indices

Init ==
  /\ open = TRUE /\ up = <<>> /\ down = <<>>
  /\ batch = [b \in Batches |-> "new"]
  /\ at = [b \in Batches |-> <<1, 0>>]
  /\ rows = [b \in Batches |-> <<>>]
  /\ closed = FALSE /\ pending = FALSE
  /\ rx = Idle /\ finishing = FALSE /\ files = 0
  /\ job = [b \in Batches |-> "none"]
  /\ unanswered = 0 /\ quiet = FALSE
  /\ part = {} /\ saved = {} /\ agreed = {} /\ mixed = {}

\* A message put into a channel that is gone is lost.
Post(msg) == up' = IF open THEN Append(up, msg) ELSE up
Send(msgs) == down' = IF open THEN down \o msgs ELSE down

ToHost(t, b) == [t |-> t, b |-> b, i |-> 1, n |-> 0]
ToViewer(t, b, i) == [t |-> t, b |-> b, i |-> i]

-----------------------------------------------------------------------------
\* The viewer.

\* Every row of b that is in one of the states `from` is now in the state `to`.
Settle(b, from, to) ==
  rows' = [rows EXCEPT ![b] =
             [k \in DOMAIN @ |-> IF @[k].st \in from THEN [@[k] EXCEPT !.st = to] ELSE @[k]]]

\* send(): the rows are listed and the offer posted.
SendBatch(b) ==
  /\ open /\ batch[b] = "new"
  /\ batch' = [batch EXCEPT ![b] = "waiting"]
  /\ rows' = [rows EXCEPT ![b] = [i \in Indices |-> [i |-> i, st |-> "awaiting"]]]
  /\ Post(ToHost("offer", b))
  /\ UNCHANGED <<open, down, at, closed, pending, job, promptVars, diskVars>>

\* sendFile(), one chunk: the size is what is left of the file, at most a chunk.
\* With the last chunk of the last file the batch is no longer watched.
SendChunk(b) ==
  LET i == at[b][1]
      n == IF Size[b] - at[b][2] < ChunkUnits THEN Size[b] - at[b][2] ELSE ChunkUnits
      whole == at[b][2] + n = Size[b]
  IN /\ open /\ batch[b] = "sending" /\ Len(up) < Window
     /\ Post([t |-> "chunk", b |-> b, i |-> i, n |-> n])
     /\ at' = [at EXCEPT ![b] = IF ~whole THEN <<i, @[2] + n>>
                                ELSE IF i < Files THEN <<i + 1, 0>> ELSE @]
     /\ batch' = [batch EXCEPT ![b] = IF whole /\ i = Files THEN "over" ELSE @]
     /\ UNCHANGED <<open, down, rows, closed, pending, job, promptVars, diskVars>>

\* The error path of sendFile(): the file cannot be read on, or send() throws.
\* runBatch() ends the rows, but posts f-cancel for a cancel and a timeout only.
SendFails(b) ==
  /\ batch[b] = "sending"
  /\ batch' = [batch EXCEPT ![b] = "stranded"]
  /\ Settle(b, Unfinished, "failed")
  /\ UNCHANGED <<channelVars, at, closed, pending, job, promptVars, diskVars>>

\* A fault: cancel() stops the batch here only.
CancelHere(b) ==
  /\ \E k \in DOMAIN rows[b] : rows[b][k].st \in Unfinished
  /\ batch' = [batch EXCEPT ![b] = "over"]
  /\ Settle(b, Unfinished, "cancelled")
  /\ UNCHANGED <<channelVars, at, closed, pending, job, promptVars, diskVars>>

\* cancel(): the batch may have been sent already.  (A batch that is still in
\* hand posts its f-cancel twice, once here and once from runBatch().)
Cancel(b) ==
  /\ \E k \in DOMAIN rows[b] : rows[b][k].st \in Unfinished
  /\ batch' = [batch EXCEPT ![b] = "over"]
  /\ Settle(b, Unfinished, "cancelled")
  /\ Post(ToHost("cancel", b))
  /\ UNCHANGED <<open, down, at, closed, pending, job, promptVars, diskVars>>

\* TRANSFER_APPROVAL_TIMEOUT_MS: the host's question may have had to wait for
\* its turn on the operator's screen, so this can come before the answer.
TimesOut(b) ==
  /\ batch[b] = "waiting"
  /\ batch' = [batch EXCEPT ![b] = "over"]
  /\ Settle(b, Unfinished, "failed")
  /\ Post(ToHost("cancel", b))
  /\ UNCHANGED <<open, down, at, closed, pending, job, promptVars, diskVars>>

\* clearFinished(), at any time: other rows of the batch may still be waiting.
ClearFinished(b) ==
  /\ \E k \in DOMAIN rows[b] : rows[b][k].st \notin Unfinished
  /\ rows' = [rows EXCEPT ![b] = SelectSeq(@, LAMBDA row : row.st \in Unfinished)]
  /\ UNCHANGED <<channelVars, batch, at, closed, pending, job, promptVars, diskVars>>

\* f-done: the row is looked up by its place among the rows of its batch.
RowDone(b, i, st) ==
  rows' = IF i \in DOMAIN rows[b] THEN [rows EXCEPT ![b][i].st = st] ELSE rows

\* A fault: an f-error that comes when everything has been sent is missed.
ErrorWhileWatched(b) ==
  IF batch[b] \in {"waiting", "sending"}
  THEN /\ batch' = [batch EXCEPT ![b] = "over"]
       /\ Settle(b, Unfinished, "failed")
       /\ Post(ToHost("cancel", b))
  ELSE UNCHANGED <<batch, rows, up>>

\* f-error: the batch is aborted, and runBatch() says so to the host if it was
\* still going on.
OnError(b) ==
  /\ batch' = [batch EXCEPT ![b] = "over"]
  /\ Settle(b, Unfinished, "failed")
  /\ IF batch[b] \in {"waiting", "sending"} THEN Post(ToHost("cancel", b)) ELSE UNCHANGED up

\* onMessage(); an answer to a batch that is no longer waited for is ignored.
ViewerReceives ==
  /\ down # <<>>
  /\ down' = Tail(down)
  /\ LET m == Head(down) IN
       \/ /\ m.t = "accept"
          /\ IF batch[m.b] = "waiting"
             THEN /\ batch' = [batch EXCEPT ![m.b] = "sending"]
                  /\ Settle(m.b, RowStates, "sending")
             ELSE UNCHANGED <<batch, rows>>
          /\ UNCHANGED up
       \/ /\ m.t = "reject"
          /\ IF batch[m.b] = "waiting"
             THEN /\ batch' = [batch EXCEPT ![m.b] = "over"]
                  /\ Settle(m.b, Unfinished, "failed")
             ELSE UNCHANGED <<batch, rows>>
          /\ UNCHANGED up
       \/ m.t = "done" /\ RowDone(m.b, m.i, "done") /\ UNCHANGED <<batch, up>>
       \/ m.t = "error" /\ OnError(m.b)
  /\ UNCHANGED <<open, at, closed, pending, job, promptVars, diskVars>>

\* abortAll(): the channel is not ready any more.
ViewerLoses ==
  /\ ~open /\ \E b \in Batches : batch[b] # "over"
  /\ batch' = [b \in Batches |-> "over"]
  /\ rows' = [b \in Batches |->
                [k \in DOMAIN rows[b] |->
                   IF rows[b][k].st \in Unfinished /\ batch[b] # "over"
                   THEN [rows[b][k] EXCEPT !.st = "failed"] ELSE rows[b][k]]]
  /\ UNCHANGED <<channelVars, at, closed, pending, job, promptVars, diskVars>>

-----------------------------------------------------------------------------
\* The host: an offer and its question, on a goroutine of its own.

Goes(b, from, to) ==
  /\ job[b] = from
  /\ job' = [job EXCEPT ![b] = to]

\* A fault: an offer is not refused while another is being decided.
ClaimPendingBesides(b) ==
  LET busy == closed \/ rx.b # NoBatch IN
  /\ Goes(b, "claim", IF busy THEN "over" ELSE "check")
  /\ pending' = (pending \/ ~busy)
  /\ Send(IF busy THEN <<ToViewer("reject", b, 1)>> ELSE <<>>)
  /\ UNCHANGED <<open, up, viewerVars, closed, promptVars, diskVars>>

\* claimPending(): one batch at a time is decided or written.
ClaimPending(b) ==
  LET busy == closed \/ pending \/ rx.b # NoBatch IN
  /\ Goes(b, "claim", IF busy THEN "over" ELSE "check")
  /\ pending' = (pending \/ ~busy)
  /\ Send(IF busy THEN <<ToViewer("reject", b, 1)>> ELSE <<>>)
  /\ UNCHANGED <<open, up, viewerVars, closed, promptVars, diskVars>>

WithinLimits(b) == files + Files =< MaxFiles

\* Refused without a question: an unusable name, the session's limits, no room.
CheckOffer(b) ==
  /\ \/ WithinLimits(b) /\ Goes(b, "check", "ask") /\ UNCHANGED down
     \/ Goes(b, "check", "release") /\ Send(<<ToViewer("reject", b, 1)>>)
  /\ UNCHANGED <<open, up, viewerVars, closed, pending, promptVars, diskVars>>

\* AskFiles(), before the question: refused as if the operator had said no.
MayAsk(b) ==
  /\ IF unanswered >= MaxUnanswered \/ quiet
     THEN Goes(b, "ask", "release") /\ Send(<<ToViewer("reject", b, 1)>>)
     ELSE Goes(b, "ask", "asking") /\ UNCHANGED down
  /\ UNCHANGED <<open, up, viewerVars, closed, pending, promptVars, diskVars>>

\* The operator's answer, that of a question nobody answered, or "no" when
\* Close() has ended the context.
Answered(b, answer) ==
  /\ Goes(b, "asking", IF answer = "yes" THEN "begin" ELSE "release")
  /\ unanswered' = IF answer = "unanswered" THEN unanswered + 1 ELSE 0
  /\ quiet' = (answer # "yes")
  /\ agreed' = IF answer = "yes" THEN agreed \cup {b} ELSE agreed
  /\ Send(IF answer = "yes" THEN <<>> ELSE <<ToViewer("reject", b, 1)>>)
  /\ UNCHANGED <<open, up, viewerVars, closed, pending, diskVars>>

\* The backoff has passed.
QuietPasses ==
  /\ quiet
  /\ quiet' = FALSE
  /\ UNCHANGED <<channelVars, viewerVars, closed, pending, job, unanswered, agreed,
                 diskVars>>

\* A fault: a yes that comes after Close() still opens a file.
BeginBatchAnyway(b) ==
  /\ rx.b = NoBatch
  /\ Goes(b, "begin", "accept")
  /\ rx' = [b |-> b, i |-> 1, n |-> 0]
  /\ part' = part \cup {<<b, 1>>}
  /\ UNCHANGED <<channelVars, viewerVars, closed, pending, promptVars, finishing, files,
                 saved, mixed>>

\* beginBatch(): the first file is opened.
BeginBatch(b) ==
  /\ ~closed /\ rx.b = NoBatch
  /\ Goes(b, "begin", "accept")
  /\ rx' = [b |-> b, i |-> 1, n |-> 0]
  /\ part' = part \cup {<<b, 1>>}
  /\ UNCHANGED <<channelVars, viewerVars, closed, pending, promptVars, finishing, files,
                 saved, mixed>>

\* takeFailure(): a file that cannot be created left the frame that says so.
Failure(b) == ToViewer(IF closed \/ rx.b # NoBatch THEN "reject" ELSE "error", b, 1)

\* The session is closed, another batch has come in between, or there is no file.
BeginFails(b) ==
  /\ Goes(b, "begin", "release")
  /\ Send(<<Failure(b)>>)
  /\ UNCHANGED <<open, up, viewerVars, closed, pending, promptVars, diskVars>>

SendAccept(b) ==
  /\ Goes(b, "accept", "release")
  /\ Send(<<ToViewer("accept", b, 1)>>)
  /\ UNCHANGED <<open, up, viewerVars, closed, pending, promptVars, diskVars>>

ReleasePending(b) ==
  /\ Goes(b, "release", "over")
  /\ pending' = FALSE
  /\ UNCHANGED <<channelVars, viewerVars, closed, promptVars, diskVars>>

-----------------------------------------------------------------------------
\* The host: the read loop of the channel, one message at a time.

Current == <<rx.b, rx.i>>

\* abortLocked(): nothing is kept of the current file.
Discard ==
  /\ rx' = Idle
  /\ part' = part \ {Current}

\* An offer is decided on a goroutine of its own.
ReceiveOffer(m) ==
  /\ m.t = "offer"
  /\ Goes(m.b, "none", "claim")
  /\ UNCHANGED <<down, diskVars>>

\* f-cancel, from cancel() or from the end of runBatch().
ReceiveCancel(m) ==
  /\ m.t = "cancel"
  /\ IF rx.b = m.b THEN Discard ELSE UNCHANGED <<rx, part>>
  /\ UNCHANGED <<down, job, finishing, files, saved, mixed>>

\* handleChunk(): dropped with nothing open; too much ends the batch, and so
\* does a failing write.  The chunk of another file is not told apart.
ReceiveChunk(m) ==
  /\ m.t = "chunk"
  /\ \/ /\ rx.b = NoBatch
        /\ UNCHANGED <<down, diskVars>>
     \/ /\ rx.b # NoBatch
        /\ Discard
        /\ Send(<<ToViewer("error", rx.b, 1)>>)
        /\ UNCHANGED <<finishing, files, saved, mixed>>
     \/ /\ rx.b # NoBatch /\ rx.n + m.n =< Size[rx.b]
        /\ rx' = [rx EXCEPT !.n = @ + m.n]
        /\ finishing' = (rx.n + m.n = Size[rx.b])
        /\ mixed' = IF Current # <<m.b, m.i>> THEN mixed \cup {Current} ELSE mixed
        /\ UNCHANGED <<down, files, part, saved>>
  /\ UNCHANGED job

HostReceives ==
  /\ up # <<>> /\ ~finishing
  /\ up' = Tail(up)
  /\ LET m == Head(up) IN ReceiveOffer(m) \/ ReceiveCancel(m) \/ ReceiveChunk(m)
  /\ UNCHANGED <<open, viewerVars, closed, pending, promptVars>>

\* finishFile(): Close() may have come first.  The file gets its name, or the
\* batch ends; the next file is opened, or cannot be.
FinishFile ==
  /\ finishing
  /\ finishing' = FALSE
  /\ \/ /\ rx.b = NoBatch
        /\ UNCHANGED <<down, rx, files, part, saved>>
     \/ /\ rx.b # NoBatch
        /\ Discard
        /\ Send(<<ToViewer("error", rx.b, 1)>>)
        /\ UNCHANGED <<files, saved>>
     \/ /\ rx.b # NoBatch
        /\ saved' = saved \cup {Current}
        /\ files' = files + 1
        /\ \/ /\ rx.i = Files
              /\ rx' = Idle
              /\ part' = part \ {Current}
              /\ Send(<<ToViewer("done", rx.b, rx.i)>>)
           \/ /\ rx.i < Files
              /\ rx' = [rx EXCEPT !.i = @ + 1, !.n = 0]
              /\ part' = (part \ {Current}) \cup {<<rx.b, rx.i + 1>>}
              /\ Send(<<ToViewer("done", rx.b, rx.i)>>)
           \/ /\ rx.i < Files
              /\ rx' = Idle
              /\ part' = part \ {Current}
              /\ Send(<<ToViewer("done", rx.b, rx.i), ToViewer("error", rx.b, 1)>>)
  /\ UNCHANGED <<open, up, viewerVars, closed, pending, job, promptVars, mixed>>

-----------------------------------------------------------------------------
\* The end of the session.

\* Close(): what is half written goes, and so does the question.
Close ==
  /\ ~closed
  /\ closed' = TRUE
  /\ Discard
  /\ UNCHANGED <<channelVars, viewerVars, pending, job, promptVars, finishing, files,
                 saved, mixed>>

\* The channel is gone, with everything that was under way.
ChannelBreaks ==
  /\ open
  /\ open' = FALSE
  /\ up' = <<>> /\ down' = <<>>
  /\ UNCHANGED <<viewerVars, closed, pending, job, promptVars, diskVars>>

ViewerNext ==
  \/ \E b \in Batches : SendBatch(b) \/ SendChunk(b) \/ SendFails(b) \/ Cancel(b)
                        \/ TimesOut(b) \/ ClearFinished(b)
  \/ ViewerReceives \/ ViewerLoses

JobNext(b) ==
  \/ ClaimPending(b) \/ CheckOffer(b) \/ MayAsk(b)
  \/ (\E answer \in {"yes", "no", "unanswered"} : Answered(b, answer))
  \/ BeginBatch(b) \/ BeginFails(b) \/ SendAccept(b) \/ ReleasePending(b)

Next ==
  \/ ViewerNext
  \/ \E b \in Batches : JobNext(b)
  \/ QuietPasses \/ HostReceives \/ FinishFile \/ Close \/ ChannelBreaks

Spec == Init /\ [][Next]_vars

(***************************************************************************)
(* Messages arrive, goroutines go on, a question times out, what may be    *)
(* sent is sent, a session that is over takes its channel along, and a     *)
(* channel that is gone its session's transfers (OnClose).                 *)
(***************************************************************************)
Fairness ==
  /\ WF_vars(ViewerReceives) /\ WF_vars(ViewerLoses)
  /\ WF_vars(HostReceives) /\ WF_vars(FinishFile)
  /\ \A b \in Batches :
       WF_vars(SendChunk(b)) /\ WF_vars(TimesOut(b)) /\ WF_vars(JobNext(b))
  /\ WF_vars(closed /\ ChannelBreaks) /\ WF_vars(~open /\ Close)

FairSpec == Spec /\ Fairness

-----------------------------------------------------------------------------

\* PROTOCOL.md 4: nothing survives the session, and nothing half written is
\* left by any of the ways in which a batch ends.
PartialIsCurrent ==
  /\ part = IF rx.b = NoBatch THEN {} ELSE {Current}
  /\ closed => part = {}

\* Nothing is written of a batch the operator did not agree to.
OnlyAgreed == \A f \in part \cup saved : f[1] \in agreed

\* The limits of a session hold over all its batches, although they are looked
\* at long before a batch is written.
WithinSessionLimits ==
  files + (IF rx.b = NoBatch THEN 0 ELSE Files - rx.i + 1) =< MaxFiles

\* The operator is left alone after a refusal: however the offers come in, no
\* question is up during the quiet period or after too many unanswered ones.
QuietIsKept ==
  \A b \in Batches : job[b] = "asking" => ~quiet /\ unanswered < MaxUnanswered

\* What the operator agreed to is what is done, however the offers come in and
\* whatever lies between a check and its use.
AgreementIsKept == OnlyAgreed /\ WithinSessionLimits /\ QuietIsKept

\* Finished rows of b were cleared while others wait: from here on f-done finds
\* the wrong row, or none.
Shifted(b) == Len(rows[b]) \in 1 .. Files - 1

\* While the channel lives, no row is left waiting: each ends as done, failed
\* or cancelled, unless a chunk went astray or the rows were shifted.
Waits(b, i) == \E k \in DOMAIN rows[b] : rows[b][k].i = i /\ rows[b][k].st \in Unfinished

RowsSettle ==
  \A b \in Batches : \A i \in Indices :
    Waits(b, i) ~> (~Waits(b, i) \/ ~open \/ mixed # {} \/ Shifted(b))

\* A batch the viewer has begun to stream gives the inbound slot back, whatever
\* ends it (the last chunk, a cancel, an error on either side, the end of the
\* session), so that the next offer is not refused as busy for ever.  The one
\* exception is a batch stranded by SendFails: the host waits for its chunks, and
\* keeps the slot for it as long as the session lives.
SlotComesBack ==
  \A b \in Batches : batch[b] = "sending" ~> (rx.b # b \/ batch[b] = "stranded")
=============================================================================
