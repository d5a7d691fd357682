---------------------------- MODULE FileUploadProofs ----------------------------
(***************************************************************************)
(* Safety of the host's side of FileUpload, for any number of batches and  *)
(* files, of any sizes, and any limits.                                    *)
(*                                                                         *)
(* Two checks of offered() are made long before they are relied upon: the  *)
(* session's limits before the question, the quiet period before the       *)
(* prompt.  What makes them good is that one batch at a time is past       *)
(* claimPending() and before releasePending(), and that nothing is written *)
(* while it is being decided.                                              *)
(***************************************************************************)
EXTENDS FileUpload, TLAPS

\* The types of the channel and of what the viewer is to send next.
ChannelOK ==
  /\ up \in Seq(UpMessages) /\ down \in Seq(DownMessages)
  /\ at \in [Batches -> Indices \X Nat]
  /\ \A b \in Batches : at[b][2] < Size[b]

\* The types of what the host holds.
HostOK ==
  /\ closed \in BOOLEAN /\ pending \in BOOLEAN /\ quiet \in BOOLEAN
  /\ rx \in [b : Batches \cup {NoBatch}, i : Indices, n : Nat]
  /\ files \in Nat
  /\ job \in [Batches -> Jobs]
  /\ unanswered \in 0 .. MaxUnanswered

\* Between claimPending() and the opening of the first file, and up to
\* releasePending().
Undecided(b) == job[b] \in {"check", "ask", "asking", "begin"}
Claimed(b) == Undecided(b) \/ job[b] \in {"accept", "release"}

OneClaim ==
  /\ \A b \in Batches : Claimed(b) => pending /\ rx.b \in {NoBatch, b}
  /\ \A b \in Batches : Undecided(b) => rx.b = NoBatch
  /\ \A b, c \in Batches : Claimed(b) /\ Claimed(c) => b = c

\* What was checked is still so.
LimitsKept ==
  /\ \A b \in Batches : job[b] \in {"ask", "asking", "begin"} => WithinLimits(b)
  /\ WithinSessionLimits

\* What is written, or about to be, has a yes.
Agreed ==
  /\ \A b \in Batches : job[b] \in {"begin", "accept"} => b \in agreed
  /\ rx.b # NoBatch => rx.b \in agreed
  /\ OnlyAgreed

\* Close() leaves no batch, and beginBatch() starts none afterwards.
DiskInv ==
  /\ part = IF rx.b = NoBatch THEN {} ELSE {Current}
  /\ closed => rx.b = NoBatch

UploadInv ==
  HostOK /\ OneClaim /\ LimitsKept /\ QuietIsKept /\ Agreed /\ DiskInv

LEMMA InitUpload == Init => ChannelOK /\ UploadInv
<1> SUFFICES ASSUME Init PROVE ChannelOK /\ UploadInv
  OBVIOUS
<1> USE FileUploadAssumption DEF Init, Idle
<1>1. ChannelOK
  <2>1. at \in [Batches -> Indices \X Nat]
    BY DEF Indices
  <2>2. up \in Seq(UpMessages) /\ down \in Seq(DownMessages)
    OBVIOUS
  <2>3. ASSUME NEW b \in Batches PROVE at[b][2] < Size[b]
    <3>1. Size[b] \in Nat \ {0} /\ at[b] = <<1, 0>>
      OBVIOUS
    <3>2. QED
      BY <3>1
  <2>4. QED
    BY <2>1, <2>2, <2>3 DEF ChannelOK
<1>2. HostOK
  <2>1. rx \in [b : Batches \cup {NoBatch}, i : Indices, n : Nat]
    BY DEF Indices
  <2>2. unanswered \in 0 .. MaxUnanswered /\ files \in Nat /\ job \in [Batches -> Jobs]
    BY DEF Jobs
  <2>3. QED
    BY <2>1, <2>2 DEF HostOK
<1>3. OneClaim /\ QuietIsKept
  BY DEF OneClaim, Claimed, Undecided, QuietIsKept
<1>4. LimitsKept
  BY DEF LimitsKept, WithinSessionLimits
<1>5. Agreed /\ DiskInv
  BY DEF Agreed, OnlyAgreed, DiskInv
<1>6. QED
  BY <1>1, <1>2, <1>3, <1>4, <1>5 DEF UploadInv

-----------------------------------------------------------------------------
\* The channel: whatever is put on it is a message of its direction.

LEMMA PostShape ==
  ASSUME ChannelOK, NEW msg \in UpMessages, Post(msg)
  PROVE  up' \in Seq(UpMessages)
  BY DEF ChannelOK, Post

LEMMA ToHostShape ==
  ASSUME NEW t \in {"offer", "cancel"}, NEW b \in Batches
  PROVE  ToHost(t, b) \in UpMessages
  BY FileUploadAssumption DEF ToHost, UpMessages, Indices

LEMMA ToViewerShape ==
  ASSUME NEW t \in {"accept", "reject", "done", "error"}, NEW b \in Batches, NEW i \in Indices
  PROVE  ToViewer(t, b, i) \in DownMessages
  BY DEF ToViewer, DownMessages

LEMMA SendNothing ==
  ASSUME ChannelOK, Send(<<>>)
  PROVE  down' \in Seq(DownMessages)
  BY DEF ChannelOK, Send

LEMMA SendOne ==
  ASSUME ChannelOK, NEW msg \in DownMessages, Send(<<msg>>)
  PROVE  down' \in Seq(DownMessages)
  BY DEF ChannelOK, Send

LEMMA SendTwo ==
  ASSUME ChannelOK, NEW msg \in DownMessages, NEW and \in DownMessages, Send(<<msg, and>>)
  PROVE  down' \in Seq(DownMessages)
  BY DEF ChannelOK, Send

\* A chunk is what is left of a file, and at most ChunkUnits.
LEMMA ChunkShape ==
  ASSUME ChannelOK, NEW b \in Batches, SendChunk(b)
  PROVE  ChannelOK'
<1> DEFINE i == at[b][1]
           n == IF Size[b] - at[b][2] < ChunkUnits THEN Size[b] - at[b][2] ELSE ChunkUnits
           whole == at[b][2] + n = Size[b]
<1> USE FileUploadAssumption
<1>1. i \in Indices /\ at[b][2] \in Nat /\ Size[b] \in Nat /\ at[b][2] < Size[b]
  BY DEF ChannelOK
<1>2. n \in Nat /\ n > 0 /\ at[b][2] + n =< Size[b]
  BY <1>1
<1>3. [t |-> "chunk", b |-> b, i |-> i, n |-> n] \in UpMessages
  BY <1>1, <1>2 DEF UpMessages
<1>4. Post([t |-> "chunk", b |-> b, i |-> i, n |-> n]) /\ down' = down
  BY DEF SendChunk
<1>5. at' = [at EXCEPT ![b] = IF ~whole THEN <<i, @[2] + n>>
                              ELSE IF i < Files THEN <<i + 1, 0>> ELSE @]
  BY DEF SendChunk
<1> HIDE DEF n
<1>6. at' \in [Batches -> Indices \X Nat] /\ \A c \in Batches : at'[c][2] < Size[c]
  <2>1. CASE ~whole
    <3>1. at' = [at EXCEPT ![b] = <<i, at[b][2] + n>>]
      BY <1>5, <2>1 DEF ChannelOK
    <3>2. QED
      BY <1>1, <1>2, <2>1, <3>1 DEF ChannelOK
  <2>2. CASE whole /\ i < Files
    <3>1. at' = [at EXCEPT ![b] = <<i + 1, 0>>]
      BY <1>5, <2>2 DEF ChannelOK
    <3>2. i + 1 \in Indices
      BY <1>1, <2>2 DEF Indices
    <3>3. QED
      BY <1>1, <3>1, <3>2 DEF ChannelOK
  <2>3. CASE whole /\ ~(i < Files)
    BY <1>5, <2>3 DEF ChannelOK
  <2>4. QED
    BY <2>1, <2>2, <2>3
<1>7. QED
  BY <1>3, <1>4, <1>6, PostShape DEF ChannelOK

LEMMA ChannelStep == ChannelOK /\ HostOK /\ [Next]_vars => ChannelOK'
<1> SUFFICES ASSUME ChannelOK, HostOK, [Next]_vars PROVE ChannelOK'
  OBVIOUS
<1> USE DEF diskVars, promptVars, viewerVars, channelVars
<1>1. ASSUME NEW b \in Batches, SendBatch(b) \/ Cancel(b) \/ TimesOut(b) PROVE ChannelOK'
  <2>1. \E t \in {"offer", "cancel"} : Post(ToHost(t, b))
    BY <1>1 DEF SendBatch, Cancel, TimesOut
  <2>2. up' \in Seq(UpMessages)
    BY <2>1, PostShape, ToHostShape
  <2>3. UNCHANGED <<down, at>>
    BY <1>1 DEF SendBatch, Cancel, TimesOut
  <2>4. QED
    BY <2>2, <2>3 DEF ChannelOK
<1>2. ASSUME NEW b \in Batches, SendChunk(b) PROVE ChannelOK'
  BY <1>2, ChunkShape
<1>3. CASE ViewerReceives
  <2>1. Head(down) \in DownMessages /\ down' \in Seq(DownMessages)
    BY <1>3 DEF ViewerReceives, ChannelOK
  <2>2. Head(down).b \in Batches
    BY <2>1 DEF DownMessages
  <2>3. UNCHANGED up \/ Post(ToHost("cancel", Head(down).b))
    BY <1>3 DEF ViewerReceives, OnError
  <2>4. up' \in Seq(UpMessages)
    BY <2>2, <2>3, PostShape, ToHostShape DEF ChannelOK
  <2>5. QED
    BY <1>3, <2>1, <2>4 DEF ViewerReceives, ChannelOK
<1>4. ASSUME NEW b \in Batches, JobNext(b) PROVE ChannelOK'
  <2>1. UNCHANGED down \/ Send(<<>>)
        \/ \E t \in {"accept", "reject", "done", "error"} : Send(<<ToViewer(t, b, 1)>>)
    BY <1>4 DEF JobNext, ClaimPending, CheckOffer, MayAsk, Answered, BeginBatch, BeginFails,
                Failure, SendAccept, ReleasePending
  <2>2. down' \in Seq(DownMessages)
    BY <2>1, SendNothing, SendOne, ToViewerShape, FileUploadAssumption DEF ChannelOK, Indices
  <2>3. UNCHANGED <<up, at>>
    BY <1>4 DEF JobNext, ClaimPending, CheckOffer, MayAsk, Answered, BeginBatch, BeginFails,
                Failure, SendAccept, ReleasePending
  <2>4. QED
    BY <2>2, <2>3 DEF ChannelOK
<1>5. CASE HostReceives
  <2>1. UNCHANGED down \/ (rx.b # NoBatch /\ Send(<<ToViewer("error", rx.b, 1)>>))
    BY <1>5 DEF HostReceives, ReceiveOffer, ReceiveCancel, ReceiveChunk
  <2>2. down' \in Seq(DownMessages)
    BY <2>1, SendOne, ToViewerShape, FileUploadAssumption DEF ChannelOK, HostOK, Indices
  <2>3. up' \in Seq(UpMessages) /\ UNCHANGED at
    BY <1>5 DEF HostReceives, ChannelOK
  <2>4. QED
    BY <2>2, <2>3 DEF ChannelOK
<1>6. CASE FinishFile
  <2>1. \/ UNCHANGED down
        \/ /\ rx.b # NoBatch
           /\ \/ Send(<<ToViewer("error", rx.b, 1)>>)
              \/ Send(<<ToViewer("done", rx.b, rx.i)>>)
              \/ Send(<<ToViewer("done", rx.b, rx.i), ToViewer("error", rx.b, 1)>>)
    BY <1>6 DEF FinishFile
  <2>2. rx.b # NoBatch => /\ ToViewer("error", rx.b, 1) \in DownMessages
                          /\ ToViewer("done", rx.b, rx.i) \in DownMessages
    BY ToViewerShape, FileUploadAssumption DEF HostOK, Indices
  <2>3. down' \in Seq(DownMessages)
    BY <2>1, <2>2, SendOne, SendTwo DEF ChannelOK
  <2>4. QED
    BY <1>6, <2>3 DEF FinishFile, ChannelOK
<1>7. CASE ChannelBreaks
  BY <1>7 DEF ChannelBreaks, ChannelOK
<1>8. CASE (\E b \in Batches : SendFails(b) \/ ClearFinished(b)) \/ ViewerLoses
           \/ QuietPasses \/ Close \/ UNCHANGED vars
  <2>1. UNCHANGED <<up, down, at>>
    BY <1>8 DEF SendFails, ClearFinished, ViewerLoses, QuietPasses, Close, vars
  <2>2. QED
    BY <2>1 DEF ChannelOK
<1>9. QED
  BY <1>1, <1>2, <1>3, <1>4, <1>5, <1>6, <1>7, <1>8 DEF Next, ViewerNext

-----------------------------------------------------------------------------
\* The host.

hostVars == <<closed, pending, rx, files, job, unanswered, quiet, agreed, part, saved>>

\* What the viewer and the network do reaches the host through the channel only.
LEMMA HostUntouched ==
  ASSUME UploadInv, UNCHANGED hostVars
  PROVE  UploadInv'
<1> USE DEF UploadInv, hostVars
<1>1. HostOK'
  BY DEF HostOK
<1>2. OneClaim' /\ QuietIsKept'
  BY DEF OneClaim, Claimed, Undecided, QuietIsKept
<1>3. LimitsKept'
  BY DEF LimitsKept, WithinLimits, WithinSessionLimits
<1>4. Agreed' /\ DiskInv'
  BY DEF Agreed, OnlyAgreed, DiskInv, Current
<1>5. QED
  BY <1>1, <1>2, <1>3, <1>4

\* claimPending() lets a batch in when no other is decided or written.
LEMMA ClaimKeeps ==
  ASSUME UploadInv, NEW b \in Batches, ClaimPending(b)
  PROVE  UploadInv'
<1> USE DEF UploadInv, HostOK, ClaimPending, Goes, Jobs, promptVars, diskVars
<1>1. job[b] = "claim" /\ job' = [job EXCEPT ![b] = job'[b]] /\ job'[b] \in {"over", "check"}
  OBVIOUS
<1>2. OneClaim'
  BY <1>1 DEF OneClaim, Claimed, Undecided
<1>3. LimitsKept' /\ QuietIsKept'
  BY <1>1 DEF LimitsKept, WithinLimits, WithinSessionLimits, QuietIsKept
<1>4. Agreed' /\ DiskInv'
  BY <1>1 DEF Agreed, OnlyAgreed, DiskInv, Current
<1>5. QED
  BY <1>1, <1>2, <1>3, <1>4

\* The limits are looked at, then the quiet period, then the operator answers.
LEMMA QuestionKeeps ==
  ASSUME UploadInv, NEW b \in Batches,
         CheckOffer(b) \/ MayAsk(b) \/ \E answer \in {"yes", "no", "unanswered"} : Answered(b, answer)
  PROVE  UploadInv'
<1> USE FileUploadAssumption
    DEF UploadInv, HostOK, CheckOffer, MayAsk, Answered, Goes, Jobs, promptVars, diskVars
<1>1. /\ job[b] \in {"check", "ask", "asking"}
      /\ job' = [job EXCEPT ![b] = job'[b]]
      /\ job'[b] \in {"ask", "asking", "begin", "release"}
      /\ UNCHANGED <<closed, pending, rx, files, part, saved>>
  OBVIOUS
<1>2. HostOK'
  <2>1. job[b] = "asking" => unanswered < MaxUnanswered
    BY DEF QuietIsKept
  <2>2. unanswered' \in 0 .. MaxUnanswered
    BY <2>1
  <2>3. QED
    BY <1>1, <2>2
<1>3. OneClaim'
  BY <1>1 DEF OneClaim, Claimed, Undecided
<1>4. LimitsKept'
  BY <1>1 DEF LimitsKept, WithinLimits, WithinSessionLimits
<1>5. QuietIsKept'
  BY <1>1 DEF QuietIsKept, OneClaim, Claimed, Undecided
<1>6. Agreed' /\ DiskInv'
  BY <1>1 DEF Agreed, OnlyAgreed, DiskInv, Current
<1>7. QED
  BY <1>2, <1>3, <1>4, <1>5, <1>6

\* The yes is acted upon: what was checked is still so, as no other batch was let in.
LEMMA BeginKeeps ==
  ASSUME UploadInv, NEW b \in Batches, BeginBatch(b)
  PROVE  UploadInv'
<1> USE FileUploadAssumption DEF UploadInv, HostOK, BeginBatch, Goes, Jobs, promptVars
<1>1. /\ job[b] = "begin" /\ job' = [job EXCEPT ![b] = "accept"]
      /\ rx' = [b |-> b, i |-> 1, n |-> 0] /\ part' = part \cup {<<b, 1>>}
      /\ UNCHANGED <<closed, pending, files, saved, agreed, unanswered, quiet>>
  OBVIOUS
<1>2. HostOK'
  BY <1>1 DEF Indices
<1>3. OneClaim'
  BY <1>1 DEF OneClaim, Claimed, Undecided
<1>4. LimitsKept'
  BY <1>1 DEF LimitsKept, WithinLimits, WithinSessionLimits, OneClaim, Claimed, Undecided
<1>5. QuietIsKept'
  BY <1>1 DEF QuietIsKept
<1>6. Agreed' /\ DiskInv'
  BY <1>1 DEF Agreed, OnlyAgreed, DiskInv, Current
<1>7. QED
  BY <1>2, <1>3, <1>4, <1>5, <1>6

\* The answer is sent and the claim given back.
LEMMA ReleaseKeeps ==
  ASSUME UploadInv, NEW b \in Batches, BeginFails(b) \/ SendAccept(b) \/ ReleasePending(b)
  PROVE  UploadInv'
<1>1. /\ job[b] \in {"begin", "accept", "release"}
      /\ job' = [job EXCEPT ![b] = job'[b]]
      /\ job'[b] = "release" \/ (job[b] = "release" /\ job'[b] = "over")
      /\ pending' \in BOOLEAN /\ (job'[b] = "release" => pending' = pending)
      /\ UNCHANGED <<closed, rx, files, part, saved, agreed, unanswered, quiet>>
  BY DEF UploadInv, HostOK, BeginFails, Failure, SendAccept, ReleasePending, Goes, Jobs,
         promptVars, diskVars
<1> USE <1>1 DEF UploadInv, HostOK, Jobs
<1>2. HostOK'
  OBVIOUS
<1>3. OneClaim'
  <2>1. CASE job'[b] = "over"
    <3>1. \A c \in Batches : ~Claimed(c)'
      BY <2>1 DEF OneClaim, Claimed, Undecided
    <3>2. QED
      BY <3>1 DEF OneClaim, Claimed
  <2>2. CASE job'[b] = "release"
    BY <2>2 DEF OneClaim, Claimed, Undecided
  <2>3. QED
    BY <2>1, <2>2
<1>4. LimitsKept' /\ QuietIsKept'
  BY DEF LimitsKept, WithinLimits, WithinSessionLimits, QuietIsKept
<1>5. Agreed' /\ DiskInv'
  BY DEF Agreed, OnlyAgreed, DiskInv, Current
<1>6. QED
  BY <1>2, <1>3, <1>4, <1>5

\* Giving the current batch up leaves nothing of it.
LEMMA DiscardKeeps ==
  ASSUME UploadInv, Discard, closed' \in BOOLEAN,
         UNCHANGED <<pending, files, job, unanswered, quiet, agreed, saved>>
  PROVE  UploadInv'
<1> USE FileUploadAssumption DEF UploadInv, Discard, Idle
<1>1. HostOK'
  BY DEF HostOK, Indices
<1>2. OneClaim' /\ QuietIsKept'
  BY DEF OneClaim, Claimed, Undecided, QuietIsKept
<1>3. files' =< MaxFiles
  BY DEF LimitsKept, WithinSessionLimits, HostOK, Indices
<1>4. LimitsKept'
  <2>1. WithinSessionLimits'
    BY <1>3 DEF WithinSessionLimits, HostOK
  <2>2. QED
    BY <2>1 DEF LimitsKept, WithinLimits
<1>5. Agreed' /\ DiskInv'
  BY DEF Agreed, OnlyAgreed, DiskInv
<1>6. QED
  BY <1>1, <1>2, <1>4, <1>5

\* The read loop: an offer becomes a goroutine, a chunk moves the current file on.
LEMMA ReceiveKeeps ==
  ASSUME ChannelOK, UploadInv, HostReceives
  PROVE  UploadInv'
<1> DEFINE m == Head(up)
<1>1. m \in UpMessages
  BY DEF HostReceives, ChannelOK
<1>2. UNCHANGED <<closed, pending, unanswered, quiet, agreed>>
  BY DEF HostReceives, promptVars
<1>3. CASE ReceiveOffer(m)
  <2> USE <1>1, <1>2, <1>3
      DEF UploadInv, HostOK, ReceiveOffer, Goes, Jobs, diskVars
  <2>1. /\ m.b \in Batches /\ job[m.b] = "none" /\ job' = [job EXCEPT ![m.b] = "claim"]
        /\ UNCHANGED <<rx, files, part, saved>>
    BY DEF UpMessages
  <2>2. HostOK' /\ OneClaim'
    BY <2>1 DEF OneClaim, Claimed, Undecided
  <2>3. LimitsKept' /\ QuietIsKept'
    BY <2>1 DEF LimitsKept, WithinLimits, WithinSessionLimits, QuietIsKept
  <2>4. Agreed' /\ DiskInv'
    BY <2>1 DEF Agreed, OnlyAgreed, DiskInv, Current
  <2>5. QED
    BY <2>2, <2>3, <2>4
<1>4. CASE ReceiveCancel(m)
  <2>1. UNCHANGED <<files, job, saved>>
    BY <1>4 DEF ReceiveCancel
  <2>2. CASE Discard
    BY <1>2, <2>1, <2>2, DiscardKeeps DEF UploadInv, HostOK
  <2>3. CASE UNCHANGED <<rx, part>>
    BY <1>2, <2>1, <2>3, HostUntouched DEF hostVars
  <2>4. QED
    BY <1>4, <2>2, <2>3 DEF ReceiveCancel
<1>5. CASE ReceiveChunk(m)
  <2>1. UNCHANGED job
    BY <1>5 DEF ReceiveChunk
  <2>2. CASE UNCHANGED diskVars
    BY <1>2, <2>1, <2>2, HostUntouched DEF hostVars, diskVars
  <2>3. CASE Discard /\ UNCHANGED <<files, saved>>
    BY <1>2, <2>1, <2>3, DiscardKeeps DEF UploadInv, HostOK
  <2>4. CASE rx' = [rx EXCEPT !.n = @ + m.n] /\ UNCHANGED <<files, part, saved>>
    <3> USE <1>1, <1>2, <2>1, <2>4 DEF UploadInv
    <3>1. /\ rx'.b = rx.b /\ rx'.i = rx.i
          /\ rx' \in [b : Batches \cup {NoBatch}, i : Indices, n : Nat]
      BY DEF HostOK, UpMessages
    <3>2. HostOK' /\ OneClaim'
      BY <3>1 DEF HostOK, OneClaim, Claimed, Undecided
    <3>3. LimitsKept' /\ QuietIsKept'
      BY <3>1 DEF LimitsKept, WithinLimits, WithinSessionLimits, QuietIsKept
    <3>4. Agreed' /\ DiskInv'
      BY <3>1 DEF Agreed, OnlyAgreed, DiskInv, Current
    <3>5. QED
      BY <3>2, <3>3, <3>4
  <2>5. QED
    BY <1>5, <2>2, <2>3, <2>4 DEF ReceiveChunk
<1>6. QED
  BY <1>3, <1>4, <1>5 DEF HostReceives

\* finishFile(): a stored file counts, the rest of the batch still fits.
LEMMA FinishKeeps ==
  ASSUME UploadInv, FinishFile
  PROVE  UploadInv'
<1>1. UNCHANGED <<closed, pending, job, unanswered, quiet, agreed>>
  BY DEF FinishFile, promptVars
<1>2. CASE UNCHANGED <<rx, files, part, saved>>
  BY <1>1, <1>2, HostUntouched DEF hostVars
<1>3. CASE Discard /\ UNCHANGED <<files, saved>>
  BY <1>1, <1>3, DiscardKeeps DEF UploadInv, HostOK
<1>4. ASSUME rx.b # NoBatch, saved' = saved \cup {Current}, files' = files + 1,
             \/ rx' = Idle /\ part' = part \ {Current}
             \/ /\ rx.i < Files
                /\ rx' = [rx EXCEPT !.i = @ + 1, !.n = 0]
                /\ part' = (part \ {Current}) \cup {<<rx.b, rx.i + 1>>}
      PROVE  UploadInv'
  <2> USE <1>1, <1>4, FileUploadAssumption DEF UploadInv
  <2>1. \A b \in Batches : ~Undecided(b)
    BY DEF OneClaim
  <2>2. rx.b \in agreed /\ rx.b \in Batches /\ rx.i \in Indices
    BY DEF Agreed, HostOK
  <2>3. files + Files - rx.i + 1 =< MaxFiles
    BY DEF LimitsKept, WithinSessionLimits, HostOK, Indices
  <2>4. QuietIsKept'
    BY DEF QuietIsKept
  <2>5. CASE rx' = Idle /\ part' = part \ {Current}
    <3>1. rx'.b = NoBatch
      BY <2>5 DEF Idle
    <3>2. HostOK'
      BY <2>5 DEF HostOK, Idle, Indices
    <3>3. OneClaim'
      BY <3>1 DEF OneClaim, Claimed, Undecided
    <3>4. WithinSessionLimits'
      BY <3>1, <2>2, <2>3 DEF WithinSessionLimits, HostOK, Indices
    <3>5. LimitsKept'
      BY <3>4, <2>1 DEF LimitsKept, Undecided
    <3>6. Agreed' /\ DiskInv'
      BY <3>1, <2>2, <2>5 DEF Agreed, OnlyAgreed, DiskInv, Current
    <3>7. QED
      BY <2>4, <3>2, <3>3, <3>5, <3>6
  <2>6. CASE /\ rx.i < Files
             /\ rx' = [rx EXCEPT !.i = @ + 1, !.n = 0]
             /\ part' = (part \ {Current}) \cup {<<rx.b, rx.i + 1>>}
    <3>1. rx'.b = rx.b /\ rx'.i = rx.i + 1 /\ rx'.i \in Indices
      BY <2>2, <2>6 DEF HostOK, Indices
    <3>2. HostOK'
      <4>1. rx' = [b |-> rx.b, i |-> rx.i + 1, n |-> 0]
        BY <2>6 DEF HostOK
      <4>2. rx' \in [b : Batches \cup {NoBatch}, i : Indices, n : Nat]
        BY <2>2, <3>1, <4>1
      <4>3. QED
        BY <4>2 DEF HostOK
    <3>3. OneClaim'
      BY <3>1 DEF OneClaim, Claimed, Undecided
    <3>4. WithinSessionLimits'
      BY <3>1, <2>2, <2>3 DEF WithinSessionLimits, HostOK, Indices
    <3>5. LimitsKept'
      BY <3>4, <2>1 DEF LimitsKept, Undecided
    <3>6. Current' = <<rx.b, rx.i + 1>> /\ part' = {Current'}
      BY <3>1, <2>6 DEF DiskInv, Current
    <3>7. DiskInv'
      BY <3>1, <3>6 DEF DiskInv
    <3>8. Agreed'
      BY <3>1, <3>6, <2>2 DEF Agreed, OnlyAgreed, Current
    <3>9. QED
      BY <2>4, <3>2, <3>3, <3>5, <3>7, <3>8
  <2>7. QED
    BY <2>5, <2>6
<1>5. QED
  BY <1>2, <1>3, <1>4 DEF FinishFile

LEMMA UploadStep == ChannelOK /\ UploadInv /\ [Next]_vars => UploadInv'
<1> SUFFICES ASSUME ChannelOK, UploadInv, [Next]_vars PROVE UploadInv'
  OBVIOUS
<1>1. ASSUME NEW b \in Batches, JobNext(b) PROVE UploadInv'
  BY <1>1, ClaimKeeps, QuestionKeeps, BeginKeeps, ReleaseKeeps DEF JobNext
<1>2. CASE HostReceives
  BY <1>2, ReceiveKeeps
<1>3. CASE FinishFile
  BY <1>3, FinishKeeps
<1>4. CASE Close
  BY <1>4, DiscardKeeps DEF Close, promptVars
<1>5. CASE QuietPasses
  <2> USE <1>5 DEF QuietPasses, diskVars, UploadInv
  <2>1. HostOK' /\ OneClaim' /\ QuietIsKept'
    BY DEF HostOK, OneClaim, Claimed, Undecided, QuietIsKept
  <2>2. LimitsKept'
    BY DEF LimitsKept, WithinLimits, WithinSessionLimits
  <2>3. Agreed' /\ DiskInv'
    BY DEF Agreed, OnlyAgreed, DiskInv, Current
  <2>4. QED
    BY <2>1, <2>2, <2>3
<1>6. CASE ViewerNext \/ ChannelBreaks \/ UNCHANGED vars
  <2>1. UNCHANGED hostVars
    BY <1>6 DEF ViewerNext, SendBatch, SendChunk, SendFails, Cancel, TimesOut, ClearFinished,
                ViewerReceives, ViewerLoses, ChannelBreaks, vars, hostVars, promptVars,
                diskVars
  <2>2. QED
    BY <2>1, HostUntouched
<1>7. QED
  BY <1>1, <1>2, <1>3, <1>4, <1>5, <1>6 DEF Next

LEMMA UploadInvariant == Spec => [](ChannelOK /\ UploadInv)
<1>1. ChannelOK /\ UploadInv /\ [Next]_vars => (ChannelOK /\ UploadInv)'
  BY ChannelStep, UploadStep DEF UploadInv
<1>2. QED
  BY <1>1, InitUpload, PTL DEF Spec

-----------------------------------------------------------------------------

\* The types of what neither the channel's nor the host's invariant speaks of.
RestOK ==
  /\ open \in BOOLEAN /\ finishing \in BOOLEAN
  /\ batch \in [Batches -> BatchStates]
  /\ agreed \subseteq Batches
  /\ part \subseteq Batches \X Indices
  /\ saved \subseteq Batches \X Indices
  /\ mixed \subseteq Batches \X Indices

LEMMA RestStep == ChannelOK /\ HostOK /\ RestOK /\ [Next]_vars => RestOK'
<1> SUFFICES ASSUME ChannelOK, HostOK, RestOK, [Next]_vars PROVE RestOK'
  OBVIOUS
<1> USE FileUploadAssumption
    DEF HostOK, RestOK, BatchStates, Indices, Current, Discard, channelVars, viewerVars,
        promptVars, diskVars
<1>mine. ASSUME NEW b \in Batches,
                \/ SendBatch(b) \/ SendChunk(b) \/ SendFails(b)
                \/ Cancel(b) \/ TimesOut(b) \/ ClearFinished(b)
         PROVE  RestOK'
  BY <1>mine DEF SendBatch, SendChunk, SendFails, Cancel, TimesOut, ClearFinished
<1>heard. CASE ViewerReceives
  <2>what. Head(down) \in DownMessages
    BY <1>heard DEF ViewerReceives, ChannelOK
  <2>who. Head(down).b \in Batches
    BY <2>what DEF DownMessages
  <2> QED
    BY <1>heard, <2>who DEF ViewerReceives, OnError
<1>jobs. ASSUME NEW b \in Batches, JobNext(b) PROVE RestOK'
  BY <1>jobs DEF JobNext, ClaimPending, CheckOffer, MayAsk, Answered, BeginBatch, BeginFails,
                 Failure, SendAccept, ReleasePending
<1>read. CASE HostReceives
  <2> USE <1>read DEF HostReceives, ReceiveOffer, ReceiveCancel, ReceiveChunk
  <2>kept. UNCHANGED <<open, batch, agreed, saved>> /\ part' \subseteq part
    OBVIOUS
  <2>flag. finishing' \in BOOLEAN
    OBVIOUS
  <2>mixed. mixed' \subseteq mixed \cup (IF rx.b = NoBatch THEN {} ELSE {Current})
    OBVIOUS
  <2> QED
    BY ONLY RestOK, HostOK, <2>kept, <2>flag, <2>mixed DEF RestOK, HostOK, Current
<1>stored. CASE FinishFile
  <2> USE <1>stored DEF FinishFile
  <2>kept. UNCHANGED <<open, batch, agreed, mixed>> /\ finishing' = FALSE
    OBVIOUS
  <2>names. /\ rx.b # NoBatch => Current \in Batches \X Indices
            /\ rx.b # NoBatch /\ rx.i < Files => <<rx.b, rx.i + 1>> \in Batches \X Indices
    OBVIOUS
  <2>disk. saved' \subseteq Batches \X Indices /\ part' \subseteq Batches \X Indices
    BY <2>names
  <2> QED
    BY <2>kept, <2>disk
<1>ends. CASE ViewerLoses \/ QuietPasses \/ Close \/ ChannelBreaks \/ UNCHANGED vars
  BY <1>ends DEF ViewerLoses, QuietPasses, Close, ChannelBreaks, vars
<1> QED
  BY <1>mine, <1>heard, <1>jobs, <1>read, <1>stored, <1>ends DEF Next, ViewerNext

\* Type correctness of both ends and of the channel between them; that `files`
\* never exceeds the limit takes the invariant.
THEOREM TypeCorrect == Spec => []TypeOK
<1>start. Init => RestOK
  BY DEF Init, RestOK, BatchStates
<1>type. ChannelOK /\ UploadInv /\ RestOK => TypeOK
  <2> SUFFICES ASSUME ChannelOK, UploadInv, RestOK PROVE TypeOK
    OBVIOUS
  <2>files. files \in 0 .. MaxFiles
    BY FileUploadAssumption DEF UploadInv, HostOK, LimitsKept, WithinSessionLimits, Indices
  <2> QED
    BY <2>files DEF ChannelOK, UploadInv, HostOK, RestOK, TypeOK
<1>step. ChannelOK /\ UploadInv /\ RestOK /\ [Next]_vars => RestOK'
  BY RestStep DEF UploadInv
<1> QED
  BY <1>start, <1>type, <1>step, UploadInvariant, PTL DEF Spec

\* offered(): neither a file nor a part of one is of a batch without a yes; the
\* session's limits hold over all its batches; and no question is asked in the
\* quiet period, or once too many went unanswered.
THEOREM AgreementHolds == Spec => []AgreementIsKept
<1>holds. UploadInv => AgreementIsKept
  BY DEF UploadInv, LimitsKept, Agreed, AgreementIsKept
<1> QED
  BY <1>holds, UploadInvariant, PTL

\* abortLocked(), finishFile() and Close(): the only part of a file on the disk is
\* that of the file being written, and none is left by a closed session.
THEOREM NothingHalfWritten == Spec => []PartialIsCurrent
<1>1. UploadInv => PartialIsCurrent
  BY DEF UploadInv, DiskInv, PartialIsCurrent
<1>2. QED
  BY <1>1, UploadInvariant, PTL

\* claimPending() and releasePending(): the slot for a decision is taken only while
\* some goroutine of offered() is on its way to give it back.  No early return
\* forgets it, so an offer is not refused as busy because of a batch that is gone.
ClaimIsHeld == pending => \E b \in Batches : Claimed(b)

LEMMA ClaimStep == UploadInv /\ ClaimIsHeld /\ [Next]_vars => ClaimIsHeld'
<1> SUFFICES ASSUME UploadInv, ClaimIsHeld, [Next]_vars PROVE ClaimIsHeld'
  OBVIOUS
<1> USE DEF diskVars, promptVars, viewerVars, channelVars
<1>typed. job \in [Batches -> Jobs]
  BY DEF UploadInv, HostOK
<1>kept. ASSUME UNCHANGED pending, \A c \in Batches : Claimed(c) => Claimed(c)'
         PROVE  ClaimIsHeld'
  BY <1>kept DEF ClaimIsHeld
<1>claim. ASSUME NEW b \in Batches, ClaimPending(b) PROVE ClaimIsHeld'
  <2>in. CASE job'[b] = "check"
    BY <2>in DEF ClaimIsHeld, Claimed, Undecided
  <2>busy. CASE job'[b] # "check"
    <3>same. job[b] = "claim" /\ pending' = pending /\ job' = [job EXCEPT ![b] = "over"]
      BY <1>claim, <1>typed, <2>busy DEF ClaimPending, Goes, UploadInv, HostOK
    <3> QED
      BY <1>kept, <1>typed, <3>same DEF Claimed, Undecided
  <2> QED
    BY <2>in, <2>busy
<1>work. ASSUME NEW b \in Batches,
                \/ CheckOffer(b) \/ MayAsk(b) \/ BeginBatch(b) \/ BeginFails(b) \/ SendAccept(b)
                \/ \E answer \in {"yes", "no", "unanswered"} : Answered(b, answer)
         PROVE  ClaimIsHeld'
  <2>goes. /\ UNCHANGED pending /\ job' = [job EXCEPT ![b] = job'[b]]
           /\ job'[b] \in {"ask", "asking", "begin", "accept", "release"}
    BY <1>work, <1>typed DEF CheckOffer, MayAsk, BeginBatch, BeginFails, SendAccept, Answered, Goes
  <2> QED
    BY <1>kept, <1>typed, <2>goes DEF Claimed, Undecided
<1>back. ASSUME NEW b \in Batches, ReleasePending(b) PROVE ClaimIsHeld'
  BY <1>back DEF ReleasePending, ClaimIsHeld
<1>read. CASE HostReceives
  <2>job. UNCHANGED job \/ (\E b : job[b] = "none" /\ job' = [job EXCEPT ![b] = "claim"])
    BY <1>read DEF HostReceives, ReceiveOffer, ReceiveCancel, ReceiveChunk, Goes
  <2>same. UNCHANGED pending
    BY <1>read DEF HostReceives
  <2> QED
    BY <1>kept, <1>typed, <2>job, <2>same DEF Claimed, Undecided
<1>rest. CASE ViewerNext \/ QuietPasses \/ FinishFile \/ Close \/ ChannelBreaks \/ UNCHANGED vars
  <2>same. UNCHANGED <<pending, job>>
    BY <1>rest DEF ViewerNext, SendBatch, SendChunk, SendFails, Cancel, TimesOut, ClearFinished,
                   ViewerReceives, ViewerLoses, QuietPasses, FinishFile, Close,
                   ChannelBreaks, vars
  <2> QED
    BY <1>kept, <2>same DEF Claimed, Undecided
<1> QED
  BY <1>claim, <1>work, <1>back, <1>read, <1>rest DEF Next, JobNext

\* ClaimIsHeld, for every number of batches and whatever is sent, answered, closed or
\* lost; and with a goroutine that holds the claim it is exactly one.
THEOREM ClaimIsGivenBack ==
  Spec => [](pending <=> \E b \in Batches : \A c \in Batches : Claimed(c) <=> c = b)
<1>start. Init => ClaimIsHeld
  BY DEF Init, ClaimIsHeld
<1>exact. UploadInv /\ ClaimIsHeld =>
            (pending <=> \E b \in Batches : \A c \in Batches : Claimed(c) <=> c = b)
  BY DEF UploadInv, OneClaim, ClaimIsHeld
<1> QED
  BY <1>start, <1>exact, ClaimStep, UploadInvariant, PTL DEF Spec
=============================================================================
