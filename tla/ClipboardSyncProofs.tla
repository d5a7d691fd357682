-------------------------- MODULE ClipboardSyncProofs --------------------------
(***************************************************************************)
(* The clipboard does not echo, for any texts and any number of gestures.  *)
(*                                                                         *)
(* poll() goes by the sequence alone.  What makes that enough is that one  *)
(* thread writes and polls: between a write of the viewer's data and the   *)
(* reading back of its sequence there is no poll, and from then on the     *)
(* sequence is known until the operator copies something.                  *)
(*                                                                         *)
(* The rest is what its liveness rests on: a copy that was seen is on its  *)
(* way, and nobody waits for a worker that will not answer.                *)
(***************************************************************************)
EXTENDS ClipboardSync, SequenceTheorems, TLAPS

\* Where the worker can be while the viewer's data is on the clipboard, and that
\* nothing of it is in the worker's hands.
EchoInv ==
  /\ board.has \in Theirs =>
       worker.at = "wrote" \/ (worker.at = "idle" /\ sync.lastSeq = board.seq)
  /\ worker.at = "send" => worker.text \notin Theirs
  /\ NothingEchoed

LEMMA TextsAreValues ==
  /\ Mine \subseteq Values /\ Theirs \subseteq Values /\ Texts \subseteq Values
  /\ {None, "secret", "pasted"} \subseteq Values
  BY DEF Values, Mine, Theirs, Texts

LEMMA HostStep == TypeOK /\ [Next]_vars => HostTypeOK'
<1> SUFFICES ASSUME TypeOK, [Next]_vars PROVE HostTypeOK'
  OBVIOUS
<1> USE TextsAreValues DEF TypeOK, HostTypeOK, Points, Idle, Waiting, Holding
<1>copies. CASE OperatorCopies
  BY <1>copies DEF OperatorCopies
<1>poll. CASE Poll
  BY <1>poll DEF Poll
<1>asked. CASE AskPrivate
  BY <1>asked DEF AskPrivate, Private
<1>filesRead. CASE ReadFiles
  <2> USE <1>filesRead DEF ReadFiles, HasFiles
  <2>has. board.has \in Values /\ toViewer' \in {toViewer, Append(toViewer, board.has)}
    OBVIOUS
  <2>queue. toViewer \in Seq(Values)
    BY ONLY HostTypeOK DEF HostTypeOK
  <2>sent. toViewer' \in Seq(Values)
    BY ONLY <2>queue, <2>has
  <2>moved. worker' \in [at : Points, text : Values, for : {None, "handle", "put"}]
    OBVIOUS
  <2> QED
    BY <2>sent, <2>moved
<1>textRead. CASE ReadText
  <2> USE <1>textRead DEF ReadText, HasText
  <2>ways. \/ worker' = [at |-> "send", text |-> board.has, for |-> None]
           \/ worker' = Idle
    OBVIOUS
  <2>moved. worker' \in [at : Points, text : Values, for : {None, "handle", "put"}]
    BY ONLY <2>ways, HostTypeOK, TextsAreValues DEF HostTypeOK, Points, Idle
  <2> QED
    BY <2>moved
<1>sent. CASE Send
  BY <1>sent DEF Send, Repeated
<1>handled. CASE Handle
  <2>job. jobs' \in [handle : Texts \cup {None}, put : {None, "pasted"}]
    BY <1>handled DEF Handle, PageTypeOK
  <2> QED
    BY <1>handled, <2>job DEF Handle
<1>pasted. CASE PutFiles
  BY <1>pasted DEF PutFiles
<1>written. ASSUME NEW who \in DOMAIN jobs, Write(who) PROVE HostTypeOK'
  <2> USE <1>written DEF Write
  <2>who. who \in {"handle", "put"} /\ jobs[who] \in Values
    OBVIOUS
  <2>board. board' \in [seq : Nat, has : Values] /\ board.seq =< board'.seq
    BY <2>who
  <2>job. jobs' \in [handle : Texts \cup {None}, put : {None, "pasted"}]
    BY <2>who
  <2>moved. worker' \in [at : Points, text : Values, for : {None, "handle", "put"}]
    BY <2>who
  <2> QED
    BY <2>board, <2>job, <2>moved
<1>readBack. CASE ReadBack
  <2> USE <1>readBack DEF ReadBack
  <2>own. sync' \in [ownSeq : Nat, lastSeq : Nat, lastApplied : Values]
          /\ sync'.ownSeq = board.seq /\ sync'.lastSeq = board.seq
    BY DEF Owned
  <2>job. jobs' \in [handle : Texts \cup {None}, put : {None, "pasted"}]
    OBVIOUS
  <2> QED
    BY <2>own, <2>job
<1>gaveUp. ASSUME NEW who \in DOMAIN jobs, GiveUp(who) PROVE HostTypeOK'
  BY <1>gaveUp DEF GiveUp, Refused
<1>stopped. CASE Stop \/ Quit
  BY <1>stopped DEF Stop, Quit
<1>away. CASE \/ ViewerCopies \/ Focus \/ CopyPending \/ Leave \/ ReadLocal \/ OnPaste
              \/ UNCHANGED vars
  <2>host. UNCHANGED host /\ UNCHANGED toViewer
    BY <1>away DEF ViewerCopies, Focus, CopyPending, Leave, ReadLocal, OnPaste, vars, host
  <2> QED
    BY <2>host DEF host
<1>message. CASE OnMessage
  BY <1>message DEF OnMessage, host
<1> QED
  BY <1>copies, <1>poll, <1>asked, <1>filesRead, <1>textRead, <1>sent, <1>handled,
     <1>pasted, <1>written, <1>readBack, <1>gaveUp, <1>stopped, <1>away, <1>message
     DEF Next, Loop

LEMMA PageStep == TypeOK /\ [Next]_vars => PageTypeOK'
<1> SUFFICES ASSUME TypeOK, [Next]_vars PROVE PageTypeOK'
  OBVIOUS
<1> USE TextsAreValues DEF TypeOK, PageTypeOK
<1>quiet. CASE UNCHANGED viewer /\ (UNCHANGED toHost \/ (toHost # <<>> /\ toHost' = Tail(toHost)))
  BY <1>quiet DEF viewer
<1>hosts. CASE \/ OperatorCopies \/ Loop \/ Handle \/ PutFiles \/ Stop
               \/ \E who \in DOMAIN jobs : GiveUp(who)
  <2> USE <1>hosts
      DEF Loop, OperatorCopies, Poll, AskPrivate, Private, ReadFiles, HasFiles, ReadText,
          HasText, Send, ReadBack, Quit, Write, Handle, PutFiles, Stop, GiveUp
  <2>same. UNCHANGED viewer
    OBVIOUS
  <2>channel. UNCHANGED toHost \/ (toHost # <<>> /\ toHost' = Tail(toHost))
    OBVIOUS
  <2> QED
    BY ONLY <1>quiet, <2>same, <2>channel
<1>copies. CASE ViewerCopies
  BY <1>copies DEF ViewerCopies, Texts, Theirs
<1>focus. CASE Focus \/ CopyPending \/ Leave
  BY <1>focus DEF Focus, CopyPending, Leave
<1>posts. ASSUME NEW text \in Values, Posted(text), UNCHANGED <<local, joined>>
          PROVE  PageTypeOK'
  <2>sent. toHost' \in Seq(Texts)
    BY <1>posts DEF Posted
  <2>noted. page' \in [lastFromHost : Values, lastToHost : Values,
                       pending : Values, reading : Values]
    BY <1>posts DEF Posted
  <2> QED
    BY <1>posts, <2>sent, <2>noted
<1>reads. CASE ReadLocal \/ OnPaste
  BY <1>reads, <1>posts DEF ReadLocal, OnPaste
<1>message. CASE OnMessage
  <2> USE <1>message DEF OnMessage, HostTypeOK
  <2>text. Head(toViewer) \in Values
    OBVIOUS
  <2>noted. page' \in [lastFromHost : Values, lastToHost : Values,
                       pending : Values, reading : Values]
    BY <2>text DEF Applied
  <2> QED
    BY <2>text, <2>noted
<1>still. CASE UNCHANGED vars
  BY <1>still DEF vars
<1> QED
  BY <1>hosts, <1>copies, <1>focus, <1>reads, <1>message, <1>still DEF Next, Loop

\* The bounds of the model are kept.
LEMMA BoundStep ==
  TypeOK /\ [Next]_vars => gestures' \in 0 .. MaxGestures /\ busy' \in 0 .. MaxBusy
<1> SUFFICES ASSUME TypeOK, [Next]_vars
             PROVE  gestures' \in 0 .. MaxGestures /\ busy' \in 0 .. MaxBusy
  OBVIOUS
<1>spent. (UNCHANGED gestures \/ Gesture) /\ (UNCHANGED busy \/ Busy)
  BY DEF Next, Loop, OperatorCopies, Poll, AskPrivate, Private, ReadFiles, HasFiles, ReadText,
         HasText, Send, ReadBack, Quit, Write, Handle, PutFiles, Stop, GiveUp, ViewerCopies,
         Focus, ReadLocal, OnPaste, OnMessage, CopyPending, Leave, vars
<1> QED
  BY <1>spent, ClipboardAssumption DEF TypeOK, Gesture, Busy

\* Type correctness of the clipboard, its worker, the channel and the page; the
\* worker never takes a sequence for its own that the clipboard has not reached.
THEOREM TypeCorrect == Spec => []TypeOK
<1>start. Init => TypeOK
  <2> SUFFICES ASSUME Init PROVE TypeOK
    OBVIOUS
  <2> USE ClipboardAssumption, TextsAreValues DEF Init, Started
  <2>host. HostTypeOK
    BY DEF HostTypeOK, Points, Idle
  <2>page. PageTypeOK
    BY DEF PageTypeOK, Theirs
  <2> QED
    BY <2>host, <2>page DEF TypeOK
<1>step. TypeOK /\ [Next]_vars => TypeOK'
  BY HostStep, PageStep, BoundStep DEF TypeOK
<1> QED
  BY <1>start, <1>step, PTL DEF Spec

LEMMA OriginsDiffer == Theirs \cap (Mine \cup {"secret", None}) = {}
  BY ClipboardAssumption DEF Mine, Theirs, Texts, None

LEMMA EchoStep == TypeOK /\ EchoInv /\ [Next]_vars => EchoInv'
<1> SUFFICES ASSUME TypeOK, EchoInv, [Next]_vars PROVE EchoInv'
  OBVIOUS
<1> USE OriginsDiffer
    DEF TypeOK, HostTypeOK, EchoInv, NothingEchoed, Points, Idle, Waiting, Holding
<1>copies. CASE OperatorCopies
  BY <1>copies DEF OperatorCopies
<1>poll. CASE Poll
  BY <1>poll DEF Poll
\* What the worker reads it found after a poll, so the operator put it there.
<1>reads. CASE AskPrivate \/ ReadFiles \/ ReadText
  <2> USE <1>reads DEF AskPrivate, Private, ReadFiles, HasFiles, ReadText, HasText
  <2>clean. board.has \notin Theirs /\ UNCHANGED <<board, sync>>
    OBVIOUS
  <2>moved. worker'.at = "send" => worker'.text = board.has
    OBVIOUS
  <2>sent. toViewer' \in {toViewer, Append(toViewer, board.has)}
    OBVIOUS
  <2>unsent. NothingEchoed'
    BY ONLY HostTypeOK, NothingEchoed, <2>clean, <2>sent DEF HostTypeOK, NothingEchoed
  <2> QED
    BY <2>clean, <2>moved, <2>unsent
<1>sent. CASE Send
  BY <1>sent DEF Send
<1>written. ASSUME NEW who \in DOMAIN jobs, Write(who) PROVE EchoInv'
  <2> USE <1>written DEF Write
  <2>ways. \/ worker'.at = "wrote"
           \/ board'.has = None /\ worker' = worker
           \/ UNCHANGED <<board, worker>>
    OBVIOUS
  <2>same. UNCHANGED <<sync, toViewer>> /\ worker.at = "idle"
    OBVIOUS
  <2> QED
    BY ONLY EchoInv, OriginsDiffer, <2>ways, <2>same DEF EchoInv, NothingEchoed
<1>readBack. CASE ReadBack
  BY <1>readBack DEF ReadBack, Owned
<1>message. CASE OnMessage
  BY <1>message DEF OnMessage, host
<1>apart. CASE UNCHANGED <<board, sync, worker, toViewer>>
  BY <1>apart
<1>others. CASE \/ Handle \/ PutFiles \/ Stop \/ Quit \/ ViewerCopies \/ Focus \/ ReadLocal
                \/ OnPaste \/ CopyPending \/ Leave \/ UNCHANGED vars
                \/ \E who \in DOMAIN jobs : GiveUp(who)
  <2>away. UNCHANGED <<board, sync, worker, toViewer>>
    BY <1>others DEF Handle, PutFiles, Stop, Quit, GiveUp, ViewerCopies, Focus, ReadLocal,
       OnPaste, CopyPending, Leave, vars, host
  <2> QED
    BY <1>apart, <2>away
<1> QED
  BY <1>copies, <1>poll, <1>reads, <1>sent, <1>written, <1>readBack, <1>message, <1>others
     DEF Next, Loop

\* Sync: what the viewer put on the operator's clipboard is never sent back to it.
THEOREM NoEcho == Spec => []NothingEchoed
<1>start. Init => EchoInv
  BY ClipboardAssumption DEF Init, Started, EchoInv, NothingEchoed, Mine, Theirs, Texts, None,
                             Idle
<1>holds. EchoInv => NothingEchoed
  BY DEF EchoInv
<1> QED
  BY <1>start, <1>holds, EchoStep, TypeCorrect, PTL DEF Spec
-----------------------------------------------------------------------------
\* A copy of the operator's, from the poll that saw it to the page.

\* It is the last message of those under way, or the last the page took.
Delivered(text) ==
  IF toViewer = <<>> THEN page.lastFromHost = text \/ ~joined
  ELSE toViewer[Len(toViewer)] = text

\* A text poll() has seen and has to share: it was copied during the session, the system let
\* it be read, and it is not what the viewer put there or sent last.
Due ==
  /\ board.has \in HostTexts /\ board.seq = sync.lastSeq
  /\ board.seq \notin {1, sync.ownSeq, unread} /\ board.has # sync.lastApplied

CopyIsOnItsWay ==
  Due => \/ worker.at \in {"private?", "files?", "text?"}
         \/ worker.at = "send" /\ worker.text = board.has
         \/ worker.at = "idle" /\ Delivered(board.has)

LEMMA LastOfAppended ==
  ASSUME NEW S, NEW s \in Seq(S), NEW x \in S
  PROVE  Append(s, x) # <<>> /\ Append(s, x)[Len(Append(s, x))] = x
  OBVIOUS

LEMMA LastOfTail ==
  ASSUME NEW S, NEW s \in Seq(S), s # <<>>
  PROVE  \/ Tail(s) = <<>> /\ s[Len(s)] = Head(s)
         \/ Tail(s) # <<>> /\ Tail(s)[Len(Tail(s))] = s[Len(s)]
<1>tail. /\ Tail(s) \in Seq(S) /\ Len(s) \in Nat \ {0} /\ Len(Tail(s)) = Len(s) - 1
         /\ \A i \in 1 .. Len(Tail(s)) : Tail(s)[i] = s[i + 1]
  BY HeadTailProperties, EmptySeq
<1>length. (Tail(s) = <<>>) <=> (Len(Tail(s)) = 0)
  <2>long. Tail(s) # <<>> => Len(Tail(s)) \in Nat \ {0}
    BY ONLY <1>tail, EmptySeq, Zenon
  <2>some. Tail(s) # <<>> => Len(Tail(s)) # 0
    BY ONLY <2>long, SMT
  <2>none. Tail(s) = <<>> => Len(Tail(s)) = 0
    BY ONLY EmptySeq, Zenon
  <2> QED
    BY ONLY <2>some, <2>none
<1>one. CASE Len(s) = 1
  <2>empty. Tail(s) = <<>>
    BY <1>one, <1>tail, <1>length
  <2> QED
    BY <1>one, <2>empty
<1>more. CASE Len(s) > 1
  <2>last. Len(Tail(s)) \in 1 .. Len(Tail(s)) /\ Len(Tail(s)) + 1 = Len(s)
    BY <1>more, <1>tail
  <2>some. Tail(s) # <<>>
    BY <1>more, <1>tail, <1>length
  <2> QED
    BY <1>tail, <2>last, <2>some
<1> QED
  BY <1>tail, <1>one, <1>more

LEMMA CopyStep == TypeOK /\ CopyIsOnItsWay /\ [Next]_vars => CopyIsOnItsWay'
<1> SUFFICES ASSUME TypeOK, CopyIsOnItsWay, [Next]_vars PROVE CopyIsOnItsWay'
  OBVIOUS
<1>foreign. HostTexts \cap {"files", "pasted", "secret", None} = {} /\ HostTexts \subseteq Texts
  BY ClipboardAssumption DEF Texts
<1>typed. /\ board.seq \in Nat /\ sync.lastSeq \in Nat /\ sync.lastSeq =< board.seq
          /\ toViewer \in Seq(Values)
  BY DEF TypeOK, HostTypeOK
\* Whatever is put on the clipboard is still to be seen.
<1>put. ASSUME NEW what, board' = Holding(what), UNCHANGED sync PROVE CopyIsOnItsWay'
  <2> board'.seq = board.seq + 1
    BY <1>put DEF Holding
  <2> QED
    BY <1>put, <1>typed DEF CopyIsOnItsWay, Due
<1>copies. CASE OperatorCopies
  BY <1>copies, <1>put DEF OperatorCopies
<1>poll. CASE Poll
  <2>polled. /\ sync' = [sync EXCEPT !.lastSeq = board.seq] /\ UNCHANGED board
             /\ worker' = IF board.seq = sync.ownSeq THEN worker
                          ELSE [worker EXCEPT !.at = "private?"]
    BY <1>poll DEF Poll
  <2>own. CASE board.seq = sync.ownSeq
    BY <2>polled, <2>own DEF CopyIsOnItsWay, Due, TypeOK, HostTypeOK
  <2>new. CASE board.seq # sync.ownSeq
    <3> worker'.at = "private?"
      BY <2>polled, <2>new DEF TypeOK, HostTypeOK
    <3> QED
      BY DEF CopyIsOnItsWay
  <2> QED
    BY <2>own, <2>new
<1>reads. CASE AskPrivate \/ ReadFiles \/ ReadText
  <2>same. UNCHANGED <<board, sync>>
    BY <1>reads DEF AskPrivate, ReadFiles, ReadText
  <2>failed. CASE unread' = board.seq
    BY <2>same, <2>failed DEF CopyIsOnItsWay, Due
  <2>foreign. CASE board.has \notin HostTexts
    BY <2>same, <2>foreign DEF CopyIsOnItsWay, Due
  <2>read. CASE unread' # board.seq /\ board.has \in HostTexts
    <3>at. \/ worker'.at \in {"private?", "files?", "text?"}
           \/ worker'.at = "send" /\ worker'.text = board.has
      BY <1>reads, <2>read, <1>foreign DEF AskPrivate, Private, ReadFiles, HasFiles, ReadText,
         HasText, TypeOK, HostTypeOK
    <3> QED
      BY <2>same, <3>at DEF CopyIsOnItsWay
  <2> QED
    BY <2>failed, <2>foreign, <2>read
<1>sent. CASE Send
  <2>same. UNCHANGED <<board, sync, unread, viewer>> /\ worker'.at = "idle" /\ worker.at = "send"
    BY <1>sent DEF Send, Idle
  <2>due. ASSUME Due' PROVE Delivered(board.has)'
    <3>text. Due /\ worker.text = board.has /\ board.has \in Values
      BY <2>due, <2>same DEF CopyIsOnItsWay, Due, TypeOK, HostTypeOK
    <3>appended. toViewer' = Append(toViewer, board.has)
      BY <1>sent, <3>text DEF Send, Repeated, Due
    <3>last. toViewer' # <<>> /\ toViewer'[Len(toViewer')] = board.has
      BY ONLY <3>appended, <3>text, <1>typed, LastOfAppended
    <3> QED
      BY <3>last, <2>same DEF Delivered
  <2> QED
    BY <2>due, <2>same DEF CopyIsOnItsWay
<1>written. ASSUME NEW who \in DOMAIN jobs, Write(who) PROVE CopyIsOnItsWay'
  <2>ways. \/ \E what : board' = Holding(what)
           \/ UNCHANGED <<board, worker>>
    BY <1>written DEF Write
  <2>same. UNCHANGED <<sync, unread, viewer, toViewer>>
    BY <1>written DEF Write
  <2> QED
    BY <2>ways, <2>same, <1>put DEF CopyIsOnItsWay, Due, Delivered, viewer
<1>readBack. CASE ReadBack
  <2> sync'.ownSeq = board.seq /\ UNCHANGED board
    BY <1>readBack DEF ReadBack, Owned
  <2> QED
    BY DEF CopyIsOnItsWay, Due
<1>message. CASE OnMessage
  <2>same. UNCHANGED <<board, sync, worker, unread, joined>>
    BY <1>message DEF OnMessage, host
  <2>taken. toViewer # <<>> /\ toViewer' = Tail(toViewer)
    BY <1>message DEF OnMessage
  <2>kept. ASSUME Delivered(board.has), board.has \in HostTexts PROVE Delivered(board.has)'
    <3>last. toViewer[Len(toViewer)] = board.has
      BY <2>kept, <2>taken DEF Delivered
    <3>one. CASE Tail(toViewer) = <<>> /\ toViewer[Len(toViewer)] = Head(toViewer)
      <4>text. Head(toViewer) = board.has /\ Head(toViewer) \in Texts
        BY <3>last, <3>one, <2>kept, <1>foreign
      <4>shown. page'.lastFromHost = board.has \/ ~joined
        BY <1>message, <4>text DEF OnMessage, Applied, TypeOK, PageTypeOK
      <4> QED
        BY <4>shown, <3>one, <2>taken, <2>same DEF Delivered
    <3>more. CASE Tail(toViewer) # <<>> /\ Tail(toViewer)[Len(Tail(toViewer))] = board.has
      BY <3>more, <2>taken, <2>same DEF Delivered
    <3> QED
      BY <3>last, <3>one, <3>more, <2>taken, <1>typed, LastOfTail
  <2> QED
    BY <2>same, <2>kept DEF CopyIsOnItsWay, Due
<1>page. ASSUME UNCHANGED <<board, sync, worker, unread, toViewer>>,
                \/ UNCHANGED joined /\ page'.lastFromHost = page.lastFromHost
                \/ ~joined'
         PROVE  CopyIsOnItsWay'
  BY <1>page DEF CopyIsOnItsWay, Due, Delivered
<1>others. CASE \/ Handle \/ PutFiles \/ Stop \/ Quit \/ ViewerCopies \/ Focus \/ ReadLocal
                \/ OnPaste \/ CopyPending \/ Leave \/ UNCHANGED vars
                \/ \E who \in DOMAIN jobs : GiveUp(who)
  <2>away. UNCHANGED <<board, sync, worker, unread, toViewer>>
    BY <1>others DEF Handle, PutFiles, Stop, Quit, GiveUp, ViewerCopies, Focus, ReadLocal,
       OnPaste, CopyPending, Leave, vars, host
  <2>shown. \/ UNCHANGED joined /\ page'.lastFromHost = page.lastFromHost
            \/ ~joined'
    BY <1>others DEF Handle, PutFiles, Stop, Quit, GiveUp, ViewerCopies, Focus, ReadLocal,
       OnPaste, Posted, CopyPending, Leave, vars, viewer, TypeOK, PageTypeOK
  <2> QED
    BY <1>page, <2>away, <2>shown
<1> QED
  BY <1>copies, <1>poll, <1>reads, <1>sent, <1>written, <1>readBack, <1>message, <1>others
     DEF Next, Loop

\* poll(), Send and onMessage: a text the operator copied and poll() has seen is not lost on
\* its way, whatever the viewer sends in between: it is being read, or the last message under
\* way, or the last the page took.
THEOREM CopyIsNotLost == Spec => []CopyIsOnItsWay
<1>start. Init => CopyIsOnItsWay
  BY DEF Init, CopyIsOnItsWay, Due
<1> QED
  BY <1>start, CopyStep, TypeCorrect, PTL DEF Spec

-----------------------------------------------------------------------------
\* The worker and the two calls of do.

\* What the worker has written somebody is still waiting for, and the thread only ends with
\* nothing in its hands.
WorkIsAwaited ==
  /\ worker.at = "wrote" => worker.for \in {"handle", "put"} /\ jobs[worker.for] # None
  /\ stop = "over" => worker.at = "idle"

LEMMA AwaitedStep == TypeOK /\ WorkIsAwaited /\ [Next]_vars => WorkIsAwaited'
<1> SUFFICES ASSUME TypeOK, WorkIsAwaited, [Next]_vars PROVE WorkIsAwaited'
  OBVIOUS
<1> USE DEF WorkIsAwaited
<1>jobs. jobs = [handle |-> jobs.handle, put |-> jobs.put] /\ DOMAIN jobs = {"handle", "put"}
  BY DEF TypeOK, HostTypeOK
<1>loop. CASE Poll \/ AskPrivate \/ ReadFiles \/ ReadText \/ Send \/ ReadBack \/ Quit
  <2>at. \/ worker'.at # "wrote"
         \/ UNCHANGED <<worker, jobs>>
    BY <1>loop DEF Poll, AskPrivate, ReadFiles, ReadText, Send, ReadBack, Quit, Idle, TypeOK,
                   HostTypeOK
  <2>over. stop' = "over" => worker'.at = "idle"
    BY <1>loop DEF Poll, AskPrivate, ReadFiles, ReadText, Send, ReadBack, Quit, Idle, Waiting
  <2> QED
    BY <2>at, <2>over
<1>writes. ASSUME NEW who \in DOMAIN jobs, Write(who) PROVE WorkIsAwaited'
  <2>waits. worker.at = "idle" /\ stop' = stop /\ stop # "over"
    BY <1>writes DEF Write, Waiting
  <2>ways. \/ /\ worker'.at = "wrote" /\ worker'.for = who
              /\ jobs' = jobs /\ jobs[who] # None
           \/ worker' = worker
    BY <1>writes DEF Write
  <2> QED
    BY <2>waits, <2>ways, <1>jobs
<1>asks. CASE Handle \/ PutFiles
  <2>same. UNCHANGED <<worker, stop>>
    BY <1>asks DEF Handle, PutFiles
  <2>kept. \A who \in {"handle", "put"} : jobs[who] # None => jobs'[who] = jobs[who]
    BY <1>asks, <1>jobs DEF Handle, PutFiles, TypeOK, HostTypeOK
  <2> QED
    BY <2>same, <2>kept
<1>gives. ASSUME NEW who \in DOMAIN jobs, GiveUp(who) PROVE WorkIsAwaited'
  BY <1>gives DEF GiveUp, Refused
<1>stops. CASE Stop
  BY <1>stops DEF Stop
<1>others. CASE \/ OperatorCopies \/ ViewerCopies \/ Focus \/ ReadLocal \/ OnPaste
                \/ OnMessage \/ CopyPending \/ Leave \/ UNCHANGED vars
  BY <1>others DEF OperatorCopies, ViewerCopies, Focus, ReadLocal, OnPaste, OnMessage,
                   CopyPending, Leave, host, vars
<1> QED
  BY <1>loop, <1>writes, <1>asks, <1>gives, <1>stops, <1>others DEF Next, Loop

\* worker.go: no call of do is left without the worker that would answer it.  A job is the
\* caller's until it is read back, and quit is only seen between two jobs; so DoReturns only
\* needs the thread to go on.
THEOREM NobodyIsLeftWaiting == Spec => []WorkIsAwaited
<1>start. Init => WorkIsAwaited
  BY DEF Init, Started, Idle, WorkIsAwaited
<1> QED
  BY <1>start, AwaitedStep, TypeCorrect, PTL DEF Spec
=============================================================================
