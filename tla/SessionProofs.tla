----------------------------- MODULE SessionProofs -----------------------------
(***************************************************************************)
(* Safety of Session for every set of requests and every limit on          *)
(* unapproved prompts.                                                     *)
(***************************************************************************)
EXTENDS Session, TLAPS

\* A step of the session keeps every variable in its type.
LEMMA TypeStep == TypeOK /\ [Next]_vars => TypeOK'
<1> SUFFICES ASSUME TypeOK, [Next]_vars PROVE TypeOK'
  OBVIOUS
<1> USE MaxUnapprovedAssumption
    DEF TypeOK, SharedTypeOK, HostTypeOK, ViewerTypeOK, Statuses, Points, ViewerStates,
        hostVars, coreVars, viewerVars, sharedVars
<1>1. ASSUME NEW r \in Requests, HostNext(r), UNCHANGED viewerVars
      PROVE  TypeOK'
  <2> USE <1>1 DEF At, Jump, Return, TrySetStatus, PutStatus, Writable, DeleteNode,
        DeleteEntry, ReleasePeer, Cancelled
  <2>1. CASE Dispatch(r)
    BY <2>1 DEF Dispatch
  <2>2. CASE OpenStream(r)
    BY <2>2 DEF OpenStream
  <2>3. CASE StreamReports(r)
    BY <2>3 DEF StreamReports
  <2>4. CASE CheckSnapshot(r)
    <3>1. CASE Jump(r, "acquire") /\ UNCHANGED <<news, withdrawn>>
      BY <2>4, <3>1 DEF CheckSnapshot
    <3>2. CASE Return(r)
      BY <2>4, <3>2 DEF CheckSnapshot
    <3>3. QED
      BY <2>4, <3>1, <3>2 DEF CheckSnapshot
  <2>5. CASE Acquire(r)
    BY <2>5 DEF Acquire
  <2>6. CASE Decline(r)
    BY <2>6 DEF Decline
  <2>7. CASE MarkConnecting(r)
    BY <2>7 DEF MarkConnecting
  <2>8. CASE Prepare(r)
    BY <2>8 DEF Prepare
  <2>9. CASE PrepareFails(r)
    BY <2>9 DEF PrepareFails
  <2>10. CASE Watch(r)
    BY <2>10 DEF Watch
  <2>11. CASE Decide(r)
    BY <2>11 DEF Decide
  <2>12. CASE PublishOffer(r)
    BY <2>12 DEF PublishOffer
  <2>13. CASE ReceiveAnswer(r)
    BY <2>13 DEF ReceiveAnswer
  <2>14. CASE LinkComesUp(r)
    BY <2>14 DEF LinkComesUp
  <2>15. CASE Connected(r)
    BY <2>15 DEF Connected
  <2>16. CASE NegotiationFails(r)
    BY <2>16 DEF NegotiationFails
  <2>17. CASE ConnectionEnds(r)
    BY <2>17 DEF ConnectionEnds
  <2>18. CASE CaptureStops(r)
    BY <2>18 DEF CaptureStops
  <2>19. CASE WriteEndedStatus(r)
    BY <2>19 DEF WriteEndedStatus
  <2>20. CASE DeleteNodes(r)
    BY <2>20 DEF DeleteNodes
  <2>21. CASE ReleaseDeferred(r)
    BY <2>21 DEF ReleaseDeferred
  <2>22. CASE FreeSlot(r)
    BY <2>22 DEF FreeSlot
  <2>23. CASE ReturnDeclined(r)
    BY <2>23 DEF ReturnDeclined
  <2>24. ASSUME NEW yes \in BOOLEAN, AskReturns(r, yes) PROVE TypeOK'
    BY <2>24 DEF AskReturns, NoteConnectOutcome
  <2>25. CASE FileChannelCloses(r)
    BY <2>25 DEF FileChannelCloses
  <2>26. QED
    BY <1>1, <2>25, <2>1, <2>2, <2>3, <2>4, <2>5, <2>6, <2>7, <2>8, <2>9, <2>10, <2>11, <2>12, <2>13, <2>14, <2>15, <2>16, <2>17, <2>18, <2>19, <2>20, <2>21, <2>22, <2>23, <2>24
      DEF HostNext
<1>2. ASSUME NEW r \in Requests, ViewerNext(r), UNCHANGED hostVars
      PROVE  TypeOK'
  <2> USE <1>2 DEF Goes, Teardown, Cut, Attached, TrySetStatus, PutStatus, Writable, CreateNodes,
        DeleteNode, DeleteEntry
  <2>1. CASE Connect(r)
    BY <2>1 DEF Connect
  <2>2. CASE Created(r)
    BY <2>2 DEF Created
  <2>3. CASE LeaveEarly(r)
    BY <2>3 DEF LeaveEarly
  <2>4. CASE Answer(r)
    BY <2>4 DEF Answer
  <2>5. CASE SeesConnected(r)
    BY <2>5 DEF SeesConnected
  <2>6. CASE Announce(r)
    BY <2>6 DEF Announce
  <2>7. CASE TimesOut(r)
    BY <2>7 DEF TimesOut
  <2>8. CASE Disconnect(r)
    BY <2>8 DEF Disconnect
  <2>9. CASE SeesLinkLost(r)
    BY <2>9 DEF SeesLinkLost
  <2>10. CASE SeesEnded(r)
    BY <2>10 DEF SeesEnded
  <2>11. CASE SeesGone(r)
    BY <2>11 DEF SeesGone
  <2>12. CASE WriteEnded(r)
    BY <2>12 DEF WriteEnded
  <2>13. CASE RemoveNodes(r)
    BY <2>13 DEF RemoveNodes
  <2>14. CASE TabDies(r)
    BY <2>14 DEF TabDies
  <2>15. CASE OnDisconnect(r)
    BY <2>15 DEF OnDisconnect
  <2>16. CASE CreateFails(r)
    BY <2>16 DEF CreateFails
  <2>17. QED
    BY <1>2, <2>16, <2>1, <2>2, <2>3, <2>4, <2>5, <2>6, <2>7, <2>8, <2>9, <2>10, <2>11, <2>12, <2>13, <2>14, <2>15
      DEF ViewerNext
<1>3. ASSUME NEW r \in Requests, LinkBreaks(r), UNCHANGED <<hostVars, viewerVars>>
      PROVE  TypeOK'
  BY <1>3 DEF LinkBreaks, Cut
<1>4. CASE Shutdown /\ UNCHANGED viewerVars
  BY <1>4 DEF Shutdown
<1>5. CASE ProcessEnds /\ UNCHANGED viewerVars
  BY <1>5 DEF ProcessEnds
<1>6. CASE UNCHANGED vars
  BY <1>6 DEF vars
<1>7. QED
  BY <1>1, <1>2, <1>3, <1>4, <1>5, <1>6 DEF Next

\* Type correctness: every variable of the agent, of the viewers and of the
\* database node stays in its type, whatever the interleaving.
THEOREM TypeCorrect == Spec => []TypeOK
<1>1. Init => TypeOK
  <2> SUFFICES ASSUME Init PROVE TypeOK
    OBVIOUS
  <2> USE DEF Init, SharedInit, HostInit, ViewerInit
  <2>1. SharedTypeOK
    BY DEF SharedTypeOK, Statuses
  <2>2. HostTypeOK
    <3>1. unapproved \in 0 .. MaxUnapproved - 1
      BY MaxUnapprovedAssumption
    <3>2. QED
      BY <3>1 DEF HostTypeOK, Points, Statuses
  <2>3. ViewerTypeOK
    BY DEF ViewerTypeOK, ViewerStates
  <2>4. QED
    BY <2>1, <2>2, <2>3 DEF TypeOK
<1>2. QED
  BY <1>1, TypeStep, PTL DEF Spec

-----------------------------------------------------------------------------

\* The points of Run before the slot is taken, with the slot only, and with the
\* session's peer as well.
Unserved == {"idle", "start", "snapshot", "acquire", "done"}
SlotOnly == {"mark", "prepare"}
Served   == {"asking", "decide", "offer", "await", "ice", "streaming"}

\* What Run owes at each point, and that the resources of a session are never
\* there without the deferred call that lets go of them.
Owes(r) ==
  /\ pc[r] \in Unserved => defers[r] = {}
  /\ pc[r] \in SlotOnly => defers[r] = {"slot"}
  /\ pc[r] \in Served => defers[r] = {"slot", "peer"}
  /\ live[r] = "open" \/ clip[r] => "peer" \in defers[r]
  /\ "peer" \in defers[r] => "slot" \in defers[r]

\* The flag and the holder agree, and there is one holder at most.
SlotInv ==
  /\ \A r \in Requests : Owes(r)
  /\ \A r \in Requests : "slot" \in defers[r] => active
  /\ active => \E r \in Requests : "slot" \in defers[r]
  /\ \A r, q \in Requests : "slot" \in defers[r] /\ "slot" \in defers[q] => r = q

\* A step of the session keeps the slot's bookkeeping.
LEMMA SlotStep == TypeOK /\ SlotInv /\ [Next]_vars => SlotInv'
<1> SUFFICES ASSUME TypeOK, SlotInv, [Next]_vars PROVE SlotInv'
  OBVIOUS
<1> USE DEF SlotInv, Owes, Unserved, SlotOnly, Served
<1>1. ASSUME NEW r \in Requests, HostNext(r)
      PROVE  SlotInv'
  <2> USE <1>1 DEF TypeOK, HostTypeOK, Points, At, Jump, Return, ReleasePeer, coreVars
  <2>1. CASE Dispatch(r)
    BY <2>1 DEF Dispatch
  <2>2. CASE OpenStream(r)
    BY <2>2 DEF OpenStream
  <2>3. CASE StreamReports(r)
    BY <2>3 DEF StreamReports
  <2>4. CASE CheckSnapshot(r)
    BY <2>4 DEF CheckSnapshot
  <2>5. CASE Acquire(r)
    BY <2>5 DEF Acquire
  <2>6. CASE Decline(r)
    BY <2>6 DEF Decline
  <2>7. CASE MarkConnecting(r)
    BY <2>7 DEF MarkConnecting
  <2>8. CASE Prepare(r)
    BY <2>8 DEF Prepare
  <2>9. CASE PrepareFails(r)
    BY <2>9 DEF PrepareFails
  <2>10. CASE Watch(r)
    BY <2>10 DEF Watch
  <2>11. ASSUME NEW yes \in BOOLEAN, AskReturns(r, yes) PROVE SlotInv'
    BY <2>11 DEF AskReturns
  <2>12. CASE Decide(r)
    BY <2>12 DEF Decide
  <2>13. CASE PublishOffer(r)
    BY <2>13 DEF PublishOffer
  <2>14. CASE ReceiveAnswer(r)
    BY <2>14 DEF ReceiveAnswer
  <2>15. CASE LinkComesUp(r)
    BY <2>15 DEF LinkComesUp, hostVars
  <2>16. CASE Connected(r)
    BY <2>16 DEF Connected
  <2>17. CASE NegotiationFails(r)
    BY <2>17 DEF NegotiationFails
  <2>18. CASE ConnectionEnds(r)
    BY <2>18 DEF ConnectionEnds
  <2>19. CASE CaptureStops(r)
    BY <2>19 DEF CaptureStops
  <2>20. CASE WriteEndedStatus(r)
    BY <2>20 DEF WriteEndedStatus
  <2>21. CASE DeleteNodes(r)
    BY <2>21 DEF DeleteNodes
  <2>22. CASE ReleaseDeferred(r)
    BY <2>22 DEF ReleaseDeferred
  <2>23. CASE FreeSlot(r)
    BY <2>23 DEF FreeSlot
  <2>24. CASE ReturnDeclined(r)
    BY <2>24 DEF ReturnDeclined
  <2>25. CASE FileChannelCloses(r)
    BY <2>25 DEF FileChannelCloses
  <2>26. QED
    BY <1>1, <2>25, <2>1, <2>2, <2>3, <2>4, <2>5, <2>6, <2>7, <2>8, <2>9, <2>10, <2>11, <2>12, <2>13, <2>14, <2>15, <2>16, <2>17, <2>18, <2>19, <2>20, <2>21, <2>22, <2>23, <2>24
      DEF HostNext
<1>2. CASE UNCHANGED hostVars
  BY <1>2 DEF hostVars
<1>3. CASE Shutdown
  BY <1>3 DEF Shutdown
<1>4. CASE ProcessEnds
  BY <1>4 DEF ProcessEnds, TypeOK, HostTypeOK
<1>5. QED
  BY <1>1, <1>2, <1>3, <1>4 DEF Next, vars

\* The slot's bookkeeping is an invariant.
LEMMA SlotInvariant == Spec => []SlotInv
<1>1. Init => SlotInv
  BY DEF Init, HostInit, SlotInv, Owes, Unserved, SlotOnly, Served
<1>2. QED
  BY <1>1, TypeCorrect, SlotStep, PTL DEF Spec

\* One session at a time: no two requests ever hold a peer connection, a
\* clipboard worker or the slot together (the deferred release of the peer runs
\* before the slot is freed).
THEOREM SessionsExclude == Spec => []OneSessionAtATime
<1>1. SlotInv => OneSessionAtATime
  BY DEF SlotInv, Owes, OneSessionAtATime
<1>2. QED
  BY <1>1, SlotInvariant, PTL

\* Every way out of Run is clean: the slot is taken exactly while some Run owes
\* its release, and a Run that has returned holds nothing, since live.release()
\* was deferred as soon as there was something to release.
THEOREM WaysOutAreClean == Spec => []ReturnedIsClean
<1>holds. SlotInv => ReturnedIsClean
  BY DEF SlotInv, Owes, Unserved, ReturnedIsClean
<1> QED
  BY <1>holds, SlotInvariant, PTL

-----------------------------------------------------------------------------

\* Consent, with the point of Run it is tied to: nothing of this computer is
\* out before Run has acted on a yes, and from then on the yes stands.
Granted == {"offer", "await", "ice", "streaming", "finish", "delete", "return", "done"}

ConsentInv ==
  \A r \in Requests :
    /\ pc[r] \in {"offer", "await", "ice", "streaming"} => approved[r]
    /\ "offer" \in posted[r] \/ clip[r] \/ link[r] = "up" \/ capturing[r]
         => approved[r] /\ pc[r] \in Granted

\* A step of the session keeps consent.
LEMMA ConsentStep == TypeOK /\ ConsentInv /\ [Next]_vars => ConsentInv'
<1> SUFFICES ASSUME TypeOK, ConsentInv, [Next]_vars PROVE ConsentInv'
  OBVIOUS
<1> USE DEF ConsentInv, Granted, TypeOK, HostTypeOK, SharedTypeOK, hostVars, coreVars,
        viewerVars, sharedVars
<1>1. ASSUME NEW r \in Requests, HostNext(r), UNCHANGED viewerVars
      PROVE  ConsentInv'
  <2> USE <1>1 DEF Points, At, Jump, Return, ReleasePeer, TrySetStatus, PutStatus,
        Writable, DeleteNode, DeleteEntry
  <2>1. CASE Dispatch(r)
    BY <2>1 DEF Dispatch
  <2>2. CASE OpenStream(r)
    BY <2>2 DEF OpenStream
  <2>3. CASE StreamReports(r)
    BY <2>3 DEF StreamReports
  <2>4. CASE CheckSnapshot(r)
    BY <2>4 DEF CheckSnapshot
  <2>5. CASE Acquire(r)
    BY <2>5 DEF Acquire
  <2>6. CASE Decline(r)
    BY <2>6 DEF Decline
  <2>7. CASE MarkConnecting(r)
    BY <2>7 DEF MarkConnecting
  <2>8. CASE Prepare(r)
    BY <2>8 DEF Prepare
  <2>9. CASE PrepareFails(r)
    BY <2>9 DEF PrepareFails
  <2>10. CASE Watch(r)
    BY <2>10 DEF Watch
  <2>11. ASSUME NEW yes \in BOOLEAN, AskReturns(r, yes) PROVE ConsentInv'
    BY <2>11 DEF AskReturns
  <2>12. CASE Decide(r)
    BY <2>12 DEF Decide
  <2>13. CASE PublishOffer(r)
    BY <2>13 DEF PublishOffer
  <2>14. CASE ReceiveAnswer(r)
    BY <2>14 DEF ReceiveAnswer
  <2>15. CASE LinkComesUp(r)
    BY <2>15 DEF LinkComesUp
  <2>16. CASE Connected(r)
    BY <2>16 DEF Connected
  <2>17. CASE NegotiationFails(r)
    BY <2>17 DEF NegotiationFails
  <2>18. CASE ConnectionEnds(r)
    BY <2>18 DEF ConnectionEnds
  <2>19. CASE CaptureStops(r)
    BY <2>19 DEF CaptureStops
  <2>20. CASE WriteEndedStatus(r)
    BY <2>20 DEF WriteEndedStatus
  <2>21. CASE DeleteNodes(r)
    BY <2>21 DEF DeleteNodes
  <2>22. CASE ReleaseDeferred(r)
    BY <2>22 DEF ReleaseDeferred
  <2>23. CASE FreeSlot(r)
    BY <2>23 DEF FreeSlot
  <2>24. CASE ReturnDeclined(r)
    BY <2>24 DEF ReturnDeclined
  <2>25. CASE FileChannelCloses(r)
    BY <2>25 DEF FileChannelCloses
  <2>26. QED
    BY <1>1, <2>25, <2>1, <2>2, <2>3, <2>4, <2>5, <2>6, <2>7, <2>8, <2>9, <2>10, <2>11, <2>12, <2>13, <2>14, <2>15, <2>16, <2>17, <2>18, <2>19, <2>20, <2>21, <2>22, <2>23, <2>24
      DEF HostNext
<1>2. ASSUME NEW r \in Requests, ViewerNext(r), UNCHANGED hostVars
      PROVE  ConsentInv'
  <2> USE <1>2 DEF Goes, Teardown, Cut, Attached, TrySetStatus, PutStatus, Writable, CreateNodes,
        DeleteNode, DeleteEntry
  <2>1. CASE Connect(r)
    BY <2>1 DEF Connect
  <2>2. CASE Created(r)
    BY <2>2 DEF Created
  <2>3. CASE LeaveEarly(r)
    BY <2>3 DEF LeaveEarly
  <2>4. CASE Answer(r)
    BY <2>4 DEF Answer
  <2>5. CASE SeesConnected(r)
    BY <2>5 DEF SeesConnected
  <2>6. CASE Announce(r)
    BY <2>6 DEF Announce
  <2>7. CASE TimesOut(r)
    BY <2>7 DEF TimesOut
  <2>8. CASE Disconnect(r)
    BY <2>8 DEF Disconnect
  <2>9. CASE SeesLinkLost(r)
    BY <2>9 DEF SeesLinkLost
  <2>10. CASE SeesEnded(r)
    BY <2>10 DEF SeesEnded
  <2>11. CASE SeesGone(r)
    BY <2>11 DEF SeesGone
  <2>12. CASE WriteEnded(r)
    BY <2>12 DEF WriteEnded
  <2>13. CASE RemoveNodes(r)
    BY <2>13 DEF RemoveNodes
  <2>14. CASE TabDies(r)
    BY <2>14 DEF TabDies
  <2>15. CASE OnDisconnect(r)
    BY <2>15 DEF OnDisconnect
  <2>16. CASE CreateFails(r)
    BY <2>16 DEF CreateFails
  <2>17. QED
    BY <1>2, <2>16, <2>1, <2>2, <2>3, <2>4, <2>5, <2>6, <2>7, <2>8, <2>9, <2>10, <2>11, <2>12, <2>13, <2>14, <2>15
      DEF ViewerNext
<1>3. ASSUME NEW r \in Requests, LinkBreaks(r), UNCHANGED <<hostVars, viewerVars>>
      PROVE  ConsentInv'
  BY <1>3 DEF LinkBreaks, Cut
<1>4. CASE Shutdown /\ UNCHANGED viewerVars
  BY <1>4 DEF Shutdown
<1>5. CASE ProcessEnds /\ UNCHANGED viewerVars
  BY <1>5 DEF ProcessEnds
<1>6. CASE UNCHANGED vars
  BY <1>6 DEF vars
<1>7. QED
  BY <1>1, <1>2, <1>3, <1>4, <1>5, <1>6 DEF Next

\* Consent comes first: no offer on the node, no clipboard worker, no link and
\* no screen capture for a request the operator did not say yes to.
THEOREM ConsentFirst == Spec => []NothingWithoutYes
<1>1. Init => ConsentInv
  BY DEF Init, HostInit, SharedInit, ConsentInv
<1>2. ConsentInv => NothingWithoutYes
  BY DEF ConsentInv, NothingWithoutYes
<1>3. QED
  BY <1>1, <1>2, TypeCorrect, ConsentStep, PTL DEF Spec

-----------------------------------------------------------------------------

\* A request's node does not come back.
Stays(r) ==
  vw[r] \notin {"idle", "creating", "leaving"} /\ status[r] = "absent"
    => status'[r] = "absent"

\* The writes of the agent leave an absent node absent.
LEMMA HostKeepsAbsent ==
  ASSUME TypeOK, NEW q \in Requests, HostNext(q), NEW r \in Requests, status[r] = "absent"
  PROVE  status'[r] = "absent"
<1> USE DEF TypeOK, SharedTypeOK, TrySetStatus, PutStatus, Writable, DeleteNode, coreVars,
            hostVars, sharedVars
<1>1. CASE UNCHANGED status
  BY <1>1
<1>2. CASE MarkConnecting(q)
  BY <1>2 DEF MarkConnecting
<1>3. CASE Connected(q)
  BY <1>3 DEF Connected
<1>4. CASE WriteEndedStatus(q)
  BY <1>4 DEF WriteEndedStatus
<1>5. CASE DeleteNodes(q)
  BY <1>5 DEF DeleteNodes
<1>6. QED
  BY <1>1, <1>2, <1>3, <1>4, <1>5 DEF HostNext, Dispatch, OpenStream, StreamReports,
     CheckSnapshot, Acquire, Decline, Prepare, PrepareFails, Watch, AskReturns, Decide,
     PublishOffer, ReceiveAnswer, LinkComesUp, NegotiationFails, FileChannelCloses,
     ConnectionEnds, CaptureStops, ReleaseDeferred, FreeSlot, ReturnDeclined

\* So do the writes of a viewer, but for the one that creates the node.
LEMMA ViewerKeepsAbsent ==
  ASSUME TypeOK, NEW q \in Requests, ViewerNext(q), NEW r \in Requests
  PROVE  Stays(r)
<1> USE DEF Stays, TypeOK, SharedTypeOK, TrySetStatus, PutStatus, Writable, DeleteNode, viewerVars,
        sharedVars
<1>1. CASE UNCHANGED status
  BY <1>1
<1>2. CASE Created(q)
  BY <1>2 DEF Created, CreateNodes
<1>3. CASE Announce(q)
  BY <1>3 DEF Announce
<1>4. CASE WriteEnded(q)
  BY <1>4 DEF WriteEnded
<1>5. CASE RemoveNodes(q)
  BY <1>5 DEF RemoveNodes
<1>6. CASE OnDisconnect(q)
  BY <1>6 DEF OnDisconnect
<1>7. QED
  BY <1>1, <1>2, <1>3, <1>4, <1>5, <1>6 DEF ViewerNext, Connect, LeaveEarly, CreateFails,
     Answer, SeesConnected, TimesOut, Disconnect, SeesLinkLost, SeesEnded, SeesGone,
     Teardown, TabDies

\* No resurrection: once a request's node has been deleted, no late write of
\* either side (a status still in flight, finish()) makes it exist again.
THEOREM DeletedStaysDeleted == Spec => NeverResurrected
<1>1. TypeOK /\ [Next]_vars => [\A r \in Requests : Stays(r)]_vars
  <2> SUFFICES ASSUME TypeOK, [Next]_vars, NEW r \in Requests PROVE Stays(r)
    OBVIOUS
  <2>1. CASE \E q \in Requests : HostNext(q)
    BY <2>1, HostKeepsAbsent DEF Stays
  <2>2. CASE \E q \in Requests : ViewerNext(q)
    BY <2>2, ViewerKeepsAbsent
  <2>3. CASE UNCHANGED status
    BY <2>3 DEF Stays
  <2>4. QED
    BY <2>1, <2>2, <2>3 DEF Next, LinkBreaks, Shutdown, ProcessEnds, vars, sharedVars
<1>2. QED
  BY <1>1, TypeCorrect, PTL DEF Spec, NeverResurrected, Stays

-----------------------------------------------------------------------------
\* What a request leaves in the database, and who is going to remove it.
Left(r) == status[r] # "absent" \/ r \in inbox

\* While there is something of a request in the database, the server holds the handlers
\* that remove it when the tab goes: for a page that is still to remove it, for one that
\* was refused the removal, and for one that is dead.
HandlersCover == \A r \in Requests : Left(r) => r \in armed

\* The handlers are armed before the request is there, and as long as it is.
Covered(r) ==
  /\ vw[r] \in {"idle", "creating", "leaving"} => ~Left(r)
  /\ vw[r] \in {"creating", "leaving"} => r \in armed
  /\ Left(r) => r \in armed

\* The agent only takes things away.
LEMMA HostLeavesLess ==
  ASSUME TypeOK, NEW q \in Requests, HostNext(q), NEW r \in Requests, Left(r)'
  PROVE  Left(r)
<1>node. status[r] = "absent" => status'[r] = "absent"
  BY HostKeepsAbsent
<1>inbox. inbox' \subseteq inbox
  BY DEF HostNext, Dispatch, DeleteEntry, OpenStream, StreamReports, CheckSnapshot, Acquire,
         Decline, MarkConnecting, Prepare, PrepareFails, Watch, AskReturns, Decide,
         PublishOffer, ReceiveAnswer, LinkComesUp, Connected, NegotiationFails,
         FileChannelCloses, ConnectionEnds, CaptureStops, WriteEndedStatus, DeleteNodes,
         ReleaseDeferred, FreeSlot, ReturnDeclined, coreVars, hostVars, sharedVars
<1> QED
  BY <1>node, <1>inbox DEF Left

LEMMA CoveredStep ==
  ASSUME TypeOK, ~DropsBeforeCreate, NEW r \in Requests, Covered(r), [Next]_vars
  PROVE  Covered(r)'
<1> USE DEF Covered
<1>host. ASSUME NEW q \in Requests, HostNext(q), UNCHANGED viewerVars PROVE Covered(r)'
  BY <1>host, HostLeavesLess DEF viewerVars
<1>mine. ASSUME ViewerNext(r) PROVE Covered(r)'
  <2> USE DEF TypeOK, SharedTypeOK, ViewerTypeOK, Left, Goes, sharedVars, viewerVars
  <2>appears. CASE Connect(r) \/ Created(r) \/ LeaveEarly(r) \/ CreateFails(r)
    BY <2>appears DEF Connect, Created, CreateNodes, LeaveEarly, CreateFails
  <2>goes. CASE RemoveNodes(r) \/ OnDisconnect(r)
    BY <2>goes DEF RemoveNodes, OnDisconnect, DeleteNode, DeleteEntry
  <2>writes. CASE Announce(r) \/ WriteEnded(r)
    BY <2>writes DEF Announce, WriteEnded, TrySetStatus, PutStatus, Writable
  <2>talks. CASE Answer(r) \/ SeesConnected(r) \/ TimesOut(r) \/ Disconnect(r)
                 \/ SeesLinkLost(r) \/ SeesEnded(r) \/ SeesGone(r) \/ TabDies(r)
    BY <2>talks DEF Answer, SeesConnected, TimesOut, Disconnect, SeesLinkLost, SeesEnded,
                    SeesGone, Teardown, TabDies, Attached
  <2> QED
    BY <1>mine, <2>appears, <2>goes, <2>writes, <2>talks DEF ViewerNext
<1>other. ASSUME NEW q \in Requests, q # r, ViewerNext(q) PROVE Covered(r)'
  <2>same. vw'[r] = vw[r] /\ (r \in armed => r \in armed') /\ status'[r] = status[r]
           /\ (r \in inbox' => r \in inbox)
    BY <1>other
       DEF TypeOK, SharedTypeOK, ViewerTypeOK, Goes, ViewerNext, Connect, Created, CreateNodes,
           LeaveEarly, CreateFails, Answer, SeesConnected, Announce, TimesOut, Disconnect,
           SeesLinkLost, SeesEnded, SeesGone, Teardown, TabDies, WriteEnded, RemoveNodes,
           OnDisconnect, DeleteNode, DeleteEntry, TrySetStatus, PutStatus, sharedVars, viewerVars
  <2> QED
    BY ONLY Covered(r), <2>same DEF Covered, Left
<1>rest. CASE UNCHANGED <<viewerVars, status, inbox>>
  BY <1>rest DEF viewerVars, Left
<1>others. \/ \E q \in Requests : LinkBreaks(q) /\ UNCHANGED viewerVars
           \/ (Shutdown \/ ProcessEnds) /\ UNCHANGED viewerVars
           \/ UNCHANGED vars
           => UNCHANGED <<viewerVars, status, inbox>>
  BY DEF LinkBreaks, Shutdown, ProcessEnds, vars, sharedVars
<1> QED
  BY <1>host, <1>mine, <1>other, <1>rest, <1>others DEF Next

\* createSession() and removeSession(): the handlers are armed before there is something
\* to remove, and cancelled only once there is nothing left.  So as long as the page keeps
\* its connection to the database until the request is there, the server will remove
\* whatever the writes of page and agent, each of which may fail, have left.  NoOrphans
\* shows what becomes of it otherwise.
THEOREM NothingIsOrphaned == ~DropsBeforeCreate => (Spec => []HandlersCover)
<1> SUFFICES ASSUME ~DropsBeforeCreate PROVE Spec => []HandlersCover
  OBVIOUS
<1> DEFINE Inv == \A r \in Requests : Covered(r)
<1>start. Init => Inv
  BY DEF Init, SharedInit, ViewerInit, Covered, Left
<1>step. TypeOK /\ Inv /\ [Next]_vars => Inv'
  BY CoveredStep
<1>holds. Inv => HandlersCover
  BY DEF Covered, HandlersCover
<1> QED
  BY <1>start, <1>step, <1>holds, TypeCorrect, PTL DEF Spec

-----------------------------------------------------------------------------
\* The link between the two ends.

\* A link that is up has an end on both sides: a page that holds its peer connection and
\* a run past the answer that holds the agent's; and a run whose page has left has lost
\* its link, which is what ends it.
LinkHasTwoEnds ==
  \A r \in Requests :
    /\ link[r] = "up" =>
         Attached(r) /\ live[r] = "open" /\ pc[r] \in {"ice", "streaming"}
    /\ pc[r] \in {"ice", "streaming"} /\ ~Attached(r) => link[r] = "lost"

\* The answer is the page's; from then on its link is lost when it leaves.
LinkInv(r) ==
  /\ "answer" \in posted[r] \/ pc[r] \in {"ice", "streaming"} => Attached(r) \/ link[r] = "lost"
  /\ link[r] = "up" => live[r] = "open" /\ pc[r] \in {"ice", "streaming"}

\* A step of another request is none of this one.
LEMMA LinkOfOther ==
  ASSUME TypeOK, NEW r \in Requests, NEW q \in Requests, q # r, LinkInv(r),
         \/ HostNext(q) /\ UNCHANGED viewerVars
         \/ ViewerNext(q) /\ UNCHANGED hostVars
  PROVE  LinkInv(r)'
<1> USE DEF TypeOK, SharedTypeOK, HostTypeOK, ViewerTypeOK, coreVars, hostVars, viewerVars,
            sharedVars
<1>host. HostNext(q) => /\ pc'[r] = pc[r] /\ live'[r] = live[r] /\ link'[r] = link[r]
                        /\ posted'[r] = posted[r]
  BY DEF HostNext, Dispatch, DeleteEntry, OpenStream, StreamReports, CheckSnapshot, Acquire,
         Decline, MarkConnecting, Prepare, PrepareFails, Watch, AskReturns, Decide,
         PublishOffer, ReceiveAnswer, LinkComesUp, Connected, NegotiationFails,
         FileChannelCloses, ConnectionEnds, CaptureStops, WriteEndedStatus, DeleteNodes,
         ReleaseDeferred, FreeSlot, ReturnDeclined, Return, Jump, ReleasePeer, DeleteNode
<1>viewer. ViewerNext(q) => vw'[r] = vw[r] /\ link'[r] = link[r] /\ posted'[r] = posted[r]
  BY DEF ViewerNext, Goes, Connect, Created, CreateNodes, LeaveEarly, CreateFails, Answer,
         SeesConnected, Announce, TimesOut, Disconnect, SeesLinkLost, SeesEnded, SeesGone,
         Teardown, TabDies, WriteEnded, RemoveNodes, OnDisconnect, DeleteNode, Cut
<1> QED
  BY <1>host, <1>viewer DEF LinkInv, Attached

LEMMA LinkStep ==
  ASSUME TypeOK, NEW r \in Requests, LinkInv(r), [Next]_vars
  PROVE  LinkInv(r)'
<1> USE DEF TypeOK, SharedTypeOK, HostTypeOK, ViewerTypeOK, LinkInv, Attached
<1>agent. ASSUME HostNext(r), UNCHANGED viewerVars PROVE LinkInv(r)'
  <2> USE <1>agent DEF At, Jump, Return, coreVars, hostVars, viewerVars, sharedVars
  <2>early. CASE \/ Dispatch(r) \/ OpenStream(r) \/ StreamReports(r) \/ CheckSnapshot(r)
                 \/ Acquire(r) \/ Decline(r) \/ MarkConnecting(r) \/ Prepare(r)
                 \/ PrepareFails(r)
    BY <2>early DEF Dispatch, OpenStream, StreamReports, CheckSnapshot, Acquire, Decline,
                    MarkConnecting, Prepare, PrepareFails
  <2>decides. CASE \/ Watch(r) \/ (\E yes \in BOOLEAN : AskReturns(r, yes)) \/ Decide(r)
                   \/ PublishOffer(r) \/ ReceiveAnswer(r)
    BY <2>decides DEF Watch, AskReturns, Decide, PublishOffer, ReceiveAnswer
  <2>connects. CASE LinkComesUp(r) \/ Connected(r)
    BY <2>connects DEF LinkComesUp, Connected
  <2>releases. CASE NegotiationFails(r) \/ ConnectionEnds(r) \/ ReleaseDeferred(r)
    <3>cut. link'[r] = IF live[r] = "open" THEN "lost" ELSE link[r]
      BY <2>releases DEF NegotiationFails, ConnectionEnds, ReleaseDeferred, ReleasePeer
    <3>down. link'[r] # "up"
      BY <3>cut
    <3>point. /\ pc'[r] \in {"ice", "streaming"} => pc[r] \in {"ice", "streaming"}
              /\ UNCHANGED posted
      BY <2>releases DEF NegotiationFails, ConnectionEnds, ReleaseDeferred
    <3> QED
      BY <3>cut, <3>down, <3>point
  <2>stops. CASE FileChannelCloses(r) \/ CaptureStops(r)
    BY <2>stops DEF FileChannelCloses, CaptureStops
  <2>returns. CASE WriteEndedStatus(r) \/ DeleteNodes(r) \/ FreeSlot(r) \/ ReturnDeclined(r)
    BY <2>returns DEF WriteEndedStatus, DeleteNodes, DeleteNode, FreeSlot, ReturnDeclined
  <2> QED
    BY <2>early, <2>decides, <2>connects, <2>releases, <2>stops, <2>returns DEF HostNext
<1>page. ASSUME ViewerNext(r), UNCHANGED hostVars PROVE LinkInv(r)'
  <2> USE <1>page DEF Goes, Cut, hostVars, viewerVars, sharedVars
  <2>starts. CASE Connect(r) \/ Created(r) \/ LeaveEarly(r) \/ CreateFails(r)
    BY <2>starts DEF Connect, Created, CreateNodes, LeaveEarly, CreateFails
  <2>talks. CASE Answer(r) \/ SeesConnected(r) \/ Announce(r)
    BY <2>talks DEF Answer, SeesConnected, Announce
  <2>leaves. CASE TimesOut(r) \/ Disconnect(r) \/ SeesLinkLost(r) \/ SeesEnded(r) \/ SeesGone(r)
                  \/ TabDies(r)
    BY <2>leaves DEF TimesOut, Disconnect, SeesLinkLost, SeesEnded, SeesGone, Teardown, TabDies
  <2>removes. CASE WriteEnded(r) \/ RemoveNodes(r) \/ OnDisconnect(r)
    BY <2>removes DEF WriteEnded, RemoveNodes, OnDisconnect, DeleteNode
  <2> QED
    BY <1>page, <2>starts, <2>talks, <2>leaves, <2>removes DEF ViewerNext
<1>breaks. ASSUME NEW q \in Requests, LinkBreaks(q), UNCHANGED <<hostVars, viewerVars>>
           PROVE  LinkInv(r)'
  BY <1>breaks DEF LinkBreaks, Cut, hostVars, viewerVars
<1>process. CASE (Shutdown \/ ProcessEnds) /\ UNCHANGED viewerVars
  BY <1>process DEF Shutdown, ProcessEnds, viewerVars, sharedVars
<1>idle. CASE UNCHANGED vars
  BY <1>idle DEF vars, hostVars, viewerVars, sharedVars
<1>one. ASSUME NEW q \in Requests,
               \/ HostNext(q) /\ UNCHANGED viewerVars
               \/ ViewerNext(q) /\ UNCHANGED hostVars
               \/ LinkBreaks(q) /\ UNCHANGED <<hostVars, viewerVars>>
        PROVE  LinkInv(r)'
  <2>breaks. CASE LinkBreaks(q) /\ UNCHANGED <<hostVars, viewerVars>>
    BY <2>breaks, <1>breaks
  <2>same. CASE q = r /\ ~(LinkBreaks(q) /\ UNCHANGED <<hostVars, viewerVars>>)
    BY <2>same, <1>one, <1>agent, <1>page
  <2>different. CASE q # r /\ ~(LinkBreaks(q) /\ UNCHANGED <<hostVars, viewerVars>>)
    <3>mine. \/ HostNext(q) /\ UNCHANGED viewerVars
             \/ ViewerNext(q) /\ UNCHANGED hostVars
      BY ONLY <2>different, <1>one
    <3> QED
      BY ONLY TypeOK, LinkInv(r), r \in Requests, q \in Requests, <2>different, <3>mine,
              LinkOfOther
  <2> QED
    BY <2>breaks, <2>same, <2>different
<1> QED
  BY <1>one, <1>process, <1>idle DEF Next

\* teardown(), live.release() and the link between them: no half of a connection outlives
\* the other unnoticed.  It is what DepartureEndsSession rests on once the peers are
\* connected, when neither end looks at the node's status any more.
THEOREM NoHalfOpenLink == Spec => []LinkHasTwoEnds
<1> DEFINE Inv == \A r \in Requests : LinkInv(r)
<1>start. Init => Inv
  BY DEF Init, SharedInit, HostInit, LinkInv
<1>step. TypeOK /\ Inv /\ [Next]_vars => Inv'
  BY LinkStep
<1>holds. Inv => LinkHasTwoEnds
  BY DEF LinkInv, LinkHasTwoEnds
<1> QED
  BY <1>start, <1>step, <1>holds, TypeCorrect, PTL DEF Spec

-----------------------------------------------------------------------------

\* The phase of a request is a function of where its Run stands and what it owes.
LEMMA PhaseStays ==
  ASSUME NEW q \in Requests, pc'[q] = pc[q], defers'[q] = defers[q]
  PROVE  Phase(q)' = Phase(q)
  BY DEF Phase

\* A step of one request that moves its phase is a move of the life cycle.
LEMMA PhaseMoves ==
  ASSUME NEW r \in Requests, NEW from, NEW to,
         \A q \in Requests \ {r} : Phase(q)' = Phase(q),
         Phase(r) \in from, Phase(r)' = to
  PROVE  Lifecycle!LMove(r, from, to)
  BY DEF Lifecycle!LMove

\* A step that moves no phase is a stutter of the life cycle.
LEMMA PhaseStutters ==
  ASSUME \A q \in Requests : Phase(q)' = Phase(q)
  PROVE  [r \in Requests |-> Phase(r)]' = [r \in Requests |-> Phase(r)]
  OBVIOUS

\* Every step of a request's Run is a step of the life cycle, or a stutter.
LEMMA RunImplements ==
  ASSUME TypeOK, SlotInv, NEW r \in Requests, HostNext(r)
  PROVE  [Lifecycle!LNext]_([q \in Requests |-> Phase(q)])
<1> USE DEF TypeOK, HostTypeOK, At, Jump, Return, coreVars
<1>o. \A q \in Requests \ {r} : Phase(q)' = Phase(q)
  <2> SUFFICES ASSUME NEW q \in Requests \ {r} PROVE pc'[q] = pc[q] /\ defers'[q] = defers[q]
    BY PhaseStays
  <2> QED
    BY DEF HostNext, Dispatch, OpenStream, StreamReports, CheckSnapshot, Acquire, Decline,
       MarkConnecting, Prepare, PrepareFails, Watch, AskReturns, Decide, PublishOffer,
       ReceiveAnswer, LinkComesUp, Connected, NegotiationFails, FileChannelCloses,
       ConnectionEnds, CaptureStops, WriteEndedStatus, DeleteNodes, ReleaseDeferred,
       FreeSlot, ReturnDeclined, hostVars
<1>w. Owes(r)
  BY DEF SlotInv
<1>1. CASE Acquire(r)
  <2>1. \A q \in Requests : Phase(q) = "outside"
    BY <1>1 DEF Acquire, SlotInv, Phase
  <2>2. Phase(r)' = "pending"
    BY <1>1 DEF Acquire, Phase
  <2>3. Lifecycle!LMove(r, {"outside"}, "pending")
    BY <1>o, <2>1, <2>2, PhaseMoves
  <2>4. Lifecycle!LAdmit(r)
    BY <2>1, <2>3 DEF Lifecycle!LAdmit
  <2>5. QED
    BY <2>4 DEF Lifecycle!LNext
<1>2. CASE PrepareFails(r)
  <2>1. Phase(r) = "pending" /\ Phase(r)' = "closing"
    BY <1>2, <1>w DEF PrepareFails, Phase, Owes, SlotOnly
  <2>2. Lifecycle!LGiveUp(r)
    BY <1>o, <2>1, PhaseMoves DEF Lifecycle!LGiveUp
  <2>3. QED
    BY <2>2 DEF Lifecycle!LNext
<1>3. CASE Decide(r)
  <2>1. Phase(r) = "pending" /\ Phase(r)' \in {"accepted", "closing"}
    BY <1>3, <1>w DEF Decide, Phase, Owes, Served
  <2>2. Lifecycle!LAccept(r) \/ Lifecycle!LGiveUp(r)
    BY <1>o, <2>1, PhaseMoves DEF Lifecycle!LAccept, Lifecycle!LGiveUp
  <2>3. QED
    BY <2>2 DEF Lifecycle!LNext
<1>4. CASE Connected(r)
  <2>1. Phase(r) = "accepted" /\ Phase(r)' = "connected"
    BY <1>4, <1>w DEF Connected, Phase, Owes, Served
  <2>2. Lifecycle!LConnect(r)
    BY <1>o, <2>1, PhaseMoves DEF Lifecycle!LConnect
  <2>3. QED
    BY <2>2 DEF Lifecycle!LNext
<1>5. CASE NegotiationFails(r) \/ ConnectionEnds(r)
  <2>1. Phase(r) \in {"accepted", "connected"} /\ Phase(r)' = "closing"
    BY <1>5, <1>w DEF NegotiationFails, ConnectionEnds, Phase, Owes, Served
  <2>2. Lifecycle!LGiveUp(r)
    BY <1>o, <2>1, PhaseMoves DEF Lifecycle!LGiveUp
  <2>3. QED
    BY <2>2 DEF Lifecycle!LNext
<1>6. CASE FreeSlot(r)
  <2>1. Phase(r) = "closing" /\ Phase(r)' = "outside"
    BY <1>6 DEF FreeSlot, Phase
  <2>2. Lifecycle!LClose(r)
    BY <1>o, <2>1, PhaseMoves DEF Lifecycle!LClose
  <2>3. QED
    BY <2>2 DEF Lifecycle!LNext
<1>7. CASE UNCHANGED <<pc, defers>>
  BY <1>7, PhaseStays, PhaseStutters
<1>8. CASE Dispatch(r) \/ OpenStream(r) \/ CheckSnapshot(r) \/ Decline(r) \/ ReturnDeclined(r)
  <2>1. Phase(r) = "outside" /\ Phase(r)' = "outside"
    BY <1>8, <1>w DEF Dispatch, OpenStream, CheckSnapshot, Decline, ReturnDeclined, Phase,
       Owes, Unserved
  <2>2. QED
    BY <1>o, <2>1, PhaseStutters
<1>9. CASE MarkConnecting(r) \/ Prepare(r) \/ \E yes \in BOOLEAN : AskReturns(r, yes)
  <2>1. Phase(r) = "pending" /\ Phase(r)' = "pending"
    BY <1>9, <1>w DEF MarkConnecting, Prepare, AskReturns, Phase, Owes, SlotOnly, Served
  <2>2. QED
    BY <1>o, <2>1, PhaseStutters
<1>10. CASE PublishOffer(r) \/ ReceiveAnswer(r)
  <2>1. Phase(r) = "accepted" /\ Phase(r)' = "accepted"
    BY <1>10, <1>w DEF PublishOffer, ReceiveAnswer, Phase, Owes, Served
  <2>2. QED
    BY <1>o, <2>1, PhaseStutters
<1>11. CASE WriteEndedStatus(r) \/ DeleteNodes(r) \/ ReleaseDeferred(r)
  <2>1. Phase(r)' = Phase(r)
    BY <1>11 DEF WriteEndedStatus, DeleteNodes, ReleaseDeferred, Phase
  <2>2. QED
    BY <1>o, <2>1, PhaseStutters
<1>12. QED
  <2>1. CASE StreamReports(r) \/ Watch(r) \/ LinkComesUp(r) \/ FileChannelCloses(r) \/ CaptureStops(r)
    BY <2>1, <1>7 DEF StreamReports, Watch, LinkComesUp, FileChannelCloses, CaptureStops,
                      hostVars
  <2>2. QED
    BY <2>1, <1>1, <1>2, <1>3, <1>4, <1>5, <1>6, <1>8, <1>9, <1>10, <1>11 DEF HostNext

\* The agent keeps the promise of SessionLifecycle: a request is admitted only
\* while none is served, accepted only after it was pending, connected only
\* after it was accepted, and always closed before the next one is admitted.
THEOREM LifecycleIsImplemented == Spec => ImplementsLifecycle
<1>1. Init => Lifecycle!LInit
  BY DEF Init, HostInit, Phase, Lifecycle!LInit
<1>2. TypeOK /\ SlotInv /\ [Next]_vars => [Lifecycle!LNext]_([r \in Requests |-> Phase(r)])
  <2> SUFFICES ASSUME TypeOK, SlotInv, [Next]_vars
               PROVE  [Lifecycle!LNext]_([r \in Requests |-> Phase(r)])
    OBVIOUS
  <2>1. CASE \E r \in Requests : HostNext(r)
    BY <2>1, RunImplements
  <2>2. CASE UNCHANGED <<pc, defers>>
    BY <2>2, PhaseStays, PhaseStutters
  <2>3. CASE ProcessEnds
    <3>1. \A r \in Requests : Phase(r)' = "outside"
      BY <2>3 DEF ProcessEnds, Phase
    <3>2. Lifecycle!LStop
      BY <3>1 DEF Lifecycle!LStop
    <3>3. QED
      BY <3>2 DEF Lifecycle!LNext
  <2>4. QED
    BY <2>1, <2>2, <2>3 DEF Next, Shutdown, vars, hostVars
<1>3. QED
  BY <1>1, <1>2, TypeCorrect, SlotInvariant, PTL DEF Spec, ImplementsLifecycle, Lifecycle!LSpec
=============================================================================
