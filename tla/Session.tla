-------------------------------- MODULE Session --------------------------------
(***************************************************************************)
(* Connection sessions end to end: the viewers of Viewer, the agent of     *)
(* Coordinator, and between them the database node and the link of         *)
(* Signaling.                                                              *)
(***************************************************************************)
EXTENDS Coordinator, Viewer

vars == <<hostVars, viewerVars, sharedVars>>

Init == SharedInit /\ HostInit /\ ViewerInit

Next ==
  \/ \E r \in Requests :
       \/ HostNext(r) /\ UNCHANGED viewerVars
       \/ ViewerNext(r) /\ UNCHANGED hostVars
       \/ LinkBreaks(r) /\ UNCHANGED <<hostVars, viewerVars>>
  \/ (Shutdown \/ ProcessEnds) /\ UNCHANGED viewerVars

Spec == Init /\ [][Next]_vars

(***************************************************************************)
(* Every goroutine of a running agent goes on, its streams are read, its   *)
(* timers fire (snapshotTimeout, the prompt's own timeout, ICE's) and its  *)
(* writes return (callTimeout, cleanupTimeout).  No one has to answer yes, *)
(* ask for a connection, end one or stop the agent, and the link need not  *)
(* come up; but what has broken is noticed.                                *)
(***************************************************************************)
RunProceeds(r) ==
  \/ OpenStream(r) \/ CheckSnapshot(r) \/ Acquire(r) \/ Decline(r)
  \/ MarkConnecting(r) \/ Prepare(r) \/ PrepareFails(r)
  \/ (\E yes \in BOOLEAN : AskReturns(r, yes)) \/ Decide(r)
  \/ PublishOffer(r) \/ ReceiveAnswer(r) \/ Connected(r) \/ NegotiationFails(r)
  \/ ConnectionEnds(r) \/ WriteEndedStatus(r) \/ DeleteNodes(r)
  \/ ReleaseDeferred(r) \/ FreeSlot(r) \/ ReturnDeclined(r)

HostFairness(r) ==
  /\ WF_vars(RunProceeds(r) /\ UNCHANGED viewerVars)
  /\ WF_vars(StreamReports(r) /\ UNCHANGED viewerVars)
  /\ WF_vars(CaptureStops(r) /\ UNCHANGED viewerVars)

FairSpec ==
  /\ Spec
  /\ \A r \in Requests : HostFairness(r)
  /\ \A r \in Requests : ViewerFairness(r)

-----------------------------------------------------------------------------

TypeOK == SharedTypeOK /\ HostTypeOK /\ ViewerTypeOK

\* At most one session holds a peer connection, a clipboard worker or the slot
\* at any time: the deferred release of the peer runs before the slot is freed.
OneSessionAtATime ==
  \A r, q \in Requests :
    /\ live[r] = "open" \/ clip[r] \/ "slot" \in defers[r]
    /\ live[q] = "open" \/ clip[q] \/ "slot" \in defers[q]
    => r = q

\* Nothing of this computer reaches a viewer without a yes: no offer on the
\* node, no clipboard worker, no connection, no screen capture.
NothingWithoutYes ==
  \A r \in Requests :
    "offer" \in posted[r] \/ clip[r] \/ link[r] = "up" \/ capturing[r] => approved[r]

\* No way out of Run leaves anything behind: the slot is taken exactly while some
\* Run owes its release, so the agent can always take a later request, and a Run
\* that has returned holds no peer, no clipboard worker and no deferred call.
ReturnedIsClean ==
  /\ active <=> \E r \in Requests : "slot" \in defers[r]
  /\ \A r \in Requests :
       pc[r] = "done" => live[r] # "open" /\ ~clip[r] /\ defers[r] = {}

\* A session node that was deleted is never there again, whatever late writes
\* of either side are still on their way.
NeverResurrected ==
  [][\A r \in Requests :
       vw[r] \notin {"idle", "creating", "leaving"} /\ status[r] = "absent"
         => status'[r] = "absent"]_vars

-----------------------------------------------------------------------------

\* The page could not remove its node and stays open with the server's handlers
\* still armed: the node goes when the tab does.
NodeKept(r) == vw[r] = "over" /\ r \in armed /\ status[r] # "absent"

\* Nothing but the end of the node ends the wait for an answer, which has no
\* timeout: an agent waits for a page that has left and keeps its node.
AwaitsKept(r) == pc[r] = "await" /\ NodeKept(r)

\* A request that has been taken up does not keep the slot, unless it is
\* connected: it gets there or it is over.  The one that may wait for ever is
\* approved, its page has left, could not remove the node and is never closed.
EveryRequestIsDecided ==
  \A r \in Requests :
    pc[r] \notin {"idle", "streaming", "done"}
      ~> (pc[r] \in {"streaming", "done"} \/ []AwaitsKept(r))

\* When the viewer is gone, in whatever way and at whatever point, the agent
\* ends what it does for it, with the same one exception.
DepartureEndsSession ==
  \A r \in Requests :
    Departed(r) /\ pc[r] # "idle" ~> (pc[r] = "done" \/ []AwaitsKept(r))

\* No node outlives its session and its tab: when the agent is done with a
\* request, even if it was killed or every clean-up write of it failed, the node
\* goes, or its page was refused the removal and is never closed.
NodeRemoved ==
  \A r \in Requests : pc[r] = "done" ~> (status[r] = "absent" \/ []NodeKept(r))

\* session.service.ts: "there is no window in which a dying tab leaves an
\* orphaned request behind".  It is for the handlers armed before the request
\* is created to make this so.
NoOrphans ==
  \A r \in Requests : vw[r] = "dead" ~> status[r] = "absent" /\ r \notin inbox

\* A viewer never waits forever.
ViewerResolves ==
  \A r \in Requests :
    vw[r] = "connecting" ~> vw[r] = "connected" \/ Departed(r)

-----------------------------------------------------------------------------

\* The phase of a request in the abstract life cycle.
Phase(r) ==
  IF "slot" \notin defers[r] THEN "outside"
  ELSE IF pc[r] \in {"mark", "prepare", "asking", "decide"} THEN "pending"
  ELSE IF pc[r] \in {"offer", "await", "ice"} THEN "accepted"
  ELSE IF pc[r] = "streaming" THEN "connected"
  ELSE "closing"

Lifecycle == INSTANCE SessionLifecycle WITH phase <- [r \in Requests |-> Phase(r)]

\* The agent implements the life cycle.
ImplementsLifecycle == Lifecycle!LSpec
=============================================================================
