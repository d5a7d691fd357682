-------------------------------- MODULE Viewer --------------------------------
(***************************************************************************)
(* The viewer's side of one request: useViewerConnection.ts and the part of*)
(* session.service.ts it calls.  Each request is the life of one page: the *)
(* composable is made afresh for every connection attempt.                 *)
(*                                                                         *)
(*   idle        nothing asked yet                                         *)
(*   creating    createSession() is in flight                              *)
(*   leaving     the page was left while createSession() was in flight     *)
(*   connecting  the request exists, no connection yet                     *)
(*   connected   the peer connection came up                               *)
(*   ending      teardown() is about to write status = ended               *)
(*   removing    removeSession() is in flight                              *)
(*   over        torn down: both nodes removed, or left to the handlers    *)
(*   dead        the tab was closed or crashed                             *)
(***************************************************************************)
EXTENDS Signaling

CONSTANT DropsBeforeCreate   \* may the connection to the database drop while
                             \* createSession() is in flight?

ASSUME DropsBeforeCreateAssumption == DropsBeforeCreate \in BOOLEAN

VARIABLES
  vw,          \* vw[r]: where the viewer of r stands
  announcing,  \* the viewers whose setSessionStatus("connected") is in flight
  armed        \* the viewers whose onDisconnect handlers the server holds

viewerVars == <<vw, announcing, armed>>

ViewerStates == {"idle", "creating", "leaving", "connecting", "connected",
                 "ending", "removing", "over", "dead"}

\* The page is done with the request, or gone.
Departed(r) == vw[r] \in {"over", "dead"}

\* A peer connection and the listeners on the node exist.
Attached(r) == vw[r] \in {"connecting", "connected"}

ViewerTypeOK ==
  /\ vw \in [Requests -> ViewerStates]
  /\ announcing \subseteq Requests
  /\ armed \subseteq Requests

ViewerInit ==
  /\ vw = [r \in Requests |-> "idle"]
  /\ announcing = {}
  /\ armed = {}

Goes(r, s) == vw' = [vw EXCEPT ![r] = s]

-----------------------------------------------------------------------------

\* connect(): onDisconnect().remove() is armed on both nodes first.
Connect(r) ==
  /\ vw[r] = "idle"
  /\ Goes(r, "creating")
  /\ armed' = armed \cup {r}
  /\ UNCHANGED <<announcing, sharedVars>>

\* The multi-path update is applied.  A page left meanwhile finds `finished`
\* set and takes the request back at once.
Created(r) ==
  /\ \/ vw[r] = "creating" /\ Goes(r, "connecting")
     \/ vw[r] = "leaving" /\ Goes(r, "removing")
  /\ CreateNodes(r)
  /\ UNCHANGED <<announcing, armed, link>>

\* teardown() before there is a session id.
LeaveEarly(r) ==
  /\ vw[r] = "creating"
  /\ Goes(r, "leaving")
  /\ UNCHANGED <<announcing, armed, sharedVars>>

\* createSession() throws, its retries used up: there is no session to take
\* back, and the handlers stay armed on paths that hold nothing.
CreateFails(r) ==
  /\ vw[r] \in {"creating", "leaving"}
  /\ Goes(r, "over")
  /\ UNCHANGED <<announcing, armed, sharedVars>>

\* handleOffer(): the offer is answered once.
Answer(r) ==
  /\ vw[r] = "connecting"
  /\ "offer" \in posted[r] /\ "answer" \notin posted[r]
  /\ posted' = [posted EXCEPT ![r] = @ \cup {"answer"}]
  /\ UNCHANGED <<viewerVars, status, inbox, link>>

\* handleStateChange(), connected: the connection timer is cleared and the
\* status written without waiting for the write.
SeesConnected(r) ==
  /\ vw[r] = "connecting" /\ link[r] = "up"
  /\ Goes(r, "connected")
  /\ announcing' = announcing \cup {r}
  /\ UNCHANGED <<armed, sharedVars>>

Announce(r) ==
  /\ r \in announcing
  /\ announcing' = announcing \ {r}
  /\ TrySetStatus(r, "connected")
  /\ UNCHANGED <<vw, armed, posted, inbox, link>>

\* teardown(): the peer connection is closed first.  sessionGone skips the
\* status write.
Teardown(r, next) ==
  /\ Goes(r, next)
  /\ Cut(r)
  /\ UNCHANGED <<announcing, armed, status, posted, inbox>>

\* A fault: the timer is started by the first sign of the host.
TimesOutOnceSeen(r) ==
  vw[r] = "connecting" /\ status[r] = "connecting" /\ Teardown(r, "ending")

\* CONNECTION_TIMEOUT_MS ran out before the connection came up.
TimesOut(r) == vw[r] = "connecting" /\ Teardown(r, "ending")

\* The person at the viewer disconnects or leaves the page.
Disconnect(r) == Attached(r) /\ Teardown(r, "ending")

\* failed, closed, or disconnected for DISCONNECT_GRACE_MS: only a viewer that
\* has answered has a link to lose.
SeesLinkLost(r) ==
  /\ Attached(r) /\ link[r] = "lost"
  /\ vw[r] = "connected" \/ "answer" \in posted[r]
  /\ Teardown(r, "ending")

\* status = ended while connecting is a rejection; once connected it is ignored.
SeesEnded(r) ==
  /\ vw[r] = "connecting" /\ status[r] = "ended"
  /\ Teardown(r, "ending")

\* onGone: the node can no longer be read.
SeesGone(r) == Attached(r) /\ ~Writable(r) /\ Teardown(r, "removing")

\* The two writes that close a session, after any write still in flight.
WriteEnded(r) ==
  /\ vw[r] = "ending" /\ r \notin announcing
  /\ TrySetStatus(r, "ended")
  /\ Goes(r, "removing")
  /\ UNCHANGED <<announcing, armed, posted, inbox, link>>

\* A fault: the handlers are cancelled before the nodes are deleted.
RemoveNodesDisarmed(r) ==
  /\ vw[r] = "removing" /\ r \notin announcing
  /\ Goes(r, "over")
  /\ armed' = armed \ {r}
  /\ \/ DeleteNode(r) /\ DeleteEntry(r)
     \/ UNCHANGED <<status, posted, inbox>>
  /\ UNCHANGED <<announcing, link>>

\* removeSession(): one try around the update and the two cancels after it.  When
\* the update is refused the nodes stay and so do the handlers.  (When only the
\* cancels fail, what stays armed has nothing to remove, now or ever again.)
RemoveNodes(r) ==
  /\ vw[r] = "removing" /\ r \notin announcing
  /\ Goes(r, "over")
  /\ \/ /\ DeleteNode(r) /\ DeleteEntry(r)
        /\ armed' = armed \ {r}
     \/ UNCHANGED <<armed, status, posted, inbox>>
  /\ UNCHANGED <<announcing, link>>

\* The tab goes away with whatever it had not sent yet, or closes long after its
\* request was over (of interest while the server holds its handlers).
TabDies(r) ==
  /\ vw[r] \notin {"idle", "dead"}
  /\ vw[r] = "over" => r \in armed
  /\ Goes(r, "dead")
  /\ announcing' = announcing \ {r}
  /\ Cut(r)
  /\ UNCHANGED <<armed, status, posted, inbox>>

\* The server runs the onDisconnect handlers, once: the tab is gone, or its
\* connection to the database dropped for a moment while the page lives on.
OnDisconnect(r) ==
  /\ r \in armed
  /\ vw[r] \in {"creating", "leaving"} => DropsBeforeCreate
  /\ DeleteNode(r) /\ DeleteEntry(r)
  /\ armed' = armed \ {r}
  /\ UNCHANGED <<vw, announcing, link>>

ViewerNext(r) ==
  \/ Connect(r) \/ Created(r) \/ LeaveEarly(r) \/ CreateFails(r)
  \/ Answer(r)
  \/ SeesConnected(r) \/ Announce(r)
  \/ TimesOut(r) \/ Disconnect(r) \/ SeesLinkLost(r) \/ SeesEnded(r) \/ SeesGone(r)
  \/ WriteEnded(r) \/ RemoveNodes(r) \/ TabDies(r) \/ OnDisconnect(r)

\* Pending database writes are sent, timers fire, listeners are called, and the
\* server runs the handlers of a dead tab.  Nothing makes a person act.
ViewerFairness(r) ==
  /\ WF_<<viewerVars, sharedVars>>(Created(r))
  /\ WF_<<viewerVars, sharedVars>>(Announce(r))
  /\ WF_<<viewerVars, sharedVars>>(TimesOut(r))
  /\ WF_<<viewerVars, sharedVars>>(SeesLinkLost(r))
  /\ WF_<<viewerVars, sharedVars>>(SeesGone(r))
  /\ WF_<<viewerVars, sharedVars>>(WriteEnded(r) \/ RemoveNodes(r))
  /\ WF_<<viewerVars, sharedVars>>(vw[r] = "dead" /\ OnDisconnect(r))
=============================================================================
