------------------------------ MODULE Coordinator ------------------------------
(***************************************************************************)
(* The host agent's side of every request: the inbox hands a request to    *)
(* Coordinator.Run on a goroutine of its own (cmd/host/main.go), and Run   *)
(* takes it from the check of its node through the operator's answer, the  *)
(* negotiation and the connection to the clean-up (session/coordinator.go).*)
(* pc[r] is where the goroutine of r stands:                               *)
(*                                                                         *)
(*   idle, start, snapshot, acquire, mark, prepare, asking, decide, offer, *)
(*   await, ice, streaming    the way of an approved request               *)
(*   finish, delete           the writes of finish()                       *)
(*   return                   the deferred calls                           *)
(*   done                     Run has returned, its locals are gone        *)
(*                                                                         *)
(* Every write the agent makes to the database may fail; where the code    *)
(* ignores the error, the step is taken with the write not applied.        *)
(***************************************************************************)
EXTENDS Signaling, Naturals

CONSTANT MaxUnapproved   \* maxUnapprovedConnects

ASSUME MaxUnapprovedAssumption == MaxUnapproved \in Nat \ {0}

VARIABLES
  agent,       \* the process: "up", "stopping" (its context is cancelled), "down"
  pc,          \* pc[r]: where Run(r) stands
  active,      \* Coordinator.active, the single session slot
  unapproved,  \* Coordinator.unapproved, prompts in a row without a yes
  alerts,      \* how often onRefusals was called
  snap,        \* snap[r]: the status in the snapshot waiting to be read, or "none"
  news,        \* news[r]: what the node's stream has reported: "ended", "gone"
  withdrawn,   \* withdrawn[r]: the watcher closed the channel of that name
  approved,    \* approved[r]: the operator said yes
  live,        \* live[r]: the session's peer: "none", "open", "released"
  clip,        \* clip[r]: the session's clipboard worker runs
  capturing,   \* capturing[r]: the session's capture goroutine runs
  defers       \* defers[r]: the deferred releases Run(r) still owes

hostVars == <<agent, pc, active, unapproved, alerts, snap, news, withdrawn,
              approved, live, clip, capturing, defers>>
coreVars == <<agent, active, unapproved, alerts, snap, news, withdrawn,
              approved, live, clip, capturing, defers>>   \* all but pc

Points == {"idle", "start", "snapshot", "acquire", "mark", "prepare", "asking",
           "decide", "offer", "await", "ice", "streaming", "finish", "delete",
           "return", "done"}

HostTypeOK ==
  /\ agent \in {"up", "stopping", "down"}
  /\ pc \in [Requests -> Points]
  /\ active \in BOOLEAN
  /\ unapproved \in 0 .. MaxUnapproved - 1
  /\ alerts \in Nat
  /\ snap \in [Requests -> Statuses \cup {"none"}]
  /\ news \in [Requests -> SUBSET {"ended", "gone"}]
  /\ withdrawn \in [Requests -> BOOLEAN]
  /\ approved \in [Requests -> BOOLEAN]
  /\ live \in [Requests -> {"none", "open", "released"}]
  /\ clip \in [Requests -> BOOLEAN]
  /\ capturing \in [Requests -> BOOLEAN]
  /\ defers \in [Requests -> SUBSET {"slot", "peer"}]

HostInit ==
  /\ agent = "up"
  /\ pc = [r \in Requests |-> "idle"]
  /\ active = FALSE /\ unapproved = 0 /\ alerts = 0
  /\ snap = [r \in Requests |-> "none"]
  /\ news = [r \in Requests |-> {}]
  /\ withdrawn = [r \in Requests |-> FALSE]
  /\ approved = [r \in Requests |-> FALSE]
  /\ live = [r \in Requests |-> "none"]
  /\ clip = [r \in Requests |-> FALSE]
  /\ capturing = [r \in Requests |-> FALSE]
  /\ defers = [r \in Requests |-> {}]

-----------------------------------------------------------------------------

\* Run(r) is at point p of a process that still runs.
At(r, p) == agent # "down" /\ pc[r] = p

Jump(r, p) == pc' = [pc EXCEPT ![r] = p]

\* The session's context is cancelled when the agent stops.
Cancelled == agent = "stopping"

\* live.release(): once, clipboard before peer; closing the peer cuts the link.
ReleasePeer(r) ==
  /\ live' = [live EXCEPT ![r] = IF @ = "open" THEN "released" ELSE @]
  /\ clip' = [clip EXCEPT ![r] = FALSE]
  /\ link' = [link EXCEPT ![r] = IF live[r] = "open" THEN "lost" ELSE @]

\* Run(r) returns: its transport and its channels go with it.
Return(r) ==
  /\ Jump(r, "done")
  /\ news' = [news EXCEPT ![r] = {}]
  /\ withdrawn' = [withdrawn EXCEPT ![r] = FALSE]

-----------------------------------------------------------------------------
\* From the inbox to the slot.

\* Inbox.dispatch() and the callback of main.go: the entry is consumed, and a
\* request too old to matter is dropped.  An entry whose delete failed counts as
\* consumed: its id is in `seen`, so it is never handed over again.
Dispatch(r) ==
  /\ agent = "up" /\ pc[r] = "idle" /\ r \in inbox
  /\ DeleteEntry(r)
  /\ Jump(r, "start") \/ Jump(r, "done")
  /\ UNCHANGED <<coreVars, status, posted, link>>

\* transport.Start(): no node to read (permission denied), or no network.
OpenStream(r) ==
  /\ At(r, "start")
  /\ \/ Writable(r) /\ ~Cancelled /\ Jump(r, "snapshot")
     \/ Jump(r, "done")
  /\ UNCHANGED <<coreVars, sharedVars>>

\* A fault: the node's end is taken for a lost connection to the database.
StreamReportsNoGone(r) ==
  /\ agent = "up" /\ pc[r] \notin {"idle", "start", "done"}
  /\ \/ /\ pc[r] = "snapshot" /\ snap[r] = "none" /\ Writable(r)
        /\ snap' = [snap EXCEPT ![r] = status[r]]
        /\ UNCHANGED news
     \/ /\ pc[r] # "snapshot" /\ status[r] = "ended" /\ "ended" \notin news[r]
        /\ news' = [news EXCEPT ![r] = @ \cup {"ended"}]
        /\ UNCHANGED snap
  /\ UNCHANGED <<pc, agent, active, unapproved, alerts, withdrawn, approved, live,
                 clip, capturing, defers, sharedVars>>

\* The stream of the session node.  The first report is the snapshot; a status
\* of "ended" and the end of the node are what is looked at afterwards.
StreamReports(r) ==
  /\ agent = "up" /\ pc[r] \notin {"idle", "start", "done"} /\ "gone" \notin news[r]
  /\ \/ /\ ~Writable(r)
        /\ news' = [news EXCEPT ![r] = @ \cup {"gone"}]
        /\ UNCHANGED snap
     \/ /\ pc[r] = "snapshot" /\ snap[r] = "none" /\ Writable(r)
        /\ snap' = [snap EXCEPT ![r] = status[r]]
        /\ UNCHANGED news
     \/ /\ pc[r] # "snapshot" /\ status[r] = "ended" /\ "ended" \notin news[r]
        /\ news' = [news EXCEPT ![r] = @ \cup {"ended"}]
        /\ UNCHANGED snap
  /\ UNCHANGED <<pc, agent, active, unapproved, alerts, withdrawn, approved, live,
                 clip, capturing, defers, sharedVars>>

\* The snapshot must still show a waiting request, of the viewer and for the
\* owner the entry names.  Anything else returns without touching the node: other
\* names, another status, no snapshot; and as the select takes any case that is
\* ready, so may a snapshot that came with its node's end or the timeout.
CheckSnapshot(r) ==
  /\ At(r, "snapshot")
  /\ \/ snap[r] = "waiting" /\ Jump(r, "acquire") /\ UNCHANGED <<news, withdrawn>>
     \/ Return(r)
  /\ snap' = [snap EXCEPT ![r] = "none"]
  /\ UNCHANGED <<agent, active, unapproved, alerts, approved, live, clip, capturing,
                 defers, sharedVars>>

\* A fault: the slot is taken without looking.
AcquireBlindly(r) ==
  /\ At(r, "acquire")
  /\ active' = TRUE
  /\ defers' = [defers EXCEPT ![r] = {"slot"}]
  /\ Jump(r, "mark")
  /\ UNCHANGED <<agent, unapproved, alerts, snap, news, withdrawn, approved, live,
                 clip, capturing, sharedVars>>

\* acquire(): declined while another session is pending or active.
Acquire(r) ==
  /\ At(r, "acquire") /\ ~active
  /\ active' = TRUE
  /\ defers' = [defers EXCEPT ![r] = {"slot"}]
  /\ Jump(r, "mark")
  /\ UNCHANGED <<agent, unapproved, alerts, snap, news, withdrawn, approved, live,
                 clip, capturing, sharedVars>>

Decline(r) ==
  /\ At(r, "acquire") /\ active
  /\ Jump(r, "finish")
  /\ UNCHANGED <<coreVars, sharedVars>>

-----------------------------------------------------------------------------
\* The operator's answer.

MarkConnecting(r) ==
  /\ At(r, "mark")
  /\ TrySetStatus(r, "connecting")
  /\ Jump(r, "prepare")
  /\ UNCHANGED <<coreVars, posted, inbox, link>>

\* prepare(): the peer starts gathering candidates before the question.
Prepare(r) ==
  /\ At(r, "prepare")
  /\ live' = [live EXCEPT ![r] = "open"]
  /\ defers' = [defers EXCEPT ![r] = @ \cup {"peer"}]
  /\ Jump(r, "asking")
  /\ UNCHANGED <<agent, active, unapproved, alerts, snap, news, withdrawn, approved,
                 clip, capturing, sharedVars>>

\* A fault: the early return comes before the slot's release is deferred.
PrepareFailsHoldingSlot(r) ==
  /\ At(r, "prepare")
  /\ Jump(r, "finish")
  /\ defers' = [defers EXCEPT ![r] = {}]
  /\ UNCHANGED <<agent, active, unapproved, alerts, snap, news, withdrawn, approved,
                 live, clip, capturing, sharedVars>>

PrepareFails(r) ==
  /\ At(r, "prepare")
  /\ Jump(r, "finish")
  /\ UNCHANGED <<coreVars, sharedVars>>

\* The watcher goroutine, while the question is up and until it notices that
\* the question is over.
Watch(r) ==
  /\ agent # "down" /\ pc[r] \in {"asking", "decide"}
  /\ news[r] # {} /\ ~withdrawn[r]
  /\ withdrawn' = [withdrawn EXCEPT ![r] = TRUE]
  /\ UNCHANGED <<pc, agent, active, unapproved, alerts, snap, news, approved, live,
                 clip, capturing, defers, sharedVars>>

\* noteConnectOutcome(), and the onRefusals it may start.
NoteConnectOutcome(yes) ==
  IF yes
  THEN unapproved' = 0 /\ UNCHANGED alerts
  ELSE IF unapproved + 1 < MaxUnapproved
       THEN unapproved' = unapproved + 1 /\ UNCHANGED alerts
       ELSE unapproved' = 0 /\ alerts' = alerts + 1

\* approver.Ask() returns: yes; no, silence or a question taken back.
AskReturns(r, yes) ==
  /\ At(r, "asking")
  /\ approved' = [approved EXCEPT ![r] = yes]
  /\ NoteConnectOutcome(yes)
  /\ Jump(r, "decide")
  /\ UNCHANGED <<agent, active, snap, news, withdrawn, live, clip, capturing, defers,
                 sharedVars>>

\* A fault: only a withdrawal is looked at, not the answer.
DecideByWithdrawal(r) ==
  /\ At(r, "decide")
  /\ \/ withdrawn[r] /\ Jump(r, "finish") /\ UNCHANGED clip
     \/ ~withdrawn[r] /\ Jump(r, "offer") /\ UNCHANGED clip
  /\ UNCHANGED <<agent, active, unapproved, alerts, snap, news, withdrawn, approved,
                 live, capturing, defers, sharedVars>>

\* A withdrawal outranks a yes.  run() starts with the clipboard worker, which
\* exists from the yes on; failing to start it is not fatal.
Decide(r) ==
  /\ At(r, "decide")
  /\ \/ /\ withdrawn[r] \/ ~approved[r]
        /\ Jump(r, "finish")
        /\ UNCHANGED clip
     \/ /\ approved[r] /\ ~withdrawn[r]
        /\ \E started \in BOOLEAN : clip' = [clip EXCEPT ![r] = started]
        /\ Jump(r, "offer")
  /\ UNCHANGED <<agent, active, unapproved, alerts, snap, news, withdrawn, approved,
                 live, capturing, defers, sharedVars>>

-----------------------------------------------------------------------------
\* run(): the negotiation and the connection.

PublishOffer(r) ==
  /\ At(r, "offer") /\ Writable(r)
  /\ posted' = [posted EXCEPT ![r] = @ \cup {"offer"}]
  /\ Jump(r, "await")
  /\ UNCHANGED <<coreVars, status, inbox, link>>

\* AwaitRemoteDescription() and SetRemoteDescription().
ReceiveAnswer(r) ==
  /\ At(r, "await") /\ "answer" \in posted[r]
  /\ Jump(r, "ice")
  /\ UNCHANGED <<coreVars, sharedVars>>

\* The two peers find a way to each other.
LinkComesUp(r) ==
  /\ At(r, "ice") /\ live[r] = "open" /\ link[r] = "new"
  /\ link' = [link EXCEPT ![r] = "up"]
  /\ UNCHANGED <<hostVars, status, posted, inbox>>

\* Negotiate() returns the connection: status = connected, and streamScreen()
\* starts its goroutine.
Connected(r) ==
  /\ At(r, "ice") /\ link[r] = "up"
  /\ TrySetStatus(r, "connected")
  /\ capturing' = [capturing EXCEPT ![r] = TRUE]
  /\ Jump(r, "streaming")
  /\ UNCHANGED <<agent, active, unapproved, alerts, snap, news, withdrawn, approved,
                 live, clip, defers, posted, inbox, link>>

\* A fault: the wait for the answer does not look at Gone().
NegotiationFailsNoGone(r) ==
  /\ \/ At(r, "offer")
     \/ At(r, "await") /\ Cancelled
     \/ At(r, "ice") /\ (link[r] # "up" \/ Cancelled)
  /\ ReleasePeer(r)
  /\ Jump(r, "finish")
  /\ UNCHANGED <<agent, active, unapproved, alerts, snap, news, withdrawn, approved,
                 capturing, defers, status, posted, inbox>>

\* Negotiate() fails: the offer is refused or lost, the node goes while the
\* answer is awaited, the peers cannot reach each other, the agent stops.
NegotiationFails(r) ==
  /\ \/ At(r, "offer")
     \/ At(r, "await") /\ ("gone" \in news[r] \/ Cancelled)
     \/ At(r, "ice") /\ (link[r] # "up" \/ Cancelled)
  /\ ReleasePeer(r)
  /\ Jump(r, "finish")
  /\ UNCHANGED <<agent, active, unapproved, alerts, snap, news, withdrawn, approved,
                 capturing, defers, status, posted, inbox>>

\* OnClose of the file channel: a connection that was up has been lost.
FileChannelCloses(r) ==
  /\ At(r, "streaming") /\ clip[r] /\ link[r] = "lost"
  /\ clip' = [clip EXCEPT ![r] = FALSE]
  /\ UNCHANGED <<pc, agent, active, unapproved, alerts, snap, news, withdrawn, approved,
                 live, capturing, defers, sharedVars>>

\* The connection ends: the peer failed or closed, the node went, the agent stops.
ConnectionEnds(r) ==
  /\ At(r, "streaming")
  /\ link[r] = "lost" \/ "gone" \in news[r] \/ Cancelled
  /\ ReleasePeer(r)
  /\ Jump(r, "finish")
  /\ UNCHANGED <<agent, active, unapproved, alerts, snap, news, withdrawn, approved,
                 capturing, defers, status, posted, inbox>>

\* The capture goroutine ends with the session's context, which Run cancels
\* last, or as soon as a frame cannot be written.
CaptureStops(r) ==
  /\ agent # "down" /\ capturing[r]
  /\ pc[r] = "done" \/ live[r] = "released" \/ link[r] = "lost" \/ Cancelled
  /\ capturing' = [capturing EXCEPT ![r] = FALSE]
  /\ UNCHANGED <<pc, agent, active, unapproved, alerts, snap, news, withdrawn, approved,
                 live, clip, defers, sharedVars>>

-----------------------------------------------------------------------------
\* finish(), and the deferred calls in the reverse of the order they were made.

WriteEndedStatus(r) ==
  /\ At(r, "finish")
  /\ TrySetStatus(r, "ended")
  /\ Jump(r, "delete")
  /\ UNCHANGED <<coreVars, posted, inbox, link>>

\* The inbox entry is deleted once more; it has been consumed already.
DeleteNodes(r) ==
  /\ At(r, "delete")
  /\ DeleteNode(r) \/ UNCHANGED <<status, posted>>
  /\ Jump(r, "return")
  /\ UNCHANGED <<coreVars, inbox, link>>

ReleaseDeferred(r) ==
  /\ At(r, "return") /\ "peer" \in defers[r]
  /\ ReleasePeer(r)
  /\ defers' = [defers EXCEPT ![r] = @ \ {"peer"}]
  /\ UNCHANGED <<pc, agent, active, unapproved, alerts, snap, news, withdrawn, approved,
                 capturing, status, posted, inbox>>

\* A fault: the release of the slot is deferred after that of the peer, and so
\* runs first.
FreeSlotFirst(r) ==
  /\ At(r, "return") /\ "slot" \in defers[r]
  /\ active' = FALSE
  /\ defers' = [defers EXCEPT ![r] = @ \ {"slot"}]
  /\ UNCHANGED <<pc, agent, unapproved, alerts, snap, news, withdrawn, approved, live,
                 clip, capturing, sharedVars>>

FreeSlot(r) ==
  /\ At(r, "return") /\ defers[r] = {"slot"}
  /\ active' = FALSE
  /\ defers' = [defers EXCEPT ![r] = {}]
  /\ Return(r)
  /\ UNCHANGED <<agent, unapproved, alerts, snap, approved, live, clip, capturing,
                 sharedVars>>

ReturnDeclined(r) ==
  /\ At(r, "return") /\ defers[r] = {}
  /\ Return(r)
  /\ UNCHANGED <<agent, active, unapproved, alerts, snap, approved, live, clip,
                 capturing, defers, sharedVars>>

-----------------------------------------------------------------------------
\* The agent's process.

\* Ctrl+C, the window's close button, a sign-out: the context is cancelled.
Shutdown ==
  /\ agent = "up"
  /\ agent' = "stopping"
  /\ UNCHANGED <<pc, active, unapproved, alerts, snap, news, withdrawn, approved, live,
                 clip, capturing, defers, sharedVars>>

\* The process ends: main has waited for the sessions (sessionDrainTimeout at
\* most), or it is killed.  Nothing of it remains but what it wrote.
ProcessEnds ==
  /\ agent # "down"
  /\ agent' = "down"
  /\ pc' = [r \in Requests |-> IF pc[r] = "idle" THEN "idle" ELSE "done"]
  /\ active' = FALSE
  /\ live' = [r \in Requests |-> IF live[r] = "open" THEN "released" ELSE live[r]]
  /\ clip' = [r \in Requests |-> FALSE]
  /\ capturing' = [r \in Requests |-> FALSE]
  /\ defers' = [r \in Requests |-> {}]
  /\ link' = [r \in Requests |-> "lost"]
  /\ snap' = [r \in Requests |-> "none"]
  /\ news' = [r \in Requests |-> {}]
  /\ withdrawn' = [r \in Requests |-> FALSE]
  /\ UNCHANGED <<unapproved, alerts, approved, status, posted, inbox>>

HostNext(r) ==
  \/ Dispatch(r) \/ OpenStream(r) \/ StreamReports(r) \/ CheckSnapshot(r)
  \/ Acquire(r) \/ Decline(r) \/ MarkConnecting(r) \/ Prepare(r) \/ PrepareFails(r)
  \/ Watch(r) \/ (\E yes \in BOOLEAN : AskReturns(r, yes)) \/ Decide(r)
  \/ PublishOffer(r) \/ ReceiveAnswer(r) \/ LinkComesUp(r) \/ Connected(r)
  \/ NegotiationFails(r) \/ FileChannelCloses(r) \/ ConnectionEnds(r)
  \/ CaptureStops(r)
  \/ WriteEndedStatus(r) \/ DeleteNodes(r)
  \/ ReleaseDeferred(r) \/ FreeSlot(r) \/ ReturnDeclined(r)
=============================================================================
