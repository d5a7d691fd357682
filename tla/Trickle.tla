-------------------------------- MODULE Trickle --------------------------------
(***************************************************************************)
(* The exchange behind a connection: the host's Peer publishes its offer   *)
(* and candidates (internal/webrtc/connect.go), RTDBTransport reads the    *)
(* viewer's from the stream of the session node                            *)
(* (internal/signaling/rtdb_transport.go), and the page does the same on   *)
(* its side (useViewerConnection.ts).                                      *)
(***************************************************************************)
EXTENDS Naturals, Sequences, FiniteSets

CONSTANTS
  HostCandidates, ViewerCandidates,
  Buffer,     \* capacity of remoteCand
  MaxFaults   \* bound: calls that fail and connections that break

ASSUME TrickleAssumption ==
  /\ Buffer \in Nat \ {0} /\ MaxFaults \in Nat

VARIABLES
  node,     \* the session node
  peer,     \* Peer: publish is set, pending, gathered, the goroutines publishing
  call,     \* Negotiate: "prepared", "offered", "awaiting", "connecting", "over"
  stream,   \* the stream of the node: its events, and whether it is served
  run,      \* RTDBTransport.run: "reading", "draining", "reopen", "done"
  routing,  \* the candidates of the event being routed
  seenCand,
  remote,   \* remoteDesc and remoteCand
  gone,     \* Gone() is closed
  added,    \* how often a viewer's candidate reached AddICECandidate
  page,     \* the viewer: its step, and the host candidates pending and applied
  lost,     \* auxiliary: the candidates whose publication failed
  faults

transport == <<stream, run, routing, seenCand, remote, gone>>
vars == <<node, peer, call, transport, added, page, lost, faults>>

Event(kind, answer, cands) == [kind |-> kind, answer |-> answer, cands |-> cands]
Whole == Event("put", node.answer, node.viewer)
Revoked == Event("auth_revoked", FALSE, {})
Spend == faults > 0 /\ faults' = faults - 1

\* A change of the node as an open stream reports it.
Sends(evs) == stream' = IF stream.up THEN [stream EXCEPT !.events = @ \o evs] ELSE stream

-----------------------------------------------------------------------------
\* pion gathers a candidate: straight to the transport once there is one, in a
\* goroutine of its own, else into the queue.
HasTransportAlways == TRUE
HasTransport == peer.publish

Gather(c) ==
  /\ c \notin peer.gathered /\ call # "over"
  /\ peer' = IF HasTransport
             THEN [peer EXCEPT !.gathered = @ \cup {c}, !.sending = @ \cup {c}]
             ELSE [peer EXCEPT !.gathered = @ \cup {c}, !.pending = @ \cup {c}]
  /\ UNCHANGED <<node, call, transport, added, page, lost, faults>>

PublishLocalDescription == node.there /\ node' = [node EXCEPT !.offer = TRUE]

\* A failure to publish ends the negotiation.
PublishOffer ==
  /\ call = "prepared"
  /\ \/ PublishLocalDescription /\ call' = "offered" /\ UNCHANGED faults
     \/ ~node.there /\ call' = "over" /\ UNCHANGED <<node, faults>>
     \/ Spend /\ call' = "over" /\ UNCHANGED node
  /\ UNCHANGED <<peer, transport, added, page, lost>>

\* startPublishing.
StartPublishingOnly ==
  /\ call = "offered"
  /\ call' = "awaiting"
  /\ peer' = [peer EXCEPT !.publish = TRUE]
  /\ UNCHANGED <<node, transport, added, page, lost, faults>>

StartPublishing ==
  /\ call = "offered"
  /\ call' = "awaiting"
  /\ peer' = [peer EXCEPT !.publish = TRUE, !.sending = @ \cup peer.pending, !.pending = {}]
  /\ UNCHANGED <<node, transport, added, page, lost, faults>>

\* One goroutine's PublishLocalCandidate: a failure is nobody's concern.
Publish(c) ==
  /\ c \in peer.sending
  /\ peer' = [peer EXCEPT !.sending = @ \ {c}]
  /\ \/ /\ node.there /\ call # "over"
        /\ node' = [node EXCEPT !.host = @ \cup {c}]
        /\ UNCHANGED <<lost, faults>>
     \/ /\ ~node.there \/ call = "over"
        /\ lost' = lost \cup {c} /\ UNCHANGED <<node, faults>>
     \/ Spend /\ lost' = lost \cup {c} /\ UNCHANGED node
  /\ UNCHANGED <<call, transport, added, page>>

\* AwaitRemoteDescription: the answer, and from then on the remote candidates
\* (startRemoteCandidates); or the node is gone.
Await ==
  /\ call = "awaiting"
  /\ \/ remote.answer = "waiting" /\ remote' = [remote EXCEPT !.answer = "taken"]
        /\ call' \in {"connecting", "over"}  \* SetRemoteDescription may refuse it
     \/ gone /\ call' = "over" /\ UNCHANGED remote
  /\ UNCHANGED <<node, peer, stream, run, routing, seenCand, gone, added, page, lost, faults>>

AddRemote ==
  /\ call = "connecting" /\ remote.cands # <<>>
  /\ added' = [added EXCEPT ![Head(remote.cands)] = @ + 1]
  /\ remote' = [remote EXCEPT !.cands = Tail(@)]
  /\ UNCHANGED <<node, peer, call, stream, run, routing, seenCand, gone, page, lost, faults>>

\* The context of the session ends: a timeout, a failed link, the operator, Close.
End ==
  /\ call # "over"
  /\ call' = "over"
  /\ UNCHANGED <<node, peer, transport, added, page, lost, faults>>

-----------------------------------------------------------------------------
\* emitDescription: a description is told once.
Described(ev) ==
  IF ev.answer /\ remote.answer = "none" THEN [remote EXCEPT !.answer = "waiting"] ELSE remote

MarkGone(when) == gone' = (gone \/ when)

\* run(): the next event, when the previous one has been routed: first its
\* description, then the candidates.
Receive ==
  /\ run = "reading" /\ routing = {} /\ stream.events # <<>>
  /\ LET ev == Head(stream.events)
     IN  /\ run' = CASE ev.kind = "auth_revoked" -> "draining"
                     [] ev.kind = "cancel" -> "done"
                     [] OTHER -> "reading"
         /\ MarkGone(ev.kind \in {"null", "cancel"})
         /\ remote' = Described(ev)
         /\ routing' = ev.cands
  /\ stream' = [stream EXCEPT !.events = Tail(@)]
  /\ UNCHANGED <<node, peer, call, seenCand, added, page, lost, faults>>

\* emitCandidate: one seen before is dropped; another waits for room.
Emitted(c) ==
  IF c \in seenCand THEN {remote.cands}
  ELSE IF Len(remote.cands) < Buffer THEN {Append(remote.cands, c)} ELSE {}

\* The candidates of an event in any order; the end of the context lets go of one.
Emit ==
  /\ \E c \in routing :
       \E cs \in Emitted(c) \cup {s \in {remote.cands} : call = "over"} :
         /\ routing' = routing \ {c}
         /\ seenCand' = seenCand \cup {c}
         /\ remote' = [remote EXCEPT !.cands = cs]
  /\ UNCHANGED <<node, peer, call, stream, run, gone, added, page, lost, faults>>

Drain ==
  /\ run = "draining" /\ stream.events # <<>>
  /\ stream' = [stream EXCEPT !.events = Tail(@)]
  /\ UNCHANGED <<node, peer, call, run, routing, seenCand, remote, gone, added, page, lost, faults>>

\* The channel of events is closed.
StreamOver ==
  /\ run \in {"reading", "draining"} /\ routing = {}
  /\ ~stream.up /\ stream.events = <<>>
  /\ run' = IF call = "over" THEN "done" ELSE "reopen"
  /\ UNCHANGED <<node, peer, call, stream, routing, seenCand, remote, gone, added, page, lost,
                 faults>>

\* A reopen that is denied: the node is no more.
DenialIsNothing == gone
DenialMeansGone == TRUE

\* The stream is opened again: the whole node once more, or no right to read it.
Reopen ==
  /\ run = "reopen"
  /\ \/ call = "over" /\ run' = "done" /\ UNCHANGED <<stream, gone, faults>>
     \/ /\ call # "over" /\ node.there
        /\ stream' = [up |-> TRUE, events |-> <<Whole>>]
        /\ run' = "reading"
        /\ UNCHANGED <<gone, faults>>
     \/ /\ call # "over" /\ ~node.there
        /\ gone' = DenialMeansGone /\ run' = "done" /\ UNCHANGED <<stream, faults>>
     \/ Spend /\ UNCHANGED <<stream, run, gone>>
  /\ UNCHANGED <<node, peer, call, routing, seenCand, remote, added, page, lost>>

\* The server ends the stream: a broken connection, or an expired token, which it
\* tells before or behind the changes it was sending.
StreamEnds ==
  /\ stream.up /\ Spend
  /\ \E evs \in {<<>>, stream.events, Append(stream.events, Revoked), <<Revoked>> \o stream.events} :
       stream' = [up |-> FALSE, events |-> evs]
  /\ UNCHANGED <<node, peer, call, run, routing, seenCand, remote, gone, added, page, lost>>

-----------------------------------------------------------------------------
\* The page: handleOffer, once, with the host's candidates kept until the remote
\* description is set; its own ones are pushed as they come.
TakeOffer ==
  /\ page.at = "waiting" /\ node.offer
  /\ page' = [page EXCEPT !.at = "setting"]
  /\ UNCHANGED <<node, peer, call, transport, added, lost, faults>>

SetRemote ==
  /\ page.at = "setting"
  /\ page' = [page EXCEPT !.at = "ready", !.applied = @ \cup page.pending, !.pending = {}]
  /\ UNCHANGED <<node, peer, call, transport, added, lost, faults>>

Answer ==
  /\ page.at = "ready" /\ node.there
  /\ page' = [page EXCEPT !.at = "answered"]
  /\ node' = [node EXCEPT !.answer = TRUE]
  /\ Sends(<<Event("put", TRUE, {})>>)
  /\ UNCHANGED <<peer, call, run, routing, seenCand, remote, gone, added, lost, faults>>

OnHostCandidate(c) ==
  /\ c \in node.host \ (page.pending \cup page.applied)
  /\ page' = IF page.at \in {"ready", "answered"} THEN [page EXCEPT !.applied = @ \cup {c}]
             ELSE [page EXCEPT !.pending = @ \cup {c}]
  /\ UNCHANGED <<node, peer, call, transport, added, lost, faults>>

AddViewerCandidate(c) ==
  /\ page.at \in {"ready", "answered"} /\ node.there /\ c \notin node.viewer
  /\ node' = [node EXCEPT !.viewer = @ \cup {c}]
  /\ Sends(<<Event("put", FALSE, {c})>>)
  /\ UNCHANGED <<peer, call, run, routing, seenCand, remote, gone, added, page, lost, faults>>

\* The viewer, or the agent's finish(), removes the node; nobody may read it then.
Delete ==
  /\ node.there
  /\ node' = [node EXCEPT !.there = FALSE, !.host = {}, !.viewer = {}, !.offer = FALSE,
                          !.answer = FALSE]
  /\ Sends(<<Event("null", FALSE, {}), Event("cancel", FALSE, {})>>)
  /\ UNCHANGED <<peer, call, run, routing, seenCand, remote, gone, added, page, lost, faults>>

-----------------------------------------------------------------------------
Init ==
  /\ node = [there |-> TRUE, offer |-> FALSE, answer |-> FALSE, host |-> {}, viewer |-> {}]
  /\ peer = [publish |-> FALSE, pending |-> {}, gathered |-> {}, sending |-> {}]
  /\ call = "prepared"
  /\ stream = [up |-> TRUE, events |-> <<Whole>>]
  /\ run = "reading" /\ routing = {} /\ seenCand = {} /\ gone = FALSE
  /\ remote = [answer |-> "none", cands |-> <<>>]
  /\ added = [c \in ViewerCandidates |-> 0]
  /\ page = [at |-> "waiting", pending |-> {}, applied |-> {}]
  /\ lost = {}
  /\ faults = MaxFaults

Transport == Receive \/ Emit \/ Drain \/ StreamOver \/ Reopen
Negotiate == PublishOffer \/ StartPublishing \/ Await \/ AddRemote

Next ==
  \/ \E c \in HostCandidates : Gather(c) \/ Publish(c) \/ OnHostCandidate(c)
  \/ Negotiate \/ End \/ Transport \/ StreamEnds
  \/ TakeOffer \/ SetRemote \/ Answer \/ Delete
  \/ \E c \in ViewerCandidates : AddViewerCandidate(c)

\* The goroutines and the page run, and their calls return; two ready cases of one
\* select are both taken in time.
Fairness ==
  /\ WF_vars(Transport) /\ WF_vars(PublishOffer \/ StartPublishing)
  /\ WF_vars(Await) /\ WF_vars(AddRemote)
  /\ \A c \in HostCandidates : WF_vars(Publish(c)) /\ WF_vars(OnHostCandidate(c))
  /\ WF_vars(TakeOffer) /\ WF_vars(SetRemote) /\ WF_vars(Answer)

Spec == Init /\ [][Next]_vars
FairSpec == Spec /\ Fairness

-----------------------------------------------------------------------------
Events == [kind : {"put", "null", "cancel", "auth_revoked"}, answer : BOOLEAN,
           cands : SUBSET ViewerCandidates]

TypeOK ==
  /\ node \in [there : BOOLEAN, offer : BOOLEAN, answer : BOOLEAN,
               host : SUBSET HostCandidates, viewer : SUBSET ViewerCandidates]
  /\ peer \in [publish : BOOLEAN, pending : SUBSET HostCandidates,
               gathered : SUBSET HostCandidates, sending : SUBSET HostCandidates]
  /\ call \in {"prepared", "offered", "awaiting", "connecting", "over"}
  /\ stream \in [up : BOOLEAN, events : Seq(Events)]
  /\ run \in {"reading", "draining", "reopen", "done"}
  /\ routing \subseteq ViewerCandidates /\ seenCand \subseteq ViewerCandidates
  /\ remote \in [answer : {"none", "waiting", "taken"}, cands : Seq(ViewerCandidates)]
  /\ Len(remote.cands) <= Buffer
  /\ gone \in BOOLEAN
  /\ added \in [ViewerCandidates -> Nat]
  /\ page \in [at : {"waiting", "setting", "ready", "answered"},
               pending : SUBSET HostCandidates, applied : SUBSET HostCandidates]
  /\ lost \subseteq HostCandidates
  /\ faults \in 0..MaxFaults

\* startPublishing: "a candidate must never overtake the description it belongs
\* to", though every publication is a goroutine of its own.
NoOvertaking == node.host # {} => node.offer

\* candidate() and the page's pending queue: a candidate gathered at any moment of
\* the negotiation reaches the other side, unless its publication failed.
CandidatesArrive ==
  /\ \A c \in HostCandidates :
       c \in peer.gathered ~> (c \in page.applied \cup lost \/ call = "over" \/ ~node.there)
  /\ \A c \in ViewerCandidates :
       c \in node.viewer ~> (added[c] > 0 \/ call = "over" \/ ~node.there)

\* markGone: a node that is removed is told to the session, through a broken stream
\* as well.
GoneIsTold == ~node.there ~> (gone \/ call = "over")
=============================================================================
