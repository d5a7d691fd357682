----------------------------- MODULE TrickleProofs -----------------------------
(***************************************************************************)
(* A candidate never overtakes its description, for any candidates, any    *)
(* size of the buffer and any number of faults.                            *)
(*                                                                         *)
(* Each publication of a candidate is a goroutine of its own, so the order *)
(* is not in the goroutines but in when they can start: none does before   *)
(* startPublishing, and that comes after the offer is in the node.         *)
(***************************************************************************)
EXTENDS Trickle, TLAPS

\* When the peer publishes, and what the node has by then.
OrderInv ==
  /\ peer.sending # {} => peer.publish
  /\ peer.publish \/ call \in {"offered", "awaiting"} => (node.there => node.offer)
  /\ ~node.there => node.host = {}
  /\ NoOvertaking

Nodes == [there : BOOLEAN, offer : BOOLEAN, answer : BOOLEAN,
          host : SUBSET HostCandidates, viewer : SUBSET ViewerCandidates]
Peers == [publish : BOOLEAN, pending : SUBSET HostCandidates,
          gathered : SUBSET HostCandidates, sending : SUBSET HostCandidates]
Pages == [at : {"waiting", "setting", "ready", "answered"},
          pending : SUBSET HostCandidates, applied : SUBSET HostCandidates]
Remotes == [answer : {"none", "waiting", "taken"}, cands : Seq(ViewerCandidates)]
Streams == [up : BOOLEAN, events : Seq(Events)]

\* What an event may be, and what becomes of a stream.
LEMMA EventShape ==
  ASSUME NEW kind \in {"put", "null", "cancel", "auth_revoked"}, NEW answer \in BOOLEAN,
         NEW cands \in SUBSET ViewerCandidates
  PROVE  Event(kind, answer, cands) \in Events
  BY DEF Event, Events

LEMMA SentShape ==
  ASSUME NEW a \in Events, NEW s \in Seq(Events)
  PROVE  {<<>>, s, Append(s, a), <<a>> \o s} \subseteq Seq(Events)
  OBVIOUS

LEMMA BothShape ==
  ASSUME NEW a \in Events, NEW b \in Events
  PROVE  <<a>> \in Seq(Events) /\ <<a, b>> \in Seq(Events)
  OBVIOUS

LEMMA StreamShape ==
  ASSUME stream \in Streams, NEW evs \in Seq(Events), NEW up \in BOOLEAN,
         stream' \in {[stream EXCEPT !.events = evs], [up |-> up, events |-> evs]}
  PROVE  stream' \in Streams
  BY DEF Streams

LEMMA SendsShape ==
  ASSUME stream \in Streams, NEW evs \in Seq(Events), Sends(evs)
  PROVE  stream' \in Streams
<1>longer. stream.events \o evs \in Seq(Events)
  BY DEF Streams
<1> QED
  BY <1>longer, StreamShape DEF Sends

LEMMA NodeStep == ASSUME node \in Nodes, [Next]_vars PROVE node' \in Nodes
<1> USE DEF Nodes
<1>offers. CASE PublishOffer
  BY <1>offers DEF PublishOffer, PublishLocalDescription
<1>publishes. ASSUME NEW c \in HostCandidates, Publish(c) PROVE node' \in Nodes
  BY <1>publishes DEF Publish
<1>answers. CASE Answer
  BY <1>answers DEF Answer
<1>adds. ASSUME NEW c \in ViewerCandidates, AddViewerCandidate(c) PROVE node' \in Nodes
  BY <1>adds DEF AddViewerCandidate
<1>deletes. CASE Delete
  BY <1>deletes DEF Delete
<1>others. CASE \/ \E c \in HostCandidates : Gather(c) \/ OnHostCandidate(c)
                \/ StartPublishing \/ Await \/ AddRemote \/ End \/ Transport \/ StreamEnds
                \/ TakeOffer \/ SetRemote \/ UNCHANGED vars
  <2> UNCHANGED node
    BY <1>others DEF Gather, OnHostCandidate, StartPublishing, Await, AddRemote, End, Transport,
                     Receive, Described, MarkGone, Emit, Drain, StreamOver, Reopen, StreamEnds,
                     TakeOffer, SetRemote, vars
  <2> QED
    OBVIOUS
<1> QED
  BY <1>offers, <1>publishes, <1>answers, <1>adds, <1>deletes, <1>others DEF Next, Negotiate

LEMMA StreamStep ==
  ASSUME node \in Nodes, stream \in Streams, [Next]_vars
  PROVE  stream' \in Streams
<1>reads. CASE Receive \/ Drain
  <2>left. stream' = [stream EXCEPT !.events = Tail(@)] /\ Tail(stream.events) \in Seq(Events)
    BY <1>reads DEF Receive, Described, MarkGone, Drain, Streams
  <2> QED
    BY <2>left, StreamShape
<1>reopens. CASE Reopen
  <2>whole. <<Whole>> \in Seq(Events)
    BY EventShape DEF Whole, Nodes
  <2>ways. stream' \in {stream, [up |-> TRUE, events |-> <<Whole>>]}
    BY <1>reopens DEF Reopen
  <2> QED
    BY <2>whole, <2>ways, StreamShape
<1>ends. CASE StreamEnds
  <2>pick. PICK evs \in {<<>>, stream.events, Append(stream.events, Revoked),
                         <<Revoked>> \o stream.events} :
             stream' = [up |-> FALSE, events |-> evs]
    BY <1>ends DEF StreamEnds
  <2>sent. stream.events \in Seq(Events)
    BY DEF Streams
  <2>revoked. Revoked \in Events
    BY DEF Revoked, Event, Events
  <2>events. evs \in Seq(Events)
    BY ONLY <2>pick, <2>sent, <2>revoked, SentShape
  <2> QED
    BY <2>pick, <2>events, StreamShape
<1>answers. CASE Answer
  <2>event. Event("put", TRUE, {}) \in Events
    BY DEF Event, Events
  <2>events. <<Event("put", TRUE, {})>> \in Seq(Events)
    BY ONLY <2>event, BothShape, Zenon
  <2> QED
    BY <1>answers, <2>events, SendsShape DEF Answer
<1>adds. ASSUME NEW c \in ViewerCandidates, AddViewerCandidate(c) PROVE stream' \in Streams
  <2>event. Event("put", FALSE, {c}) \in Events
    BY DEF Event, Events
  <2>events. <<Event("put", FALSE, {c})>> \in Seq(Events)
    BY ONLY <2>event, BothShape, Zenon
  <2> QED
    BY <1>adds, <2>events, SendsShape DEF AddViewerCandidate
<1>deletes. CASE Delete
  <2>both. Event("null", FALSE, {}) \in Events /\ Event("cancel", FALSE, {}) \in Events
    BY DEF Event, Events
  <2>events. <<Event("null", FALSE, {}), Event("cancel", FALSE, {})>> \in Seq(Events)
    BY ONLY <2>both, BothShape, Zenon
  <2> QED
    BY <1>deletes, <2>events, SendsShape DEF Delete
<1>others. CASE \/ \E c \in HostCandidates : Gather(c) \/ Publish(c) \/ OnHostCandidate(c)
                \/ Negotiate \/ End \/ Emit \/ StreamOver
                \/ TakeOffer \/ SetRemote \/ UNCHANGED vars
  <2> UNCHANGED stream
    BY <1>others DEF Gather, Publish, OnHostCandidate, Negotiate, PublishOffer,
                     PublishLocalDescription, StartPublishing, Await, AddRemote, End, Emit,
                     StreamOver, TakeOffer, SetRemote, vars, transport
  <2> QED
    OBVIOUS
<1> QED
  BY <1>reads, <1>reopens, <1>ends, <1>answers, <1>adds, <1>deletes, <1>others
    DEF Next, Transport

LEMMA PeerStep == ASSUME peer \in Peers, [Next]_vars PROVE peer' \in Peers
<1> USE DEF Peers
<1>gathers. ASSUME NEW c \in HostCandidates, Gather(c) PROVE peer' \in Peers
  BY <1>gathers DEF Gather
<1>begins. CASE StartPublishing
  BY <1>begins DEF StartPublishing
<1>publishes. ASSUME NEW c \in HostCandidates, Publish(c) PROVE peer' \in Peers
  BY <1>publishes DEF Publish
<1>others. CASE \/ \E c \in HostCandidates : OnHostCandidate(c)
                \/ \E c \in ViewerCandidates : AddViewerCandidate(c)
                \/ PublishOffer \/ Await \/ AddRemote \/ End \/ Transport \/ StreamEnds
                \/ TakeOffer \/ SetRemote \/ Answer \/ Delete \/ UNCHANGED vars
  <2> UNCHANGED peer
    BY <1>others DEF OnHostCandidate, AddViewerCandidate, PublishOffer, PublishLocalDescription,
                     Await, AddRemote, End, Transport, Receive, Described, MarkGone, Emit,
                     Drain, StreamOver, Reopen, StreamEnds, TakeOffer, SetRemote, Answer,
                     Delete, vars
  <2> QED
    OBVIOUS
<1> QED
  BY <1>gathers, <1>begins, <1>publishes, <1>others DEF Next, Negotiate

LEMMA PageStep == ASSUME page \in Pages, [Next]_vars PROVE page' \in Pages
<1> USE DEF Pages
<1>takes. CASE TakeOffer \/ SetRemote
  BY <1>takes DEF TakeOffer, SetRemote
<1>answers. CASE Answer
  BY <1>answers DEF Answer
<1>hears. ASSUME NEW c \in HostCandidates, OnHostCandidate(c) PROVE page' \in Pages
  BY <1>hears DEF OnHostCandidate
<1>others. CASE \/ \E c \in HostCandidates : Gather(c) \/ Publish(c)
                \/ \E c \in ViewerCandidates : AddViewerCandidate(c)
                \/ Negotiate \/ End \/ Transport \/ StreamEnds \/ Delete \/ UNCHANGED vars
  <2> UNCHANGED page
    BY <1>others DEF Gather, Publish, AddViewerCandidate, Negotiate, PublishOffer,
                     PublishLocalDescription, StartPublishing, Await, AddRemote, End, Transport,
                     Receive, Described, MarkGone, Emit, Drain, StreamOver, Reopen, StreamEnds,
                     Delete, vars
  <2> QED
    OBVIOUS
<1> QED
  BY <1>takes, <1>answers, <1>hears, <1>others DEF Next

\* What waits to be added: never more than the buffer holds.
RemoteOK ==
  /\ remote \in Remotes /\ Len(remote.cands) <= Buffer
  /\ added \in [ViewerCandidates -> Nat]

LEMMA RemoteStep ==
  ASSUME RemoteOK, routing \subseteq ViewerCandidates, [Next]_vars
  PROVE  RemoteOK'
<1> USE DEF RemoteOK, Remotes
<1>receives. CASE Receive
  <2>ways. remote' \in {remote, [remote EXCEPT !.answer = "waiting"]} /\ UNCHANGED added
    BY ONLY <1>receives DEF Receive, Described, MarkGone
  <2> QED
    BY ONLY <2>ways, RemoteOK DEF RemoteOK, Remotes
<1>emits. CASE Emit
  <2>pick. PICK c \in routing : \E cs \in Emitted(c) \cup {remote.cands} :
             remote' = [remote EXCEPT !.cands = cs]
    BY <1>emits DEF Emit
  <2>fits. \A cs \in Emitted(c) \cup {remote.cands} :
             cs \in Seq(ViewerCandidates) /\ Len(cs) <= Buffer
    <3>room. Len(remote.cands) < Buffer =>
               /\ Append(remote.cands, c) \in Seq(ViewerCandidates)
               /\ Len(Append(remote.cands, c)) <= Buffer
      BY TrickleAssumption
    <3> QED
      BY <3>room DEF Emitted
  <2> UNCHANGED added
    BY <1>emits DEF Emit
  <2> QED
    BY <2>pick, <2>fits
<1>adds. CASE AddRemote
  <2>head. /\ Head(remote.cands) \in ViewerCandidates
           /\ Tail(remote.cands) \in Seq(ViewerCandidates)
           /\ Len(Tail(remote.cands)) =< Buffer
    BY <1>adds, TrickleAssumption DEF AddRemote
  <2>remote. remote' = [remote EXCEPT !.cands = Tail(@)]
    BY <1>adds DEF AddRemote
  <2>added. added' \in [ViewerCandidates -> Nat]
    BY <1>adds, <2>head DEF AddRemote
  <2> QED
    BY <2>head, <2>remote, <2>added
<1>awaits. CASE Await
  <2>ways. remote' \in {remote, [remote EXCEPT !.answer = "taken"]} /\ UNCHANGED added
    BY ONLY <1>awaits DEF Await
  <2> QED
    BY ONLY <2>ways, RemoteOK DEF RemoteOK, Remotes
<1>others. CASE \/ \E c \in HostCandidates : Gather(c) \/ Publish(c) \/ OnHostCandidate(c)
                \/ \E c \in ViewerCandidates : AddViewerCandidate(c)
                \/ PublishOffer \/ StartPublishing \/ End \/ Drain \/ StreamOver \/ Reopen
                \/ StreamEnds \/ TakeOffer \/ SetRemote \/ Answer \/ Delete \/ UNCHANGED vars
  <2> UNCHANGED <<remote, added>>
    BY <1>others DEF Gather, Publish, OnHostCandidate, AddViewerCandidate, PublishOffer,
                     PublishLocalDescription, StartPublishing, End, Drain, StreamOver, Reopen,
                     StreamEnds, TakeOffer, SetRemote, Answer, Delete, vars, transport
  <2> QED
    OBVIOUS
<1> QED
  BY <1>receives, <1>emits, <1>adds, <1>awaits, <1>others DEF Next, Negotiate, Transport

\* Where the transport is, and the rest.
WhereOK ==
  /\ run \in {"reading", "draining", "reopen", "done"}
  /\ routing \subseteq ViewerCandidates /\ seenCand \subseteq ViewerCandidates
  /\ gone \in BOOLEAN
  /\ call \in {"prepared", "offered", "awaiting", "connecting", "over"}
  /\ lost \subseteq HostCandidates
  /\ faults \in 0..MaxFaults

LEMMA WhereStep ==
  ASSUME WhereOK, stream \in Streams, [Next]_vars
  PROVE  WhereOK'
<1> USE DEF WhereOK
<1>spends. Spend => faults' \in 0..MaxFaults
  BY TrickleAssumption DEF Spend
<1>receives. CASE Receive
  <2>some. stream.events \in Seq(Events) /\ stream.events # <<>>
    BY <1>receives DEF Receive, Described, MarkGone, Streams
  <2>head. Head(stream.events) \in Events
    BY ONLY <2>some
  <2>event. Head(stream.events).cands \subseteq ViewerCandidates
    BY ONLY <2>head DEF Events
  <2> QED
    BY <1>receives, <2>event DEF Receive, Described, MarkGone
<1>emits. CASE Emit
  BY <1>emits DEF Emit
<1>reads. CASE Drain \/ StreamOver \/ Reopen \/ StreamEnds
  BY <1>reads, <1>spends DEF Drain, StreamOver, Reopen, StreamEnds, DenialMeansGone
<1>negotiates. CASE PublishOffer \/ StartPublishing \/ Await \/ AddRemote \/ End
  BY <1>negotiates, <1>spends DEF PublishOffer, PublishLocalDescription, StartPublishing, Await,
                                  AddRemote, End, transport
<1>publishes. ASSUME NEW c \in HostCandidates, Publish(c) PROVE WhereOK'
  BY <1>publishes, <1>spends DEF Publish, transport
<1>others. CASE \/ \E c \in HostCandidates : Gather(c) \/ OnHostCandidate(c)
                \/ \E c \in ViewerCandidates : AddViewerCandidate(c)
                \/ TakeOffer \/ SetRemote \/ Answer \/ Delete \/ UNCHANGED vars
  <2> UNCHANGED <<run, routing, seenCand, gone, call, lost, faults>>
    BY <1>others DEF Gather, OnHostCandidate, AddViewerCandidate, TakeOffer, SetRemote, Answer,
         Delete, vars, transport
  <2> QED
    OBVIOUS
<1> QED
  BY <1>receives, <1>emits, <1>reads, <1>negotiates, <1>publishes, <1>others
     DEF Next, Negotiate, Transport

LEMMA TypeParts ==
  TypeOK <=> /\ node \in Nodes /\ stream \in Streams /\ peer \in Peers /\ page \in Pages
             /\ RemoteOK /\ WhereOK
  BY DEF TypeOK, Nodes, Streams, Peers, Pages, RemoteOK, Remotes, WhereOK

\* connect.go, rtdb_transport.go, useViewerConnection.ts: what either side keeps has
\* its form, and no more than the buffer waits to be added.
THEOREM TypeCorrect == Spec => []TypeOK
<1>starts. Init => TypeOK
  <2> SUFFICES ASSUME Init PROVE TypeOK
    OBVIOUS
  <2>node. node \in Nodes
    BY DEF Init, Nodes
  <2>stream. stream \in Streams
    <3>whole. <<Whole>> \in Seq(Events)
      BY <2>node, EventShape DEF Whole, Nodes
    <3> QED
      BY <3>whole DEF Init, Streams
  <2>ends. peer \in Peers /\ page \in Pages
    BY DEF Init, Peers, Pages
  <2>remote. RemoteOK
    BY TrickleAssumption DEF Init, RemoteOK, Remotes
  <2>faults. faults \in 0..MaxFaults
    BY TrickleAssumption DEF Init
  <2>where. WhereOK
    BY <2>faults DEF Init, WhereOK
  <2> QED
    BY <2>node, <2>stream, <2>ends, <2>remote, <2>where, TypeParts
<1>keeps. TypeOK /\ [Next]_vars => TypeOK'
  <2> SUFFICES ASSUME TypeOK, [Next]_vars PROVE TypeOK'
    OBVIOUS
  <2>parts. /\ node \in Nodes /\ stream \in Streams /\ peer \in Peers /\ page \in Pages
            /\ RemoteOK /\ WhereOK
    BY TypeParts
  <2>routes. routing \subseteq ViewerCandidates
    BY <2>parts DEF WhereOK
  <2>next. /\ node' \in Nodes /\ stream' \in Streams /\ peer' \in Peers /\ page' \in Pages
           /\ RemoteOK' /\ WhereOK'
    BY <2>parts, <2>routes, NodeStep, StreamStep, PeerStep, PageStep, RemoteStep, WhereStep
  <2> QED
    BY <2>next DEF TypeOK, Nodes, Streams, Peers, Pages, RemoteOK, Remotes, WhereOK
<1> QED
  BY <1>starts, <1>keeps, PTL DEF Spec

-----------------------------------------------------------------------------
LEMMA OrderStep == TypeOK /\ OrderInv /\ [Next]_vars => OrderInv'
<1> SUFFICES ASSUME TypeOK, OrderInv, [Next]_vars PROVE OrderInv'
  OBVIOUS
<1> USE DEF OrderInv, NoOvertaking, TypeOK
<1>gathers. ASSUME NEW c \in HostCandidates, Gather(c) PROVE OrderInv'
  BY <1>gathers DEF Gather, HasTransport
<1>offers. CASE PublishOffer
  BY <1>offers DEF PublishOffer, PublishLocalDescription, transport
<1>begins. CASE StartPublishing
  BY <1>begins DEF StartPublishing, transport
<1>publishes. ASSUME NEW c \in HostCandidates, Publish(c) PROVE OrderInv'
  BY <1>publishes DEF Publish, transport
<1>awaits. CASE Await
  BY <1>awaits DEF Await
<1>ends. CASE End
  BY <1>ends DEF End
<1>answers. CASE Answer
  BY <1>answers DEF Answer
<1>adds. ASSUME NEW c \in ViewerCandidates, AddViewerCandidate(c) PROVE OrderInv'
  BY <1>adds DEF AddViewerCandidate
<1>deletes. CASE Delete
  BY <1>deletes DEF Delete
<1>others. CASE \/ \E c \in HostCandidates : OnHostCandidate(c)
                \/ AddRemote \/ Transport \/ StreamEnds \/ TakeOffer \/ SetRemote \/ UNCHANGED vars
  BY <1>others DEF OnHostCandidate, AddRemote, Transport, Receive, Described, MarkGone, Emit,
                   Drain, StreamOver, Reopen, StreamEnds, TakeOffer, SetRemote, vars
<1> QED
  BY <1>gathers, <1>offers, <1>begins, <1>publishes, <1>awaits, <1>ends, <1>answers, <1>adds,
     <1>deletes, <1>others DEF Next, Negotiate

\* startPublishing: whatever pion gathers and whenever, no candidate of the host is
\* in the node before the offer it belongs to.
THEOREM CandidatesFollow == Spec => []NoOvertaking
<1>starts. Init => OrderInv
  BY DEF Init, OrderInv, NoOvertaking
<1>keeps. TypeOK /\ OrderInv /\ [Next]_vars => OrderInv'
  BY OrderStep
<1>shows. OrderInv => NoOvertaking
  BY DEF OrderInv
<1> QED
  BY <1>starts, <1>keeps, <1>shows, TypeCorrect, PTL DEF Spec

-----------------------------------------------------------------------------
\* The host's candidates: where one that was gathered can be.

\* candidate() and startPublishing on one side, the pending queue of the page on the
\* other: a candidate is in a queue only while somebody is still going to empty it.
OwnKept(c) ==
  \/ c \in peer.pending /\ call \in {"prepared", "offered", "over"}
  \/ c \in peer.sending \cup lost
  \/ c \in node.host \/ ~node.there
  \/ c \in page.pending /\ page.at \in {"waiting", "setting"}
  \/ c \in page.applied

OwnCandidatesKept == \A c \in peer.gathered : OwnKept(c)

\* Once the transport is known nothing is queued, on either side.
QueuesInv ==
  /\ call \in {"awaiting", "connecting"} => peer.publish
  /\ peer.publish => peer.pending = {}
  /\ page.at \in {"ready", "answered"} => page.pending = {}

LEMMA QueuesStep ==
  ASSUME TypeOK, QueuesInv, [Next]_vars
  PROVE  QueuesInv'
<1> USE DEF QueuesInv
<1>types. peer \in Peers /\ page \in Pages
  BY TypeParts
<1>gathers. ASSUME NEW c \in HostCandidates, Gather(c) PROVE QueuesInv'
  BY <1>types, <1>gathers DEF Gather, HasTransport, Peers
<1>begins. CASE StartPublishing
  BY <1>types, <1>begins DEF StartPublishing, Peers
<1>publishes. ASSUME NEW c \in HostCandidates, Publish(c) PROVE QueuesInv'
  BY <1>types, <1>publishes DEF Publish, Peers
<1>negotiates. CASE PublishOffer \/ Await \/ AddRemote \/ End
  BY <1>negotiates DEF PublishOffer, Await, AddRemote, End
<1>page. CASE TakeOffer \/ SetRemote \/ Answer
  BY <1>types, <1>page DEF TakeOffer, SetRemote, Answer, Pages
<1>hears. ASSUME NEW c \in HostCandidates, OnHostCandidate(c) PROVE QueuesInv'
  BY <1>types, <1>hears DEF OnHostCandidate, Pages
<1>others. CASE \/ \E c \in ViewerCandidates : AddViewerCandidate(c)
                \/ Transport \/ StreamEnds \/ Delete \/ UNCHANGED vars
  <2> UNCHANGED <<peer, call, page>>
    BY <1>others DEF AddViewerCandidate, Transport, Receive, Emit, Drain, StreamOver, Reopen,
                     StreamEnds, Delete, vars
  <2> QED
    OBVIOUS
<1> QED
  BY <1>gathers, <1>begins, <1>publishes, <1>negotiates, <1>page, <1>hears, <1>others
     DEF Next, Negotiate

LEMMA OwnStep ==
  ASSUME TypeOK, QueuesInv, OwnCandidatesKept, [Next]_vars
  PROVE  OwnCandidatesKept'
<1> SUFFICES ASSUME NEW c \in peer'.gathered PROVE OwnKept(c)'
  BY DEF OwnCandidatesKept
<1>types. peer \in Peers /\ page \in Pages /\ node \in Nodes
  BY TypeParts
<1>was. c \in peer.gathered => OwnKept(c)
  BY DEF OwnCandidatesKept
<1>gathers. ASSUME NEW d \in HostCandidates, Gather(d) PROVE OwnKept(c)'
  <2>new. /\ peer'.pending = IF peer.publish THEN peer.pending ELSE peer.pending \cup {d}
          /\ peer'.sending = IF peer.publish THEN peer.sending \cup {d} ELSE peer.sending
          /\ peer'.gathered = peer.gathered \cup {d}
          /\ UNCHANGED <<call, node, page, lost>> /\ call # "over"
    BY <1>types, <1>gathers DEF Gather, HasTransport, Peers
  <2>early. ~peer.publish => call \in {"prepared", "offered"}
    BY <2>new DEF QueuesInv, TypeOK
  <2> QED
    BY <1>was, <2>new, <2>early DEF OwnKept
<1>begins. CASE StartPublishing
  <2>new. /\ peer'.pending = {} /\ peer'.sending = peer.sending \cup peer.pending
          /\ peer'.gathered = peer.gathered
          /\ UNCHANGED <<node, page, lost>>
    BY <1>types, <1>begins DEF StartPublishing, Peers
  <2> QED
    BY <1>was, <2>new DEF OwnKept
<1>publishes. ASSUME NEW d \in HostCandidates, Publish(d) PROVE OwnKept(c)'
  <2>peer. /\ peer'.pending = peer.pending /\ peer'.sending = peer.sending \ {d}
           /\ peer'.gathered = peer.gathered /\ UNCHANGED <<call, page>>
    BY <1>types, <1>publishes DEF Publish, Peers
  <2>where. \/ node'.host = node.host \cup {d} /\ node'.there = node.there /\ lost' = lost
            \/ node' = node /\ lost' = lost \cup {d}
    BY <1>types, <1>publishes DEF Publish, Nodes
  <2> QED
    BY <1>was, <2>peer, <2>where DEF OwnKept
<1>calls. CASE PublishOffer \/ Await \/ AddRemote \/ End
  <2>node. node'.host = node.host /\ node'.there = node.there
    BY <1>types, <1>calls
       DEF PublishOffer, PublishLocalDescription, Await, AddRemote, End, Nodes
  <2>same. UNCHANGED <<peer, page, lost>>
    BY <1>calls DEF PublishOffer, Await, AddRemote, End
  <2>when. \/ call' \in {"prepared", "offered", "over"}
           \/ call \in {"awaiting", "connecting"}
    BY <1>calls DEF PublishOffer, Await, AddRemote, End
  <2> QED
    BY <1>was, <2>node, <2>same, <2>when DEF OwnKept
<1>page. CASE TakeOffer \/ SetRemote \/ Answer
  <2>page. \/ /\ page.at \in {"waiting", "setting"} /\ page'.at = "setting"
              /\ page'.pending = page.pending /\ page'.applied = page.applied
           \/ page'.applied = page.applied \cup page.pending
           \/ /\ page.at = "ready" /\ page'.applied = page.applied
    BY <1>types, <1>page DEF TakeOffer, SetRemote, Answer, Pages
  <2>node. node'.host = node.host /\ node'.there = node.there
    BY <1>types, <1>page DEF TakeOffer, SetRemote, Answer, Nodes
  <2>same. UNCHANGED <<peer, call, lost>>
    BY <1>page DEF TakeOffer, SetRemote, Answer
  <2> QED
    BY <1>was, <2>page, <2>node, <2>same DEF OwnKept
<1>hears. ASSUME NEW d \in HostCandidates, OnHostCandidate(d) PROVE OwnKept(c)'
  <2>page. page'.at = page.at /\ page.pending \subseteq page'.pending
           /\ page.applied \subseteq page'.applied
    BY <1>types, <1>hears DEF OnHostCandidate, Pages
  <2>same. UNCHANGED <<peer, call, lost, node>>
    BY <1>hears DEF OnHostCandidate
  <2> QED
    BY <1>was, <2>page, <2>same DEF OwnKept
<1>deletes. CASE Delete
  BY <1>types, <1>deletes DEF Delete, Nodes, OwnKept
<1>others. CASE \/ \E d \in ViewerCandidates : AddViewerCandidate(d)
                \/ Transport \/ StreamEnds \/ UNCHANGED vars
  <2>node. node'.host = node.host /\ node'.there = node.there
    BY <1>types, <1>others DEF AddViewerCandidate, Transport, Receive, Emit, Drain, StreamOver,
                               Reopen, StreamEnds, vars, Nodes
  <2>same. UNCHANGED <<peer, call, page, lost>>
    BY <1>others DEF AddViewerCandidate, Transport, Receive, Emit, Drain, StreamOver, Reopen,
                     StreamEnds, vars
  <2> QED
    BY <1>was, <2>node, <2>same DEF OwnKept
<1> QED
  BY <1>gathers, <1>begins, <1>publishes, <1>calls, <1>page, <1>hears, <1>deletes, <1>others
     DEF Next, Negotiate

\* candidate(), startPublishing and the page's pending queue: a candidate gathered at
\* whatever moment is on its way or was applied, as long as the node is there, unless
\* its publication failed or the negotiation ended before it was to be published.
THEOREM HostCandidatesAreKept == Spec => []OwnCandidatesKept
<1>starts. Init => QueuesInv /\ OwnCandidatesKept
  BY DEF Init, QueuesInv, OwnCandidatesKept
<1>keeps. TypeOK /\ QueuesInv /\ OwnCandidatesKept /\ [Next]_vars
            => (QueuesInv /\ OwnCandidatesKept)'
  BY QueuesStep, OwnStep
<1> QED
  BY <1>starts, <1>keeps, TypeCorrect, PTL DEF Spec

-----------------------------------------------------------------------------
\* The viewer's candidates and the end of the node: what the transport has still to
\* hear.

\* What is on a sequence.
AllOf(s) == {s[k] : k \in DOMAIN s}

LEMMA AllOfJoin ==
  ASSUME NEW S, NEW s \in Seq(S), NEW t \in Seq(S)
  PROVE  AllOf(s \o t) = AllOf(s) \cup AllOf(t)
<1>long. /\ DOMAIN (s \o t) = 1..Len(s) + Len(t) /\ DOMAIN s = 1..Len(s) /\ DOMAIN t = 1..Len(t)
         /\ Len(s) \in Nat /\ Len(t) \in Nat
  OBVIOUS
<1>left. \A k \in 1..Len(s) : k \in 1..Len(s) + Len(t) /\ (s \o t)[k] = s[k]
  OBVIOUS
<1>right. \A k \in 1..Len(t) : Len(s) + k \in 1..Len(s) + Len(t) /\ (s \o t)[Len(s) + k] = t[k]
  OBVIOUS
<1>none. \A k \in 1..Len(s) + Len(t) :
           \/ k \in 1..Len(s)
           \/ k - Len(s) \in 1..Len(t) /\ k = Len(s) + (k - Len(s))
  BY <1>long
<1>from. ASSUME NEW x \in AllOf(s \o t) PROVE x \in AllOf(s) \cup AllOf(t)
  <2>pick. PICK k \in 1..Len(s) + Len(t) : x = (s \o t)[k]
    BY <1>long DEF AllOf
  <2>here. CASE k \in 1..Len(s)
    BY <1>left, <1>long, <2>pick, <2>here DEF AllOf
  <2>there. CASE k - Len(s) \in 1..Len(t) /\ k = Len(s) + (k - Len(s))
    BY <1>right, <1>long, <2>pick, <2>there DEF AllOf
  <2> QED
    BY <1>none, <2>here, <2>there
<1>to. AllOf(s) \cup AllOf(t) \subseteq AllOf(s \o t)
  BY <1>long, <1>left, <1>right DEF AllOf
<1> QED
  BY <1>from, <1>to

LEMMA AllOfTail ==
  ASSUME NEW S, NEW s \in Seq(S), s # <<>>
  PROVE  AllOf(s) = {Head(s)} \cup AllOf(Tail(s))
<1>one. <<Head(s)>> \in Seq(S) /\ Tail(s) \in Seq(S) /\ s = <<Head(s)>> \o Tail(s)
  OBVIOUS
<1>first. AllOf(<<Head(s)>>) = {Head(s)}
  BY DEF AllOf
<1>join. AllOf(<<Head(s)>> \o Tail(s)) = AllOf(<<Head(s)>>) \cup AllOf(Tail(s))
  BY <1>one, AllOfJoin
<1> QED
  BY <1>one, <1>first, <1>join

LEMMA AllOfFew ==
  ASSUME NEW a, NEW b
  PROVE  AllOf(<<>>) = {} /\ AllOf(<<a>>) = {a} /\ AllOf(<<a, b>>) = {a, b}
  BY DEF AllOf

LEMMA AllOfAppend ==
  ASSUME NEW S, NEW s \in Seq(S), NEW a \in S
  PROVE  AllOf(Append(s, a)) = AllOf(s) \cup {a}
<1>one. <<a>> \in Seq(S) /\ Append(s, a) = s \o <<a>>
  OBVIOUS
<1>join. AllOf(s \o <<a>>) = AllOf(s) \cup AllOf(<<a>>)
  BY <1>one, AllOfJoin
<1> QED
  BY <1>one, <1>join, AllOfFew

LEMMA AllOfBehind ==
  ASSUME NEW S, NEW s \in Seq(S), NEW a \in S
  PROVE  AllOf(<<a>> \o s) = AllOf(s) \cup {a}
<1>one. <<a>> \in Seq(S)
  OBVIOUS
<1>join. AllOf(<<a>> \o s) = AllOf(<<a>>) \cup AllOf(s)
  BY <1>one, AllOfJoin
<1> QED
  BY <1>join, AllOfFew

\* The stream of the node is over, and another one follows.
Follows == ~stream.up /\ run # "done"

\* markGone(): that the node is gone was told to the session, or an event or the
\* opening of the next stream is going to tell.
GoneIsOwed ==
  ~node.there =>
    \/ gone \/ call = "over" \/ Follows
    \/ \E ev \in AllOf(stream.events) : ev.kind \in {"null", "cancel"}

\* What events say is so, and the transport stops for a reason.
StreamInv ==
  /\ run \in {"draining", "reopen"} => ~stream.up
  /\ run = "done" => call = "over" \/ gone
  /\ gone => ~node.there
  /\ ~node.there => node.viewer = {}
  /\ \A ev \in AllOf(stream.events) :
       /\ stream.up => ev.kind # "auth_revoked"
       /\ ev.kind \in {"null", "cancel"} => ~node.there

LEMMA SentTold ==
  ASSUME stream \in Streams, NEW evs \in Seq(Events), Sends(evs)
  PROVE  /\ stream'.up = stream.up
         /\ AllOf(stream'.events) = AllOf(stream.events) \cup (IF stream.up THEN AllOf(evs) ELSE {})
<1>was. stream.events \in Seq(Events)
  BY DEF Streams
<1>up. CASE stream.up
  <2>now. stream'.up = stream.up /\ stream'.events = stream.events \o evs
    BY <1>up DEF Sends, Streams
  <2> QED
    BY <1>up, <1>was, <2>now, AllOfJoin
<1>down. CASE ~stream.up
  BY <1>down DEF Sends
<1> QED
  BY <1>up, <1>down

LEMMA ReadTold ==
  ASSUME stream \in Streams, stream.events # <<>>, stream' = [stream EXCEPT !.events = Tail(@)]
  PROVE  /\ stream'.up = stream.up /\ Head(stream.events) \in Events
         /\ AllOf(stream.events) = {Head(stream.events)} \cup AllOf(stream'.events)
<1>was. stream.events \in Seq(Events) /\ stream'.up = stream.up /\ stream'.events = Tail(stream.events)
  BY DEF Streams
<1> QED
  BY <1>was, AllOfTail

LEMMA EndedTold ==
  ASSUME stream \in Streams, StreamEnds
  PROVE  ~stream'.up /\ AllOf(stream'.events) \subseteq AllOf(stream.events) \cup {Revoked}
<1>was. stream.events \in Seq(Events) /\ Revoked \in Events
  BY DEF Streams, Revoked, Event, Events
<1>ways. PICK evs \in {<<>>, stream.events, Append(stream.events, Revoked),
                       <<Revoked>> \o stream.events} :
           stream' = [up |-> FALSE, events |-> evs]
  BY DEF StreamEnds
<1>told. AllOf(evs) \subseteq AllOf(stream.events) \cup {Revoked}
  <2>more. /\ AllOf(Append(stream.events, Revoked)) = AllOf(stream.events) \cup {Revoked}
           /\ AllOf(<<Revoked>> \o stream.events) = AllOf(stream.events) \cup {Revoked}
    BY <1>was, AllOfAppend, AllOfBehind
  <2>none. AllOf(<<>>) = {}
    BY AllOfFew
  <2> QED
    BY ONLY <1>ways, <2>more, <2>none
<1> QED
  BY <1>ways, <1>told

\* A change of the node is on the stream if there is one.
LEMMA ChangesTold ==
  ASSUME stream \in Streams
  PROVE  /\ Answer => stream'.up = stream.up /\ AllOf(stream'.events) =
              AllOf(stream.events) \cup (IF stream.up THEN {Event("put", TRUE, {})} ELSE {})
         /\ Delete => stream'.up = stream.up /\ AllOf(stream'.events) =
              AllOf(stream.events) \cup
                (IF stream.up THEN {Event("null", FALSE, {}), Event("cancel", FALSE, {})} ELSE {})
         /\ \A c \in ViewerCandidates : AddViewerCandidate(c) =>
              stream'.up = stream.up /\ AllOf(stream'.events) =
                AllOf(stream.events) \cup (IF stream.up THEN {Event("put", FALSE, {c})} ELSE {})
<1>answers. ASSUME Answer
            PROVE  stream'.up = stream.up /\ AllOf(stream'.events) =
                     AllOf(stream.events) \cup (IF stream.up THEN {Event("put", TRUE, {})} ELSE {})
  <2>event. Event("put", TRUE, {}) \in Events
    BY DEF Event, Events
  <2>sent. <<Event("put", TRUE, {})>> \in Seq(Events) /\ Sends(<<Event("put", TRUE, {})>>)
    BY <1>answers, <2>event, BothShape DEF Answer
  <2> QED
    BY <2>sent, SentTold, AllOfFew
<1>deletes. ASSUME Delete
            PROVE  stream'.up = stream.up /\ AllOf(stream'.events) =
                     AllOf(stream.events) \cup
                       (IF stream.up THEN {Event("null", FALSE, {}), Event("cancel", FALSE, {})}
                        ELSE {})
  <2>both. Event("null", FALSE, {}) \in Events /\ Event("cancel", FALSE, {}) \in Events
    BY DEF Event, Events
  <2>seq. <<Event("null", FALSE, {}), Event("cancel", FALSE, {})>> \in Seq(Events)
    BY ONLY <2>both, BothShape, Zenon
  <2>sent. Sends(<<Event("null", FALSE, {}), Event("cancel", FALSE, {})>>)
    BY <1>deletes DEF Delete
  <2> QED
    BY <2>seq, <2>sent, SentTold, AllOfFew
<1>adds. ASSUME NEW c \in ViewerCandidates, AddViewerCandidate(c)
         PROVE  stream'.up = stream.up /\ AllOf(stream'.events) =
                  AllOf(stream.events) \cup (IF stream.up THEN {Event("put", FALSE, {c})} ELSE {})
  <2>event. Event("put", FALSE, {c}) \in Events
    BY DEF Event, Events
  <2>seq. <<Event("put", FALSE, {c})>> \in Seq(Events)
    BY ONLY <2>event, BothShape, Zenon
  <2>sent. Sends(<<Event("put", FALSE, {c})>>)
    BY <1>adds DEF AddViewerCandidate
  <2> QED
    BY <2>seq, <2>sent, SentTold, AllOfFew
<1> QED
  BY <1>answers, <1>deletes, <1>adds

LEMMA StreamInvStep ==
  ASSUME TypeOK, StreamInv, [Next]_vars
  PROVE  StreamInv'
<1> USE DEF StreamInv
<1>types. stream \in Streams /\ node \in Nodes /\ gone \in BOOLEAN
  BY TypeParts DEF WhereOK
<1>answers. CASE Answer
  <2>node. node'.there = node.there /\ node'.viewer = node.viewer /\ node.there
    BY <1>types, <1>answers DEF Answer, Nodes
  <2>same. UNCHANGED <<run, call, gone>>
    BY <1>answers DEF Answer
  <2>kind. Event("put", TRUE, {}).kind = "put"
    BY DEF Event
  <2> QED
    BY <1>types, <1>answers, <2>node, <2>same, <2>kind, ChangesTold
<1>adds. ASSUME NEW c \in ViewerCandidates, AddViewerCandidate(c) PROVE StreamInv'
  <2>node. node'.there = node.there /\ node.there
    BY <1>types, <1>adds DEF AddViewerCandidate, Nodes
  <2>same. UNCHANGED <<run, call, gone>>
    BY <1>adds DEF AddViewerCandidate
  <2>kind. Event("put", FALSE, {c}).kind = "put"
    BY DEF Event
  <2> QED
    BY <1>types, <1>adds, <2>node, <2>same, <2>kind, ChangesTold
<1>deletes. CASE Delete
  <2>node. ~node'.there /\ node'.viewer = {}
    BY <1>types, <1>deletes DEF Delete, Nodes
  <2>same. UNCHANGED <<run, call, gone>>
    BY <1>deletes DEF Delete
  <2>kind. Event("null", FALSE, {}).kind = "null" /\ Event("cancel", FALSE, {}).kind = "cancel"
    BY DEF Event
  <2> QED
    BY <1>types, <1>deletes, <2>node, <2>same, <2>kind, ChangesTold
<1>receives. CASE Receive
  <2>some. stream.events # <<>> /\ stream' = [stream EXCEPT !.events = Tail(@)]
    BY <1>receives DEF Receive
  <2>told. /\ stream'.up = stream.up /\ Head(stream.events) \in Events
           /\ AllOf(stream.events) = {Head(stream.events)} \cup AllOf(stream'.events)
    BY <1>types, <2>some, ReadTold
  <2>run. /\ run' \in {"reading", "draining", "done"}
          /\ run' = "draining" => Head(stream.events).kind = "auth_revoked"
          /\ run' = "done" => Head(stream.events).kind = "cancel"
          /\ gone' = (gone \/ Head(stream.events).kind \in {"null", "cancel"})
          /\ UNCHANGED <<node, call>>
    BY <1>receives DEF Receive, MarkGone
  <2> QED
    BY ONLY StreamInv, <2>told, <2>run
<1>drains. CASE Drain
  <2>some. stream.events # <<>> /\ stream' = [stream EXCEPT !.events = Tail(@)]
    BY <1>drains DEF Drain
  <2>told. stream'.up = stream.up /\ AllOf(stream'.events) \subseteq AllOf(stream.events)
    BY <1>types, <2>some, ReadTold
  <2>same. UNCHANGED <<node, run, call, gone>>
    BY <1>drains DEF Drain
  <2> QED
    BY ONLY StreamInv, <2>told, <2>same
<1>over. CASE StreamOver
  BY <1>over DEF StreamOver
<1>reopens. CASE Reopen
  <2>whole. Whole.kind = "put" /\ AllOf(<<Whole>>) = {Whole}
    BY AllOfFew DEF Whole, Event
  <2>ways. \/ /\ UNCHANGED stream /\ run' = "done" /\ (call' = "over" \/ gone')
              /\ gone' => gone \/ ~node.there
           \/ /\ stream'.up /\ stream'.events = <<Whole>> /\ run' = "reading" /\ UNCHANGED gone
           \/ UNCHANGED <<stream, run, gone>>
    BY <1>reopens DEF Reopen, DenialMeansGone
  <2>same. UNCHANGED <<node, call>>
    BY <1>reopens DEF Reopen
  <2> QED
    BY ONLY StreamInv, <2>whole, <2>ways, <2>same
<1>ends. CASE StreamEnds
  <2>kind. Revoked.kind = "auth_revoked"
    BY DEF Revoked, Event
  <2>same. UNCHANGED <<node, run, call, gone>>
    BY <1>ends DEF StreamEnds
  <2> QED
    BY ONLY StreamInv, <1>types, <1>ends, EndedTold, <2>kind, <2>same
<1>calls. CASE \/ Negotiate \/ End \/ Emit \/ TakeOffer \/ SetRemote
               \/ \E c \in HostCandidates : Gather(c) \/ Publish(c) \/ OnHostCandidate(c)
               \/ UNCHANGED vars
  <2>node. node'.there = node.there /\ node'.viewer = node.viewer
    BY <1>types, <1>calls
       DEF Negotiate, PublishOffer, PublishLocalDescription, StartPublishing, Await, AddRemote,
           End, Emit, TakeOffer, SetRemote, Gather, Publish, OnHostCandidate, vars, Nodes
  <2>same. UNCHANGED <<stream, run, gone>>
    BY <1>calls
       DEF Negotiate, PublishOffer, StartPublishing, Await, AddRemote, End, Emit, TakeOffer,
           SetRemote, Gather, Publish, OnHostCandidate, vars, transport
  <2>call. call = "over" => call' = "over"
    BY <1>calls
       DEF Negotiate, PublishOffer, StartPublishing, Await, AddRemote, End, Emit, TakeOffer,
           SetRemote, Gather, Publish, OnHostCandidate, vars, transport
  <2> QED
    BY ONLY StreamInv, <2>node, <2>same, <2>call
<1> QED
  BY <1>answers, <1>adds, <1>deletes, <1>receives, <1>drains, <1>over, <1>reopens, <1>ends,
     <1>calls DEF Next, Transport

LEMMA GoneStep ==
  ASSUME TypeOK, StreamInv, StreamInv', GoneIsOwed, [Next]_vars
  PROVE  GoneIsOwed'
<1> USE DEF GoneIsOwed, Follows
<1>types. stream \in Streams /\ node \in Nodes /\ gone \in BOOLEAN
  BY TypeParts DEF WhereOK
<1>adds. CASE Answer \/ \E c \in ViewerCandidates : AddViewerCandidate(c)
  <2>node. node'.there
    BY <1>types, <1>adds DEF Answer, AddViewerCandidate, Nodes
  <2> QED
    BY <2>node
<1>deletes. CASE Delete
  <2>same. UNCHANGED <<run, call, gone>>
    BY <1>deletes DEF Delete
  <2>kind. Event("null", FALSE, {}).kind = "null"
    BY DEF Event
  <2> QED
    BY <1>types, <1>deletes, <2>same, <2>kind, ChangesTold DEF StreamInv
<1>receives. CASE Receive
  <2>some. stream.events # <<>> /\ stream' = [stream EXCEPT !.events = Tail(@)]
    BY <1>receives DEF Receive
  <2>told. /\ stream'.up = stream.up /\ Head(stream.events) \in Events
           /\ AllOf(stream.events) = {Head(stream.events)} \cup AllOf(stream'.events)
    BY <1>types, <2>some, ReadTold
  <2>run. /\ run = "reading"
          /\ run' = "done" => Head(stream.events).kind = "cancel"
          /\ gone' = (gone \/ Head(stream.events).kind \in {"null", "cancel"})
          /\ UNCHANGED <<node, call>>
    BY <1>receives DEF Receive, MarkGone
  <2> QED
    BY ONLY GoneIsOwed, <2>told, <2>run DEF GoneIsOwed, Follows
<1>drains. CASE Drain
  <2>some. stream.events # <<>> /\ stream' = [stream EXCEPT !.events = Tail(@)]
    BY <1>drains DEF Drain
  <2>up. stream'.up = stream.up /\ run' = run /\ run = "draining"
    BY <1>types, <1>drains, <2>some, ReadTold DEF Drain
  <2> QED
    BY <2>up DEF StreamInv
<1>over. CASE StreamOver
  <2>told. AllOf(stream.events) = {}
    BY <1>over, AllOfFew DEF StreamOver
  <2>run. /\ UNCHANGED <<node, call, stream, gone>> /\ ~stream.up
          /\ run' = "reopen" \/ call = "over"
    BY <1>over DEF StreamOver
  <2> QED
    BY <2>told, <2>run
<1>reopens. CASE Reopen
  <2>ways. call = "over" \/ node.there \/ gone' \/ UNCHANGED <<stream, run, gone>>
    BY <1>reopens DEF Reopen, DenialMeansGone
  <2>same. UNCHANGED <<node, call>>
    BY <1>reopens DEF Reopen
  <2> QED
    BY <2>ways, <2>same
<1>ends. CASE StreamEnds
  <2>up. ~stream'.up
    BY <1>types, <1>ends, EndedTold
  <2>same. UNCHANGED <<node, run, call, gone>>
    BY <1>ends DEF StreamEnds
  <2> QED
    BY <2>up, <2>same DEF StreamInv
<1>calls. CASE \/ Negotiate \/ End \/ Emit \/ TakeOffer \/ SetRemote
               \/ \E c \in HostCandidates : Gather(c) \/ Publish(c) \/ OnHostCandidate(c)
               \/ UNCHANGED vars
  <2>node. node'.there = node.there
    BY <1>types, <1>calls
       DEF Negotiate, PublishOffer, PublishLocalDescription, StartPublishing, Await, AddRemote,
           End, Emit, TakeOffer, SetRemote, Gather, Publish, OnHostCandidate, vars, Nodes
  <2>same. UNCHANGED <<stream, run, gone>> /\ (call = "over" => call' = "over")
    BY <1>calls
       DEF Negotiate, PublishOffer, StartPublishing, Await, AddRemote, End, Emit, TakeOffer,
           SetRemote, Gather, Publish, OnHostCandidate, vars, transport
  <2> QED
    BY ONLY GoneIsOwed, <2>node, <2>same DEF GoneIsOwed, Follows
<1> QED
  BY <1>adds, <1>deletes, <1>receives, <1>drains, <1>over, <1>reopens, <1>ends, <1>calls
     DEF Next, Transport

\* Gone(): a node that was removed has been told to the session, or its transport has
\* still something to read that tells it, through a broken or a revoked stream as
\* well.  What is left to GoneIsTold is that the transport goes on.
THEOREM GoneIsNotMissed == Spec => []GoneIsOwed
<1>starts. Init => StreamInv /\ GoneIsOwed
  <2> SUFFICES ASSUME Init PROVE StreamInv /\ GoneIsOwed
    OBVIOUS
  <2>told. AllOf(stream.events) = {Whole} /\ Whole.kind = "put"
    BY AllOfFew DEF Init, Whole, Event
  <2> QED
    BY <2>told DEF Init, StreamInv, GoneIsOwed
<1>keeps. TypeOK /\ StreamInv /\ GoneIsOwed /\ [Next]_vars => (StreamInv /\ GoneIsOwed)'
  BY StreamInvStep, GoneStep
<1> QED
  BY <1>starts, <1>keeps, TypeCorrect, PTL DEF Spec

\* emitCandidate: one seen before is dropped only when it is, or was, in the buffer.
SeenInv ==
  \A c \in seenCand : call = "over" \/ added[c] > 0 \/ c \in AllOf(remote.cands)

TheirKept(c) ==
  \/ call = "over" \/ added[c] > 0
  \/ c \in AllOf(remote.cands) \/ c \in routing \/ Follows
  \/ \E ev \in AllOf(stream.events) : c \in ev.cands

\* A candidate in the node was added, or is somewhere on its way.
TheirCandidatesKept == \A c \in node.viewer : TheirKept(c)

\* What is in the buffer stays there or is added; and who was added stays so.
LEMMA BufferStep ==
  ASSUME TypeOK, [Next]_vars, NEW c \in ViewerCandidates,
         call = "over" \/ added[c] > 0 \/ c \in AllOf(remote.cands)
  PROVE  call' = "over" \/ added'[c] > 0 \/ c \in AllOf(remote'.cands)
<1>types. remote.cands \in Seq(ViewerCandidates) /\ remote \in Remotes /\ added \in [ViewerCandidates -> Nat]
  BY TypeParts DEF RemoteOK, Remotes
<1>adds. CASE AddRemote
  <2>head. AllOf(remote.cands) = {Head(remote.cands)} \cup AllOf(Tail(remote.cands))
    BY <1>types, <1>adds, AllOfTail DEF AddRemote
  <2>next. remote'.cands = Tail(remote.cands) /\ call' = call
           /\ added' = [added EXCEPT ![Head(remote.cands)] = @ + 1]
    BY <1>types, <1>adds DEF AddRemote, Remotes
  <2>count. added[c] \in Nat /\ (added'[c] = added[c] \/ added'[c] = added[c] + 1)
            /\ (c = Head(remote.cands) => added'[c] = added[c] + 1)
    BY <1>types, <2>next
  <2>more. added[c] > 0 \/ c = Head(remote.cands) => added'[c] > 0
    BY ONLY <2>count
  <2> QED
    BY <2>head, <2>next, <2>more
<1>emits. CASE Emit
  <2>pick. PICK d \in routing : \E cs \in Emitted(d) \cup {remote.cands} :
             remote' = [remote EXCEPT !.cands = cs]
    BY <1>emits DEF Emit
  <2>d. d \in ViewerCandidates
    BY TypeParts DEF WhereOK
  <2>seq. remote.cands \in Seq(ViewerCandidates)
    BY <1>types
  <2>more. AllOf(Append(remote.cands, d)) = AllOf(remote.cands) \cup {d}
    BY ONLY <2>seq, <2>d, AllOfAppend
  <2>ways. remote'.cands \in {remote.cands, Append(remote.cands, d)}
    BY <1>types, <2>pick DEF Emitted, Remotes
  <2>same. UNCHANGED <<call, added>>
    BY <1>emits DEF Emit
  <2> QED
    BY ONLY call = "over" \/ added[c] > 0 \/ c \in AllOf(remote.cands), <2>more, <2>ways, <2>same
<1>others. CASE ~AddRemote /\ ~Emit
  <2>same. remote'.cands = remote.cands /\ added' = added
    BY <1>types, <1>others
       DEF Next, Negotiate, PublishOffer, StartPublishing, Await, End, Transport, Receive,
           Described, Drain, StreamOver, Reopen, StreamEnds, TakeOffer, SetRemote, Answer,
           Delete, Gather, Publish, OnHostCandidate, AddViewerCandidate, vars, transport,
           Remotes
  <2>call. call = "over" => call' = "over"
    BY <1>others
       DEF Next, Negotiate, PublishOffer, StartPublishing, Await, End, Transport, Receive,
           Drain, StreamOver, Reopen, StreamEnds, TakeOffer, SetRemote, Answer, Delete,
           Gather, Publish, OnHostCandidate, AddViewerCandidate, vars
  <2> QED
    BY ONLY call = "over" \/ added[c] > 0 \/ c \in AllOf(remote.cands), <2>same, <2>call
<1> QED
  BY <1>adds, <1>emits, <1>others

LEMMA SeenStep ==
  ASSUME TypeOK, SeenInv, [Next]_vars
  PROVE  SeenInv'
<1> SUFFICES ASSUME NEW c \in seenCand'
             PROVE  call' = "over" \/ added'[c] > 0 \/ c \in AllOf(remote'.cands)
  BY DEF SeenInv
<1>types. seenCand \subseteq ViewerCandidates /\ routing \subseteq ViewerCandidates
  BY TypeParts DEF WhereOK
<1>old. CASE c \in seenCand
  BY <1>types, <1>old, BufferStep DEF SeenInv
<1>new. CASE c \notin seenCand
  <2>emits. Emit
    BY <1>new
       DEF Next, Negotiate, PublishOffer, StartPublishing, Await, AddRemote, End, Transport,
           Receive, Drain, StreamOver, Reopen, StreamEnds, TakeOffer, SetRemote, Answer,
           Delete, Gather, Publish, OnHostCandidate, AddViewerCandidate, vars, transport
  <2>how. /\ c \in routing /\ UNCHANGED call
          /\ \E cs \in Emitted(c) \cup {s \in {remote.cands} : call = "over"} :
               remote' = [remote EXCEPT !.cands = cs]
    BY <1>new, <2>emits DEF Emit
  <2>room. call = "over" \/ remote' = [remote EXCEPT !.cands = Append(remote.cands, c)]
    BY <1>new, <2>how DEF Emitted
  <2>shape. remote \in Remotes /\ remote.cands \in Seq(ViewerCandidates) /\ c \in ViewerCandidates
    BY <1>types, <2>how, TypeParts DEF RemoteOK, Remotes
  <2>more. AllOf(Append(remote.cands, c)) = AllOf(remote.cands) \cup {c}
    BY ONLY <2>shape, AllOfAppend
  <2> QED
    BY <2>how, <2>room, <2>shape, <2>more DEF Remotes
<1> QED
  BY <1>old, <1>new

LEMMA TheirStep ==
  ASSUME TypeOK, StreamInv, StreamInv', SeenInv', TheirCandidatesKept, [Next]_vars
  PROVE  TheirCandidatesKept'
<1> SUFFICES ASSUME NEW c \in node'.viewer PROVE TheirKept(c)'
  BY DEF TheirCandidatesKept
<1>types. stream \in Streams /\ node \in Nodes /\ gone \in BOOLEAN
  BY TypeParts DEF WhereOK
<1>there. node'.there
  BY DEF StreamInv
<1>new. ASSUME NEW d \in ViewerCandidates, AddViewerCandidate(d), c \notin node.viewer
        PROVE  TheirKept(c)'
  <2>same. c = d /\ UNCHANGED <<run, call>>
    BY <1>types, <1>new DEF AddViewerCandidate, Nodes
  <2>carried. c \in Event("put", FALSE, {d}).cands
    BY <2>same DEF Event
  <2>up. CASE stream.up
    <3>told. Event("put", FALSE, {d}) \in AllOf(stream'.events)
      BY <1>types, <1>new, <2>up, ChangesTold
    <3> QED
      BY <2>carried, <3>told DEF TheirKept
  <2>down. CASE ~stream.up
    <3>up. ~stream'.up
      BY <1>types, <1>new, <2>down, ChangesTold
    <3>stopped. run = "done" => call = "over"
      BY <1>there, <1>types, <1>new DEF StreamInv, AddViewerCandidate
    <3> QED
      BY <2>same, <3>up, <3>stopped DEF TheirKept, Follows
  <2> QED
    BY <2>up, <2>down
<1>old. CASE c \in node.viewer
  <2>was. TheirKept(c) /\ c \in ViewerCandidates /\ node.there
    BY <1>types, <1>old DEF TheirCandidatesKept, StreamInv, Nodes
  <2>taken. CASE call = "over" \/ added[c] > 0 \/ c \in AllOf(remote.cands)
    BY <2>was, <2>taken, BufferStep DEF TheirKept
  <2>routed. CASE c \in routing
    <3>emits. CASE Emit
      <4>either. c \in routing' \/ c \in seenCand'
        BY <2>routed, <3>emits DEF Emit
      <4> QED
        BY <4>either DEF SeenInv, TheirKept
    <3>waits. CASE ~Emit
      <4> c \in routing'
        BY <2>routed, <3>waits
           DEF Next, Negotiate, PublishOffer, StartPublishing, Await, AddRemote, End,
               Transport, Receive, Drain, StreamOver, Reopen, StreamEnds, TakeOffer,
               SetRemote, Answer, Delete, Gather, Publish, OnHostCandidate,
               AddViewerCandidate, vars, transport
      <4> QED
        BY DEF TheirKept
    <3> QED
      BY <3>emits, <3>waits
  <2>streamed. CASE Follows \/ \E ev \in AllOf(stream.events) : c \in ev.cands
    <3>changes. CASE Answer \/ \E d \in ViewerCandidates : AddViewerCandidate(d)
      <4>run. UNCHANGED run
        BY <3>changes DEF Answer, AddViewerCandidate
      <4>told. stream'.up = stream.up /\ AllOf(stream.events) \subseteq AllOf(stream'.events)
        BY <1>types, <3>changes, ChangesTold
      <4> QED
        BY <2>streamed, <4>run, <4>told DEF TheirKept, Follows
    <3>deletes. CASE Delete
      BY <1>there, <1>types, <3>deletes DEF Delete, Nodes
    <3>receives. CASE Receive
      <4>some. stream.events # <<>> /\ stream' = [stream EXCEPT !.events = Tail(@)]
        BY <3>receives DEF Receive
      <4>told. /\ stream'.up = stream.up /\ Head(stream.events) \in Events
               /\ AllOf(stream.events) = {Head(stream.events)} \cup AllOf(stream'.events)
        BY <1>types, <4>some, ReadTold
      <4>run. /\ run' = "done" => Head(stream.events).kind = "cancel"
              /\ routing' = Head(stream.events).cands
        BY <3>receives DEF Receive
      <4>goes. run' # "done"
        BY <2>was, <4>told, <4>run DEF StreamInv
      <4> QED
        BY ONLY <2>streamed, <4>told, <4>run, <4>goes DEF TheirKept, Follows
    <3>drains. CASE Drain
      <4>some. stream.events # <<>> /\ stream' = [stream EXCEPT !.events = Tail(@)]
        BY <3>drains DEF Drain
      <4>up. stream'.up = stream.up /\ run' = run /\ run = "draining"
        BY <1>types, <3>drains, <4>some, ReadTold DEF Drain
      <4> QED
        BY <4>up DEF StreamInv, TheirKept, Follows
    <3>over. CASE StreamOver
      <4>run. UNCHANGED <<stream, call>> /\ ~stream.up /\ (run' = "reopen" \/ call = "over")
        BY <3>over DEF StreamOver
      <4> QED
        BY <4>run DEF TheirKept, Follows
    <3>reopens. CASE Reopen
      <4>whole. AllOf(<<Whole>>) = {Whole} /\ c \in Whole.cands
        BY <1>old, AllOfFew DEF Whole, Event
      <4>ways. \/ call = "over" \/ stream'.events = <<Whole>>
               \/ UNCHANGED <<stream, run>>
        BY <2>was, <3>reopens DEF Reopen
      <4>call. UNCHANGED call
        BY <3>reopens DEF Reopen
      <4> QED
        BY <2>streamed, <4>whole, <4>ways, <4>call DEF TheirKept, Follows
    <3>ends. CASE StreamEnds
      <4>up. ~stream'.up /\ UNCHANGED <<run, call>>
        BY <1>types, <3>ends, EndedTold DEF StreamEnds
      <4>stopped. run = "done" => call = "over"
        BY <2>was, <1>types DEF StreamInv
      <4> QED
        BY <4>up, <4>stopped DEF TheirKept, Follows
    <3>calls. CASE \/ Negotiate \/ End \/ Emit \/ TakeOffer \/ SetRemote
                   \/ \E d \in HostCandidates : Gather(d) \/ Publish(d) \/ OnHostCandidate(d)
                   \/ UNCHANGED vars
      <4>same. UNCHANGED <<stream, run>>
        BY <3>calls
           DEF Negotiate, PublishOffer, StartPublishing, Await, AddRemote, End, Emit,
               TakeOffer, SetRemote, Gather, Publish, OnHostCandidate, vars, transport
      <4> QED
        BY <2>streamed, <4>same DEF TheirKept, Follows
    <3> QED
      BY <3>changes, <3>deletes, <3>receives, <3>drains, <3>over, <3>reopens, <3>ends,
         <3>calls DEF Next, Transport
  <2> QED
    BY <2>was, <2>taken, <2>routed, <2>streamed DEF TheirKept
<1>only. c \in node.viewer \/ \E d \in ViewerCandidates : AddViewerCandidate(d)
  BY <1>types, <1>there
     DEF Next, Negotiate, PublishOffer, PublishLocalDescription, StartPublishing, Await,
         AddRemote, End, Transport, Receive, Emit, Drain, StreamOver, Reopen, StreamEnds,
         TakeOffer, SetRemote, Answer, Delete, Gather, Publish, OnHostCandidate, vars, Nodes
<1> QED
  BY <1>new, <1>old, <1>only

\* emitCandidate(), startRemoteCandidates(): a candidate the viewer put into the node was
\* added to the peer or is in the buffer, in the event being routed or on the stream, or
\* the next stream begins with it.  Neither a stream that breaks, nor a token that
\* expires, nor a full buffer loses one.
THEOREM ViewerCandidatesAreKept == Spec => []TheirCandidatesKept
<1>starts. Init => StreamInv /\ SeenInv /\ TheirCandidatesKept
  <2> SUFFICES ASSUME Init PROVE StreamInv /\ SeenInv /\ TheirCandidatesKept
    OBVIOUS
  <2>told. AllOf(stream.events) = {Whole} /\ Whole.kind = "put"
    BY AllOfFew DEF Init, Whole, Event
  <2> QED
    BY <2>told DEF Init, StreamInv, SeenInv, TheirCandidatesKept
<1>keeps. TypeOK /\ StreamInv /\ SeenInv /\ TheirCandidatesKept /\ [Next]_vars
            => (StreamInv /\ SeenInv /\ TheirCandidatesKept)'
  BY StreamInvStep, SeenStep, TheirStep
<1> QED
  BY <1>starts, <1>keeps, TypeCorrect, PTL DEF Spec
=============================================================================
