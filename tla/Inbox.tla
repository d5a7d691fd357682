--------------------------------- MODULE Inbox ---------------------------------
(***************************************************************************)
(* How a request reaches the agent: /inbox/{ownerUid} streamed over        *)
(* server-sent events (internal/session/inbox.go), the database client     *)
(* that opens the stream and removes what was read (internal/firebase),    *)
(* and the identity token both carry (internal/auth).                      *)
(*                                                                         *)
(* Time is the server's clock in coarse units; the agent's clock may       *)
(* differ from it by a skew, another one at every reading.                 *)
(***************************************************************************)
EXTENDS Integers, Sequences, FiniteSets, Functions

CONSTANTS
  Ids,        \* session ids
  Age,        \* staleRequestAge
  Life,       \* for how long an identity token is good
  Skews,      \* the agent's clock minus the server's
  MaxTime,    \* bound: time
  MaxFaults   \* bound: calls that fail and connections that break

ASSUME InboxAssumption ==
  /\ {Age, Life, MaxTime, MaxFaults} \subseteq Nat /\ Life > 1
  /\ Skews \subseteq Int /\ "none" \notin Ids

VARIABLES
  clock,
  entries,   \* the node: the ids in it, with their createdAt
  written,   \* the ids a viewer has used
  seen,      \* Inbox.seen: the ids handled, with when
  reader,    \* Listen: "retry", "reading", "removing", "draining"
  batch,     \* the entries of the event being handled
  busy,      \* the entry being removed, and whether it is to be handled
  stream,    \* the open stream: its events, and whether the server still serves it
  token,     \* Manager.token: when it expires
  handled,   \* how often each id was handed to the coordinator
  faults

node == <<entries, written>>
vars == <<clock, node, seen, reader, batch, busy, stream, token, handled, faults>>

Nobody == [id |-> "none", at |-> 0, fresh |-> FALSE]
NoStream == [up |-> FALSE, events |-> <<>>, until |-> 0]

Put(batchOf) == [kind |-> "put", entries |-> batchOf]
Revoked == [kind |-> "auth_revoked", entries |-> {}]

\* A node as the set of its entries, and a put event of it.
ListedNothing(n) == {}

Listed(n) == {[id |-> i, at |-> n[i]] : i \in DOMAIN n}

Spend == faults > 0 /\ faults' = faults - 1

\* What a change of the node sends to an open stream.
Sends(ev) == stream' = IF stream.up THEN [stream EXCEPT !.events = Append(@, ev)] ELSE stream

-----------------------------------------------------------------------------
\* The viewer: createSession, and its own clean-up.
Write(i) ==
  /\ i \notin written
  /\ written' = written \cup {i}
  /\ entries' = [j \in DOMAIN entries \cup {i} |-> IF j = i THEN clock ELSE entries[j]]
  /\ Sends(Put({[id |-> i, at |-> clock]}))
  /\ UNCHANGED <<clock, seen, reader, batch, busy, token, handled, faults>>

Withdraw(i) ==
  /\ i \in DOMAIN entries
  /\ entries' = Restrict(entries, DOMAIN entries \ {i})
  /\ Sends(Put({}))
  /\ UNCHANGED <<clock, written, seen, reader, batch, busy, token, handled, faults>>

-----------------------------------------------------------------------------
\* IDToken: the token is renewed when it has a unit left at most; the new one, by
\* this agent's own count, lives as long again.
Expires == clock + Life
Renewed(t) == IF clock >= t - 1 THEN Expires ELSE t

\* Every request carries the token of the moment.
Sign == token' = Renewed(token)

\* A write to the database: with a good token, or a call that fails.
Written == Sign /\ UNCHANGED faults
Refused == Spend /\ UNCHANGED token

\* Stream opens with the whole node as its first event; a call that fails leaves
\* everything to the next try.
Open ==
  /\ reader = "retry"
  /\ \/ /\ Sign
        /\ clock < token'
        /\ stream' = [up |-> TRUE, events |-> <<Put(Listed(entries))>>, until |-> token']
        /\ reader' = "reading"
        /\ UNCHANGED faults
     \/ Refused /\ UNCHANGED <<stream, reader>>
  /\ UNCHANGED <<clock, node, seen, batch, busy, handled>>

\* forget(): ids handled more than Age ago go.
RememberedLess(s) == Restrict(s, {i \in DOMAIN s : clock - s[i] < Age})

Remembered(s) == Restrict(s, {i \in DOMAIN s : clock - s[i] <= Age})

\* handleData and dispatch: the entries of an event one by one, in any order. One
\* not seen before is noted, and removed before it is looked at.
Dispatch ==
  /\ reader = "reading" /\ batch # {}
  /\ \E e \in batch, skew \in Skews :
       LET kept == Remembered(seen)
           old == e.id \in DOMAIN kept
       IN  /\ batch' = batch \ {e}
           /\ seen' = [i \in DOMAIN kept \cup {e.id} |->
                         IF old \/ i # e.id THEN kept[i] ELSE clock]
           /\ reader' = IF old THEN "reading" ELSE "removing"
           /\ busy' = IF old THEN Nobody
                      ELSE [id |-> e.id, at |-> e.at, fresh |-> clock + skew - e.at <= Age]
  /\ UNCHANGED <<clock, node, stream, token, handled, faults>>

\* DELETE of the entry: the node's readers are told.
Delete(i) ==
  /\ entries' = Restrict(entries, DOMAIN entries \ {i})
  /\ Sends(Put({}))

\* remove() comes back, done or not, and a fresh request is handled either way.
RemoveReturns ==
  /\ reader = "removing"
  /\ \/ Delete(busy.id) /\ Written
     \/ Refused /\ UNCHANGED <<entries, stream>>
  /\ handled' = IF busy.fresh THEN [handled EXCEPT ![busy.id] = @ + 1] ELSE handled
  /\ busy' = Nobody
  /\ reader' = "reading"
  /\ UNCHANGED <<clock, written, seen, batch>>

\* The next event. After auth_revoked (or cancel) what remains is only drained.
Receive ==
  /\ reader = "reading" /\ batch = {} /\ stream.events # <<>>
  /\ LET ev == Head(stream.events)
     IN  IF ev.kind = "put" THEN batch' = ev.entries /\ UNCHANGED reader
         ELSE reader' = "draining" /\ UNCHANGED batch
  /\ stream' = [stream EXCEPT !.events = Tail(@)]
  /\ UNCHANGED <<clock, node, seen, busy, token, handled, faults>>

Drain ==
  /\ reader = "draining" /\ stream.events # <<>>
  /\ stream' = [stream EXCEPT !.events = Tail(@)]
  /\ UNCHANGED <<clock, node, seen, reader, batch, busy, token, handled, faults>>

\* The channel of events is closed: the stream is opened again after a pause.
StreamOver ==
  /\ reader \in {"reading", "draining"}
  /\ batch = {} /\ ~stream.up /\ stream.events = <<>>
  /\ reader' = "retry"
  /\ UNCHANGED <<clock, node, seen, batch, busy, stream, token, handled, faults>>

-----------------------------------------------------------------------------
\* The stream is over; what was sent on it may still be read.
Ended(events) == [up |-> FALSE, events |-> events, until |-> stream.until]

\* The server: a token that has expired ends the streams opened with it, before or
\* behind the changes it was sending.
Revoke ==
  /\ stream.up /\ clock >= stream.until
  /\ \E events \in {Append(stream.events, Revoked), <<Revoked>> \o stream.events} :
       stream' = Ended(events)
  /\ UNCHANGED <<clock, node, seen, reader, batch, busy, token, handled, faults>>

\* The connection breaks, with what was under way on it.
Break ==
  /\ stream.up /\ Spend
  /\ \E n \in 0..Len(stream.events) :
       stream' = Ended(SubSeq(stream.events, 1, n))
  /\ UNCHANGED <<clock, node, seen, reader, batch, busy, token, handled>>

TimePasses ==
  /\ clock < MaxTime
  /\ clock' = clock + 1
  /\ UNCHANGED <<node, seen, reader, batch, busy, stream, token, handled, faults>>

\* SignUpAnonymous: this run's identity, and its first token.
SignedUp == token = Life

Init ==
  /\ clock = 0
  /\ entries = [i \in {} |-> 0] /\ written = {}
  /\ seen = [i \in {} |-> 0]
  /\ reader = "retry" /\ batch = {} /\ busy = Nobody
  /\ stream = NoStream
  /\ SignedUp
  /\ handled = [i \in Ids |-> 0]
  /\ faults = MaxFaults

Next ==
  \/ \E i \in Ids : Write(i) \/ Withdraw(i)
  \/ Open \/ Dispatch \/ RemoveReturns \/ Receive \/ Drain \/ StreamOver
  \/ Revoke \/ Break \/ TimePasses

\* The agent's goroutine runs, its calls return, and the server ends the stream of
\* an expired token.
Listen == Open \/ Dispatch \/ RemoveReturns \/ Receive \/ Drain \/ StreamOver
Spec == Init /\ [][Next]_vars
FairSpec == Spec /\ WF_vars(Listen) /\ WF_vars(Revoke)

-----------------------------------------------------------------------------
Entries == [id : Ids, at : 0..MaxTime]
Events == [kind : {"put", "auth_revoked"}, entries : SUBSET Entries]
Removals == [id : Ids, at : 0..MaxTime, fresh : BOOLEAN]

TypeOK ==
  /\ clock \in 0..MaxTime
  /\ written \subseteq Ids /\ DOMAIN entries \subseteq Ids /\ DOMAIN seen \subseteq Ids
  /\ entries \in [DOMAIN entries -> 0..clock]
  /\ seen \in [DOMAIN seen -> 0..clock]
  /\ reader \in {"retry", "reading", "removing", "draining"}
  /\ batch \subseteq Entries
  /\ busy \in Removals \cup {Nobody}
  /\ reader = "removing" => busy \in Removals
  /\ stream \in [up : BOOLEAN, events : Seq(Events), until : Nat]
  /\ token \in Nat
  /\ handled \in [Ids -> Nat]
  /\ faults \in 0..MaxFaults

\* Inbox.seen: "a request is handled exactly once, and a reconnect must never
\* replay it", although what is seen is forgotten and a removal may fail.
HandledOnce == \A i \in Ids : handled[i] <= 1

\* Listen: a request left in the inbox is handed to the coordinator before it is too
\* old, whatever breaks between the viewer's write and the agent's read.
TooOld(i) == \E skew \in Skews : clock + skew - entries[i] > Age

EveryRequestIsHeard ==
  \A i \in Ids :
    i \in DOMAIN entries ~> (handled[i] > 0 \/ i \notin DOMAIN entries \/ TooOld(i))
=============================================================================
