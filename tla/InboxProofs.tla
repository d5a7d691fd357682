------------------------------ MODULE InboxProofs ------------------------------
(***************************************************************************)
(* A request is handled at most once, for any ids, ages, times and faults, *)
(* as long as the agent's clock is not behind the server's.                *)
(*                                                                         *)
(* An id is forgotten Age after it was handled, and a copy of its entry may*)
(* still be under way: in the node, in an event, in the batch being read.  *)
(* Every copy was written before the id was handled, so by then it is too  *)
(* old for an agent whose clock is right or ahead.                         *)
(***************************************************************************)
EXTENDS Inbox, TLAPS

-----------------------------------------------------------------------------

Streams == [up : BOOLEAN, events : Seq(Events), until : Nat]

LEMMA PutShape ==
  ASSUME NEW batchOf \in SUBSET Entries
  PROVE  Put(batchOf) \in Events /\ Put(batchOf).entries = batchOf
  BY DEF Put, Events

LEMMA RevokedShape == Revoked \in Events /\ Revoked.entries = {}
  BY DEF Revoked, Events

\* The stream goes on with other events, up or down.
LEMMA StreamShape ==
  ASSUME stream \in Streams, NEW evs \in Seq(Events), NEW up \in BOOLEAN,
         \/ stream' = [stream EXCEPT !.events = evs]
         \/ stream' = [up |-> up, events |-> evs, until |-> stream.until]
  PROVE  stream' \in Streams /\ stream'.events = evs
  BY DEF Streams

LEMMA SendsShape ==
  ASSUME stream \in Streams, NEW ev \in Events, Sends(ev)
  PROVE  stream' \in Streams
<1>sent. stream.events \in Seq(Events)
  BY DEF Streams
<1>longer. Append(stream.events, ev) \in Seq(Events)
  BY ONLY <1>sent
<1>ways. stream' \in {stream, [stream EXCEPT !.events = Append(@, ev)]}
  BY DEF Sends
<1> QED
  BY <1>longer, <1>ways, StreamShape

LEMMA OpenedShape ==
  ASSUME NEW evs \in Seq(Events), NEW until \in Nat,
         stream' = [up |-> TRUE, events |-> evs, until |-> until]
  PROVE  stream' \in Streams
  BY DEF Streams

LEMMA ListedShape ==
  ASSUME TypeOK
  PROVE  Listed(entries) \in SUBSET Entries
  BY InboxAssumption DEF TypeOK, Listed, Entries

\* Tokens are numbers, and a call that fails leaves what it is about alone.
LEMMA TokenShape ==
  ASSUME TypeOK, Written \/ Refused \/ token' = Renewed(token) \/ token' = token
  PROVE  token' \in Nat
  BY InboxAssumption DEF TypeOK, Written, Sign, Refused, Renewed, Expires

LEMMA TypeStep == TypeOK /\ [Next]_vars => TypeOK'
<1> SUFFICES ASSUME TypeOK, [Next]_vars PROVE TypeOK'
  OBVIOUS
<1> USE InboxAssumption DEF TypeOK, node, Streams
<1>writes. ASSUME NEW i \in Ids, Write(i) PROVE TypeOK'
  <2>entry. {[id |-> i, at |-> clock]} \in SUBSET Entries
    BY DEF Entries
  <2>sent. stream' \in Streams
    BY ONLY TypeOK, <1>writes, <2>entry, SendsShape, PutShape DEF TypeOK, Streams, Write
  <2>node. entries' \in [DOMAIN entries' -> 0..clock] /\ DOMAIN entries' \subseteq Ids
    BY <1>writes DEF Write
  <2> QED
    BY <1>writes, <2>sent, <2>node DEF Write
<1>withdraws. ASSUME NEW i \in Ids, Withdraw(i) PROVE TypeOK'
  <2>sent. stream' \in Streams
    BY ONLY TypeOK, <1>withdraws, SendsShape, PutShape DEF TypeOK, Streams, Withdraw
  <2>node. entries' \in [DOMAIN entries' -> 0..clock] /\ DOMAIN entries' \subseteq Ids
    BY <1>withdraws DEF Withdraw, Restrict
  <2> QED
    BY <1>withdraws, <2>sent, <2>node DEF Withdraw
<1>opens. CASE Open
  <2>token. token' \in Nat
    BY <1>opens, TokenShape DEF Open, Sign
  <2>first. <<Put(Listed(entries))>> \in Seq(Events)
    BY ListedShape, PutShape
  <2>new. \/ stream' = [up |-> TRUE, events |-> <<Put(Listed(entries))>>, until |-> token']
          \/ stream' = stream
    BY <1>opens DEF Open, Sign
  <2>was. stream \in Streams
    OBVIOUS
  <2>sent. stream' \in Streams
    BY ONLY <2>was, <2>new, <2>token, <2>first, OpenedShape
  <2>rest. faults' \in 0..MaxFaults
    BY <1>opens DEF Open, Sign, Refused, Spend
  <2> QED
    BY <1>opens, <2>token, <2>sent, <2>rest DEF Open, Sign
<1>dispatches. CASE Dispatch
  <2>1. PICK e \in batch, skew \in Skews :
          LET kept == Remembered(seen)
              old == e.id \in DOMAIN kept
          IN  /\ batch' = batch \ {e}
              /\ seen' = [i \in DOMAIN kept \cup {e.id} |->
                            IF old \/ i # e.id THEN kept[i] ELSE clock]
              /\ reader' = IF old THEN "reading" ELSE "removing"
              /\ busy' = IF old THEN Nobody
                         ELSE [id |-> e.id, at |-> e.at, fresh |-> clock + skew - e.at =< Age]
    BY <1>dispatches DEF Dispatch
  <2>entry. e.id \in Ids /\ e.at \in 0..MaxTime
    BY DEF Entries
  <2>kept. /\ DOMAIN Remembered(seen) \subseteq DOMAIN seen
           /\ \A i \in DOMAIN Remembered(seen) : Remembered(seen)[i] \in 0..clock
    BY DEF Remembered, Restrict
  <2>now. clock \in 0..clock
    OBVIOUS
  <2>noted. DOMAIN seen' \subseteq Ids /\ seen' \in [DOMAIN seen' -> 0..clock]
    BY <2>1, <2>entry, <2>kept, <2>now
  <2>removal. busy' \in Removals \cup {Nobody} /\ (reader' = "removing" => busy' \in Removals)
    BY <2>1, <2>entry DEF Removals
  <2> QED
    BY <1>dispatches, <2>1, <2>noted, <2>removal DEF Dispatch
<1>removes. CASE RemoveReturns
  <2>sent. stream' \in Streams
    BY ONLY TypeOK, <1>removes, SendsShape, PutShape DEF TypeOK, Streams, RemoveReturns, Delete
  <2>node. entries' \in [DOMAIN entries' -> 0..clock] /\ DOMAIN entries' \subseteq Ids
    BY <1>removes DEF RemoveReturns, Delete, Restrict
  <2>token. token' \in Nat /\ faults' \in 0..MaxFaults
    BY <1>removes, TokenShape DEF RemoveReturns, Delete, Written, Sign, Refused, Spend
  <2>count. handled' \in [Ids -> Nat]
    BY <1>removes DEF RemoveReturns, Delete, Removals
  <2> QED
    BY <1>removes, <2>sent, <2>node, <2>token, <2>count DEF RemoveReturns, Delete
<1>receives. CASE Receive
  <2>event. Head(stream.events) \in Events /\ Tail(stream.events) \in Seq(Events)
    BY <1>receives DEF Receive
  <2>sent. stream' \in Streams
    BY <1>receives, <2>event DEF Receive
  <2>read. batch' \subseteq Entries
    BY <1>receives, <2>event DEF Receive, Events
  <2> QED
    BY <1>receives, <2>sent, <2>read DEF Receive
<1>drains. CASE Drain
  <2>tail. Tail(stream.events) \in Seq(Events) /\ stream \in Streams
    BY <1>drains DEF Drain
  <2>sent. stream' \in Streams
    BY ONLY <1>drains, <2>tail, StreamShape DEF Drain
  <2> QED
    BY <1>drains, <2>sent DEF Drain
<1>revokes. CASE Revoke
  <2>longer. /\ stream \in Streams
             /\ {Append(stream.events, Revoked), <<Revoked>> \o stream.events} \subseteq Seq(Events)
    BY RevokedShape
  <2>sent. stream' \in Streams
    BY ONLY <1>revokes, <2>longer, StreamShape DEF Revoke, Ended
  <2> QED
    BY <1>revokes, <2>sent DEF Revoke
<1>breaks. CASE Break
  <2>is. stream \in Streams /\ stream.events \in Seq(Events)
    OBVIOUS
  <2>pick. PICK n \in 0..Len(stream.events) : stream' = Ended(SubSeq(stream.events, 1, n))
    BY ONLY <1>breaks DEF Break
  <2>cut. SubSeq(stream.events, 1, n) \in Seq(Events)
    BY ONLY <2>is, n \in 0..Len(stream.events)
  <2>sent. stream' \in Streams
    BY ONLY <2>is, <2>pick, <2>cut, StreamShape DEF Ended
  <2>faults. faults' \in 0..MaxFaults
    BY <1>breaks DEF Break, Spend
  <2> QED
    BY <1>breaks, <2>sent, <2>faults DEF Break
<1>others. CASE StreamOver \/ TimePasses \/ UNCHANGED vars
  BY <1>others DEF StreamOver, TimePasses, vars
<1> QED
  BY <1>writes, <1>withdraws, <1>opens, <1>dispatches, <1>removes, <1>receives, <1>drains,
     <1>revokes, <1>breaks, <1>others DEF Next

\* Type correctness of the node, the stream and the agent's memory of what it has
\* handled.
THEOREM TypeCorrect == Spec => []TypeOK
<1>start. Init => TypeOK
  BY InboxAssumption DEF Init, SignedUp, TypeOK, NoStream, Nobody
<1> QED
  BY <1>start, TypeStep, PTL DEF Spec

-----------------------------------------------------------------------------
\* The copies of an entry: in the node, in the batch, in an event under way.

Carried(events, e) == \E k \in DOMAIN events : e \in events[k].entries

Copy(i, a) == [id |-> i, at |-> a]
CopyIsOut(i, a) ==
  \/ i \in DOMAIN entries /\ a = entries[i]
  \/ Copy(i, a) \in batch
  \/ Carried(stream.events, Copy(i, a))

LEMMA CarriedAppend ==
  ASSUME NEW evs \in Seq(Events), NEW ev \in Events, NEW e, Carried(Append(evs, ev), e)
  PROVE  Carried(evs, e) \/ e \in ev.entries
<1>where. PICK k \in 1..Len(evs) + 1 : e \in Append(evs, ev)[k].entries
  BY DEF Carried
<1>before. CASE k \in 1..Len(evs)
  BY <1>where, <1>before DEF Carried
<1>last. CASE k = Len(evs) + 1
  BY <1>where, <1>last
<1> QED
  BY <1>before, <1>last

LEMMA CarriedOff ==
  ASSUME NEW evs \in Seq(Events), evs # <<>>, NEW e,
         Carried(Tail(evs), e) \/ e \in Head(evs).entries
  PROVE  Carried(evs, e)
<1>long. Len(evs) \in Nat /\ Len(evs) >= 1 /\ DOMAIN evs = 1..Len(evs)
  OBVIOUS
<1>first. CASE e \in Head(evs).entries
  BY <1>long, <1>first DEF Carried
<1>later. CASE Carried(Tail(evs), e)
  <2>where. PICK k \in DOMAIN Tail(evs) : e \in Tail(evs)[k].entries
    BY <1>later DEF Carried
  <2>shift. k \in 1..Len(evs) - 1 /\ Tail(evs)[k] = evs[k + 1]
    BY <1>long
  <2> QED
    BY <1>long, <2>where, <2>shift DEF Carried
<1> QED
  BY <1>first, <1>later

LEMMA CarriedCut ==
  ASSUME NEW evs \in Seq(Events), NEW n \in 0..Len(evs), NEW e, Carried(SubSeq(evs, 1, n), e)
  PROVE  Carried(evs, e)
<1>where. PICK k \in DOMAIN SubSeq(evs, 1, n) : e \in SubSeq(evs, 1, n)[k].entries
  BY DEF Carried
<1>same. k \in DOMAIN evs /\ SubSeq(evs, 1, n)[k] = evs[k]
  OBVIOUS
<1> QED
  BY <1>where, <1>same DEF Carried

LEMMA CarriedBehind ==
  ASSUME NEW evs \in Seq(Events), NEW ev \in Events, NEW e, Carried(<<ev>> \o evs, e)
  PROVE  Carried(evs, e) \/ e \in ev.entries
<1>where. PICK k \in 1..Len(evs) + 1 : e \in (<<ev>> \o evs)[k].entries
  BY DEF Carried
<1>first. CASE k = 1
  BY <1>where, <1>first
<1>later. CASE k # 1
  <2>shift. k - 1 \in 1..Len(evs) /\ (<<ev>> \o evs)[k] = evs[k - 1]
    BY <1>later
  <2> QED
    BY <1>where, <2>shift DEF Carried
<1> QED
  BY <1>first, <1>later

\* What the node sends on a stream reaches it as one more event.
LEMMA CarriedSent ==
  ASSUME TypeOK, NEW batchOf \in SUBSET Entries, Sends(Put(batchOf)), NEW e,
         Carried(stream'.events, e)
  PROVE  Carried(stream.events, e) \/ e \in batchOf
<1>shape. stream.events \in Seq(Events) /\ stream \in Streams
  BY DEF TypeOK, Streams
<1>down. CASE stream' = stream
  BY <1>down
<1>up. CASE stream' = [stream EXCEPT !.events = Append(@, Put(batchOf))]
  <2>events. stream'.events = Append(stream.events, Put(batchOf))
    BY <1>up, <1>shape DEF Streams
  <2> QED
    BY <1>shape, <2>events, CarriedAppend, PutShape
<1> QED
  BY <1>down, <1>up DEF Sends

\* Only a viewer's write makes a copy of an entry that is not one of another.
LEMMA NoNewCopies ==
  ASSUME TypeOK, [Next]_vars, NEW i \in Ids, NEW a \in 0..MaxTime, CopyIsOut(i, a)'
  PROVE  CopyIsOut(i, a) \/ (Write(i) /\ a = clock)
<1> DEFINE e == Copy(i, a)
<1>shape. stream.events \in Seq(Events) /\ stream \in Streams
  BY DEF TypeOK, Streams
<1>none. {} \in SUBSET Entries /\ e \notin {}
  OBVIOUS
<1>writes. ASSUME NEW j \in Ids, Write(j) PROVE CopyIsOut(i, a) \/ (Write(i) /\ a = clock)
  <2>entry. {Copy(j, clock)} \in SUBSET Entries
    BY DEF TypeOK, Entries, Copy
  <2>sent. Carried(stream'.events, e) => Carried(stream.events, e) \/ e = Copy(j, clock)
    BY <1>writes, <2>entry, CarriedSent DEF Write, Copy
  <2>same. e = Copy(j, clock) => j = i /\ a = clock
    BY DEF Copy
  <2> QED
    BY <1>writes, <2>sent, <2>same DEF Write, CopyIsOut
<1>withdraws. ASSUME NEW j \in Ids, Withdraw(j) PROVE CopyIsOut(i, a)
  <2>sent. Carried(stream'.events, e) => Carried(stream.events, e)
    BY <1>withdraws, <1>none, CarriedSent DEF Withdraw
  <2> QED
    BY <1>withdraws, <2>sent DEF Withdraw, CopyIsOut, Restrict
<1>removes. CASE RemoveReturns
  <2>sent. Carried(stream'.events, e) => Carried(stream.events, e)
    BY <1>removes, <1>none, CarriedSent DEF RemoveReturns, Delete
  <2> QED
    BY <1>removes, <2>sent DEF RemoveReturns, Delete, CopyIsOut, Restrict
<1>opens. CASE Open
  <2>first. \/ stream'.events = <<Put(Listed(entries))>>
            \/ stream' = stream
    BY <1>opens DEF Open, Sign
  <2>listed. Carried(<<Put(Listed(entries))>>, e) => i \in DOMAIN entries /\ a = entries[i]
    BY DEF Carried, Put, Listed, Copy
  <2> QED
    BY <1>opens, <2>first, <2>listed DEF Open, Sign, CopyIsOut, node
<1>dispatches. CASE Dispatch
  BY <1>dispatches DEF Dispatch, CopyIsOut, node
<1>receives. CASE Receive
  <2>events. stream'.events = Tail(stream.events) /\ stream.events # <<>>
    BY <1>receives, <1>shape DEF Receive, Streams
  <2> QED
    BY <1>receives, <1>shape, <2>events, CarriedOff DEF Receive, CopyIsOut, node
<1>drains. CASE Drain
  <2>events. stream'.events = Tail(stream.events) /\ stream.events # <<>>
    BY <1>drains, <1>shape DEF Drain, Streams
  <2> QED
    BY <1>drains, <1>shape, <2>events, CarriedOff DEF Drain, CopyIsOut, node
<1>revokes. CASE Revoke
  <2>events. stream'.events \in {Append(stream.events, Revoked), <<Revoked>> \o stream.events}
    BY <1>revokes DEF Revoke, Ended
  <2> QED
    BY <1>revokes, <1>shape, <2>events, CarriedAppend, CarriedBehind, RevokedShape
       DEF Revoke, CopyIsOut, node
<1>breaks. CASE Break
  <2>events. \E n \in 0..Len(stream.events) : stream'.events = SubSeq(stream.events, 1, n)
    BY <1>breaks DEF Break, Ended
  <2> QED
    BY <1>breaks, <1>shape, <2>events, CarriedCut DEF Break, CopyIsOut, node
<1>others. CASE StreamOver \/ TimePasses \/ UNCHANGED vars
  BY <1>others DEF StreamOver, TimePasses, vars, CopyIsOut, node
<1> QED
  BY <1>writes, <1>withdraws, <1>removes, <1>opens, <1>dispatches, <1>receives, <1>drains,
     <1>revokes, <1>breaks, <1>others DEF Next

-----------------------------------------------------------------------------
\* A copy of an entry that cannot make its request be handled again: it is in
\* `seen`, it was never handled, or it is too old by now.
Spent(i, a) ==
  /\ i \in written /\ a =< clock
  /\ i \in DOMAIN seen => a =< seen[i]
  /\ i \notin DOMAIN seen /\ handled[i] > 0 => clock - a > Age

CopiesAreSpent == \A i \in Ids : \A a \in 0..MaxTime : CopyIsOut(i, a) => Spent(i, a)

\* What is handled next has not been handled, and is in `seen` by then.
Ledger ==
  /\ HandledOnce
  /\ DOMAIN seen \subseteq written
  /\ \A i \in Ids : handled[i] > 0 => i \in written
  /\ reader = "removing" =>
       busy.id \in DOMAIN seen /\ (busy.fresh => handled[busy.id] = 0)

OnceInv == CopiesAreSpent /\ Ledger

\* What was too old stays so.
LEMMA OldStaysOld ==
  ASSUME NEW before \in Nat, NEW after \in Nat, NEW limit \in Nat, NEW at \in Nat,
         before =< after, before - at > limit
  PROVE  after - at > limit
  OBVIOUS

\* Ids are used once, and time does not go back.
LEMMA WrittenGrows ==
  ASSUME [Next]_vars
  PROVE  written \subseteq written'
<1>noted. CASE \E j \in Ids : Write(j)
  BY <1>noted DEF Write
<1>asIs. CASE ~(\E j \in Ids : Write(j))
  <2> UNCHANGED written
    BY <1>asIs DEF Next, Withdraw, Open, Sign, Dispatch, RemoveReturns, Delete, Receive,
                   Drain, StreamOver, Revoke, Break, TimePasses, vars, node
  <2> QED
    OBVIOUS
<1> QED
  BY <1>noted, <1>asIs

LEMMA ClockGrows ==
  ASSUME TypeOK, [Next]_vars
  PROVE  clock \in Nat /\ clock' \in Nat /\ clock =< clock'
<1>ticks. CASE TimePasses
  BY <1>ticks, InboxAssumption DEF TimePasses, TypeOK
<1>stops. CASE ~TimePasses
  <2> UNCHANGED clock
    BY <1>stops DEF Next, Write, Withdraw, Open, Sign, Dispatch, RemoveReturns, Delete,
                    Receive, Drain, StreamOver, Revoke, Break, vars
  <2> QED
    BY InboxAssumption DEF TypeOK
<1> QED
  BY <1>ticks, <1>stops

\* A step that hands nothing over and forgets nothing.
LEMMA QuietStep ==
  ASSUME TypeOK, TypeOK', OnceInv, [Next]_vars, UNCHANGED <<seen, handled>>
  PROVE  CopiesAreSpent'
<1> SUFFICES ASSUME NEW i \in Ids, NEW a \in 0..MaxTime, CopyIsOut(i, a)' PROVE Spent(i, a)'
  BY DEF CopiesAreSpent
<1>ids. written \subseteq written'
  BY WrittenGrows
<1>time. clock \in Nat /\ clock' \in Nat /\ clock =< clock'
  BY ClockGrows
<1>old. CASE CopyIsOut(i, a)
  <2>was. Spent(i, a)
    BY <1>old DEF OnceInv, CopiesAreSpent
  <2>clocks. clock \in Nat /\ clock' \in Nat /\ Age \in Nat /\ a \in Nat
    BY InboxAssumption DEF TypeOK
  <2>known. i \in written' /\ a =< clock'
    BY <1>ids, <1>time, <2>was, <2>clocks DEF Spent
  <2>aged. clock - a > Age => clock' - a > Age
    BY ONLY <1>time, <2>clocks, OldStaysOld
  <2>same. seen' = seen /\ handled' = handled
    OBVIOUS
  <2> QED
    BY ONLY <2>was, <2>known, <2>aged, <2>same DEF Spent
<1>new. CASE Write(i) /\ a = clock
  <2>unknown. i \notin DOMAIN seen /\ ~(handled[i] > 0)
    BY <1>new DEF Write, OnceInv, Ledger
  <2> QED
    BY <1>new, <2>unknown DEF Spent, Write, TypeOK
<1> QED
  BY <1>old, <1>new, NoNewCopies

\* What is in `seen` afterwards, and what a fresh entry has been through.
LEMMA DispatchStep ==
  ASSUME TypeOK, TypeOK', OnceInv, Dispatch, Skews \subseteq Nat
  PROVE  OnceInv'
<1> USE InboxAssumption
<1>pick. PICK e \in batch, skew \in Skews :
           LET kept == Remembered(seen)
               old == e.id \in DOMAIN kept
           IN  /\ batch' = batch \ {e}
               /\ seen' = [i \in DOMAIN kept \cup {e.id} |->
                             IF old \/ i # e.id THEN kept[i] ELSE clock]
               /\ reader' = IF old THEN "reading" ELSE "removing"
               /\ busy' = IF old THEN Nobody
                          ELSE [id |-> e.id, at |-> e.at, fresh |-> clock + skew - e.at =< Age]
  BY DEF Dispatch
<1> DEFINE kept == Remembered(seen)
           old == e.id \in DOMAIN kept
<1>same. UNCHANGED <<clock, entries, written, stream, handled>>
  BY DEF Dispatch, node
<1>kept. /\ DOMAIN kept = {i \in DOMAIN seen : clock - seen[i] =< Age}
         /\ \A i \in DOMAIN kept : kept[i] = seen[i]
  BY DEF Remembered, Restrict
<1>entry. e.id \in Ids /\ e.at \in 0..MaxTime /\ Copy(e.id, e.at) = e
  BY DEF TypeOK, Entries, Copy
<1>mine. Spent(e.id, e.at)
  BY <1>entry DEF OnceInv, CopiesAreSpent, CopyIsOut
<1>clocks. clock \in Nat /\ \A i \in DOMAIN seen : seen[i] \in Nat
  BY DEF TypeOK
<1>seen. /\ DOMAIN seen' = DOMAIN kept \cup {e.id}
         /\ \A i \in DOMAIN seen' : seen'[i] = IF i \in DOMAIN kept THEN seen[i] ELSE clock
  BY <1>pick, <1>kept
<1>spent. CopiesAreSpent'
  <2> SUFFICES ASSUME NEW i \in Ids, NEW a \in 0..MaxTime, CopyIsOut(i, a)'
               PROVE  Spent(i, a)'
    BY DEF CopiesAreSpent
  <2>out. CopyIsOut(i, a)
    BY <1>pick, <1>same DEF CopyIsOut
  <2>was. Spent(i, a)
    BY <2>out DEF OnceInv, CopiesAreSpent
  <2> HIDE DEF kept
  <2>noted. i \in DOMAIN seen' => a =< seen'[i]
    BY <2>was, <1>kept, <1>seen DEF Spent
  <2>forgotten. i \notin DOMAIN seen' /\ handled[i] > 0 => clock - a > Age
    BY <2>was, <1>kept, <1>seen, <1>clocks DEF Spent
  <2> QED
    BY <2>was, <2>noted, <2>forgotten, <1>same DEF Spent
<1>ledger. Ledger'
  <2>known. DOMAIN seen' \subseteq written
    BY <1>mine, <1>kept, <1>seen DEF OnceInv, Ledger, Spent
  <2>fresh. ~old /\ clock + skew - e.at =< Age => handled[e.id] = 0
    <3> SUFFICES ASSUME ~old, clock + skew - e.at =< Age, handled[e.id] > 0 PROVE FALSE
      <4>count. handled[e.id] \in Nat
        BY <1>entry DEF TypeOK
      <4> QED
        BY <4>count
    <3>numbers. skew \in Nat /\ clock \in Nat /\ e.at \in Int /\ Age \in Nat
      BY <1>clocks, <1>entry
    <3>recent. clock - e.at =< Age
      BY ONLY <3>numbers, clock + skew - e.at =< Age
    <3>noted. e.id \in DOMAIN seen /\ e.at =< seen[e.id]
      BY <1>mine, <3>numbers, <3>recent DEF Spent
    <3>number. seen[e.id] \in Nat
      BY <1>clocks, <3>noted
    <3>forgotten. clock - seen[e.id] > Age
      BY <1>kept, <3>noted, <3>numbers, <3>number
    <3> QED
      BY ONLY <3>numbers, <3>number, <3>recent, <3>forgotten, <3>noted
  <2>next. reader' = "removing" =>
             busy'.id = e.id /\ busy'.fresh = (clock + skew - e.at =< Age) /\ ~old
    BY <1>pick
  <2> QED
    BY <1>same, <1>seen, <2>known, <2>fresh, <2>next DEF OnceInv, Ledger, HandledOnce
<1> QED
  BY <1>spent, <1>ledger DEF OnceInv

\* The request is handed over, if it is: for the first time.
LEMMA RemoveStep ==
  ASSUME TypeOK, TypeOK', OnceInv, RemoveReturns
  PROVE  OnceInv'
<1>same. UNCHANGED <<clock, written, seen>> /\ reader = "removing" /\ reader' = "reading"
  BY DEF RemoveReturns, Delete
<1>mine. busy.id \in Ids /\ busy.id \in DOMAIN seen /\ (busy.fresh => handled[busy.id] = 0)
  BY <1>same DEF TypeOK, Removals, OnceInv, Ledger
<1>count. \A i \in Ids : handled'[i] = handled[i] \/ (i = busy.id /\ handled[i] = 0 /\ handled'[i] = 1)
  BY <1>mine DEF RemoveReturns, Delete, TypeOK
<1>spent. CopiesAreSpent'
  <2> SUFFICES ASSUME NEW i \in Ids, NEW a \in 0..MaxTime, CopyIsOut(i, a)'
               PROVE  Spent(i, a)'
    BY DEF CopiesAreSpent
  <2>out. CopyIsOut(i, a)
    BY NoNewCopies, <1>same DEF Next, Write, RemoveReturns, Delete
  <2> QED
    BY <1>same, <1>mine, <1>count, <2>out DEF OnceInv, CopiesAreSpent, Spent
<1> QED
  BY <1>same, <1>mine, <1>count, <1>spent DEF OnceInv, Ledger, HandledOnce

LEMMA OnceStep ==
  ASSUME TypeOK, TypeOK', OnceInv, [Next]_vars, Skews \subseteq Nat
  PROVE  OnceInv'
<1>quiet. CASE UNCHANGED <<seen, handled, busy>> /\ written \subseteq written'
               /\ (reader' = "removing" => reader = "removing")
  <2>ledger. Ledger'
    BY <1>quiet DEF OnceInv, Ledger, HandledOnce
  <2> QED
    BY <1>quiet, <2>ledger, QuietStep DEF OnceInv
<1>others. \/ \E i \in Ids : Write(i) \/ Withdraw(i)
           \/ Open \/ Receive \/ Drain \/ StreamOver \/ Revoke \/ Break \/ TimePasses
           \/ UNCHANGED vars
           => /\ UNCHANGED <<seen, handled, busy>> /\ written \subseteq written'
              /\ reader' = "removing" => reader = "removing"
  BY DEF Write, Withdraw, Open, Sign, Receive, Drain, StreamOver, Revoke, Break, TimePasses,
         vars, node
<1> QED
  BY <1>quiet, <1>others, DispatchStep, RemoveStep DEF Next

\* Inbox.dispatch(): with a clock that is not behind the server's, no request is
\* handed to the coordinator twice, whatever is lost, replayed or forgotten.
THEOREM HandledAtMostOnce == Skews \subseteq Nat => (Spec => []HandledOnce)
<1> SUFFICES ASSUME Skews \subseteq Nat PROVE Spec => []HandledOnce
  OBVIOUS
<1>start. Init => OnceInv
  BY DEF Init, SignedUp, OnceInv, CopiesAreSpent, CopyIsOut, Carried, Copy, Ledger, HandledOnce,
         NoStream
<1>step. TypeOK /\ TypeOK' /\ OnceInv /\ [Next]_vars => OnceInv'
  BY OnceStep
<1>holds. OnceInv => HandledOnce
  BY DEF OnceInv, Ledger
<1> QED
  BY <1>start, <1>step, <1>holds, TypeCorrect, PTL DEF Spec

-----------------------------------------------------------------------------
\* No request is overlooked.  What an entry of the node waits for, and what ends
\* the waiting.

Settled(i) ==
  \/ handled[i] > 0 \/ TooOld(i)
  \/ reader = "removing" /\ busy.id = i /\ busy.fresh

Awaited(i) ==
  \/ ~stream.up
  \/ Copy(i, entries[i]) \in batch
  \/ Carried(stream.events, Copy(i, entries[i]))

\* Listen: an entry that was neither handled nor is too old is in the batch or in an
\* event still to be read, or the stream is over and the next one begins with it.
NothingOverlooked == \A i \in DOMAIN entries : Settled(i) \/ Awaited(i)

\* Inbox.seen hides no request that was not looked at.
LookedAt == \A i \in DOMAIN entries : i \in DOMAIN seen => Settled(i)

\* All copies of an entry are of one write, and only those come into `seen`.
WrittenOnce ==
  /\ DOMAIN seen \subseteq written
  /\ \A i \in Ids : \A a, b \in 0..MaxTime :
       CopyIsOut(i, a) => i \in written /\ (CopyIsOut(i, b) => a = b)

\* Events are only dropped from a stream that is over.
StreamInv ==
  /\ reader \in {"retry", "draining"} => ~stream.up
  /\ stream.up => \A k \in DOMAIN stream.events : stream.events[k].kind = "put"

HeardInv == WrittenOnce /\ StreamInv /\ LookedAt /\ NothingOverlooked

LEMMA CarriedStays ==
  ASSUME NEW evs \in Seq(Events), NEW ev \in Events, NEW e,
         Carried(evs, e) \/ e \in ev.entries
  PROVE  Carried(Append(evs, ev), e)
<1>long. /\ DOMAIN Append(evs, ev) = 1..Len(evs) + 1 /\ Append(evs, ev)[Len(evs) + 1] = ev
         /\ \A k \in DOMAIN evs : k \in 1..Len(evs) + 1 /\ Append(evs, ev)[k] = evs[k]
  OBVIOUS
<1>last. Len(evs) + 1 \in 1..Len(evs) + 1
  OBVIOUS
<1> QED
  BY ONLY <1>long, <1>last, Carried(evs, e) \/ e \in ev.entries DEF Carried

LEMMA CarriedOn ==
  ASSUME NEW evs \in Seq(Events), evs # <<>>, NEW e, Carried(evs, e)
  PROVE  Carried(Tail(evs), e) \/ e \in Head(evs).entries
<1>where. PICK k \in 1..Len(evs) : e \in evs[k].entries
  BY DEF Carried
<1>first. CASE k = 1
  BY <1>where, <1>first
<1>later. CASE k # 1
  <2>shift. k - 1 \in DOMAIN Tail(evs) /\ Tail(evs)[k - 1] = evs[k]
    BY <1>later
  <2> QED
    BY <1>where, <2>shift DEF Carried
<1> QED
  BY <1>first, <1>later

\* What the node sends on a stream that is up is on it, and nothing is taken off it.
LEMMA SentStays ==
  ASSUME TypeOK, NEW batchOf \in SUBSET Entries, Sends(Put(batchOf)), NEW e,
         ~stream.up \/ Carried(stream.events, e) \/ e \in batchOf
  PROVE  ~stream'.up \/ Carried(stream'.events, e)
<1>shape. stream.events \in Seq(Events) /\ stream \in Streams
  BY DEF TypeOK, Streams
<1>down. CASE ~stream.up
  BY <1>down DEF Sends
<1>up. CASE stream.up
  <2>events. stream'.events = Append(stream.events, Put(batchOf))
    BY <1>up, <1>shape DEF Streams, Sends
  <2> QED
    BY <1>up, <1>shape, <2>events, CarriedStays, PutShape
<1> QED
  BY <1>down, <1>up

LEMMA WrittenOnceStep ==
  ASSUME TypeOK, TypeOK', WrittenOnce, [Next]_vars
  PROVE  WrittenOnce'
<1>copies. ASSUME NEW i \in Ids, NEW a \in 0..MaxTime, NEW b \in 0..MaxTime,
                  CopyIsOut(i, a)'
           PROVE  i \in written' /\ (CopyIsOut(i, b)' => a = b)
  <2>mine. CopyIsOut(i, a) \/ (Write(i) /\ a = clock)
    BY <1>copies, NoNewCopies
  <2>other. CopyIsOut(i, b)' => CopyIsOut(i, b) \/ (Write(i) /\ b = clock)
    BY NoNewCopies
  <2>used. Write(i) => i \notin written /\ i \in written'
    BY DEF Write
  <2> QED
    BY <2>mine, <2>other, <2>used, WrittenGrows DEF WrittenOnce
<1>seen. DOMAIN seen' \subseteq written'
  <2>asIs. CASE UNCHANGED seen
    BY <2>asIs, WrittenGrows DEF WrittenOnce
  <2>noted. CASE Dispatch
    <3>one. PICK e \in batch : DOMAIN seen' = DOMAIN Remembered(seen) \cup {e.id}
      BY <2>noted DEF Dispatch
    <3>entry. e.id \in Ids /\ e.at \in 0..MaxTime /\ Copy(e.id, e.at) = e
      BY DEF TypeOK, Entries, Copy
    <3>mine. e.id \in written
      BY <3>entry DEF WrittenOnce, CopyIsOut
    <3>less. DOMAIN Remembered(seen) \subseteq DOMAIN seen
      BY DEF Remembered, Restrict
    <3> QED
      BY <3>one, <3>mine, <3>less, WrittenGrows DEF WrittenOnce
  <2>others. UNCHANGED seen \/ Dispatch
    BY DEF Next, Write, Withdraw, Open, Sign, RemoveReturns, Delete, Receive, Drain,
           StreamOver, Revoke, Break, TimePasses, vars, node
  <2> QED
    BY <2>asIs, <2>noted, <2>others
<1> QED
  BY <1>copies, <1>seen DEF WrittenOnce

\* An entry that stays in the node is the one it was.
LEMMA EntriesKept ==
  ASSUME TypeOK, WrittenOnce, [Next]_vars, NEW i \in DOMAIN entries'
  PROVE  Write(i) \/ (i \in DOMAIN entries /\ entries'[i] = entries[i])
<1>writes. ASSUME NEW j \in Ids, Write(j), j # i
           PROVE  i \in DOMAIN entries /\ entries'[i] = entries[i]
  BY <1>writes DEF Write
<1>shrinks. ASSUME NEW j, entries' = Restrict(entries, DOMAIN entries \ {j})
            PROVE  i \in DOMAIN entries /\ entries'[i] = entries[i]
  BY <1>shrinks DEF Restrict
<1>asIs. CASE UNCHANGED entries
  BY <1>asIs
<1>ways. \/ \E j \in Ids : Write(j)
         \/ \E j : entries' = Restrict(entries, DOMAIN entries \ {j})
         \/ UNCHANGED entries
  BY DEF Next, Withdraw, Open, Sign, Dispatch, RemoveReturns, Delete, Receive, Drain,
         StreamOver, Revoke, Break, TimePasses, vars, node
<1> QED
  BY <1>writes, <1>shrinks, <1>asIs, <1>ways

\* What ended the waiting does not come undone.
LEMMA SettledStays ==
  ASSUME TypeOK, [Next]_vars, NEW i \in Ids, entries'[i] = entries[i],
         entries[i] \in 0..clock, Settled(i)
  PROVE  Settled(i)'
<1>old. CASE TooOld(i)
  <2>pick. PICK skew \in Skews : clock + skew - entries[i] > Age
    BY <1>old DEF TooOld
  <2>numbers. skew \in Int /\ Age \in Nat /\ entries[i] \in Int
    BY InboxAssumption
  <2>later. clock' + skew - entries[i] > Age
    BY ONLY ClockGrows, TypeOK, [Next]_vars, <2>pick, <2>numbers
  <2> QED
    BY <2>later DEF Settled, TooOld
<1>heard. CASE handled[i] > 0
  <2>grows. handled' = handled \/ handled' = [handled EXCEPT ![busy.id] = @ + 1]
    BY DEF Next, Write, Withdraw, Open, Sign, Dispatch, RemoveReturns, Delete, Receive,
           Drain, StreamOver, Revoke, Break, TimePasses, vars
  <2>more. handled[i] \in Nat /\ (handled'[i] = handled[i] \/ handled'[i] = handled[i] + 1)
    BY <2>grows DEF TypeOK
  <2> QED
    BY ONLY <1>heard, <2>more DEF Settled
<1>removing. CASE reader = "removing" /\ busy.id = i /\ busy.fresh
  <2>comes. CASE RemoveReturns
    <3>counted. handled' = [handled EXCEPT ![i] = @ + 1]
      BY <1>removing, <2>comes DEF RemoveReturns
    <3>number. handled[i] \in Nat /\ handled'[i] = handled[i] + 1
      BY <3>counted DEF TypeOK
    <3> QED
      BY ONLY <3>number DEF Settled
  <2>waits. CASE ~RemoveReturns
    <3> UNCHANGED <<reader, busy>>
      BY <1>removing, <2>waits
         DEF Next, Write, Withdraw, Open, Dispatch, Receive, Drain, StreamOver, Revoke,
             Break, TimePasses, vars
    <3> QED
      BY <1>removing DEF Settled
  <2> QED
    BY <2>comes, <2>waits
<1> QED
  BY <1>old, <1>heard, <1>removing DEF Settled

\* dispatch(): what is put into `seen` is handled once its entry is removed, or stale.
LEMMA LookedAtStep ==
  ASSUME TypeOK, TypeOK', HeardInv, [Next]_vars
  PROVE  LookedAt'
<1> SUFFICES ASSUME NEW i \in DOMAIN entries', i \in DOMAIN seen' PROVE Settled(i)'
  BY DEF LookedAt
<1>id. i \in Ids
  BY DEF TypeOK
<1>old. ~Write(i)
  <2> SUFFICES ASSUME Write(i) PROVE FALSE
    OBVIOUS
  <2> QED
    BY DEF Write, HeardInv, WrittenOnce
<1>same. i \in DOMAIN entries /\ entries'[i] = entries[i] /\ entries[i] \in 0..clock
  BY <1>old, EntriesKept DEF HeardInv, TypeOK
<1>known. CASE i \in DOMAIN seen
  BY <1>known, <1>same, <1>id, SettledStays DEF HeardInv, LookedAt
<1>new. CASE i \notin DOMAIN seen
  <2>noted. Dispatch
    BY <1>new DEF Next, Write, Withdraw, Open, Sign, RemoveReturns, Delete, Receive, Drain,
                  StreamOver, Revoke, Break, TimePasses, vars, node
  <2>pick. PICK e \in batch, skew \in Skews :
             LET kept == Remembered(seen)
                 old == e.id \in DOMAIN kept
             IN  /\ DOMAIN seen' = DOMAIN kept \cup {e.id}
                 /\ reader' = IF old THEN "reading" ELSE "removing"
                 /\ busy' = IF old THEN Nobody
                            ELSE [id |-> e.id, at |-> e.at, fresh |-> clock + skew - e.at =< Age]
    BY <2>noted DEF Dispatch
  <2>less. DOMAIN Remembered(seen) \subseteq DOMAIN seen
    BY DEF Remembered, Restrict
  <2>mine. e.id = i /\ i \notin DOMAIN Remembered(seen)
    BY <1>new, <2>pick, <2>less
  <2>entry. e.at \in 0..MaxTime /\ Copy(i, e.at) = e
    BY <2>mine DEF TypeOK, Entries, Copy
  <2>time. clock \in 0..MaxTime /\ MaxTime \in Nat
    BY InboxAssumption DEF TypeOK
  <2>range. entries[i] \in 0..MaxTime
    BY ONLY <1>same, <2>time
  <2>at. e.at = entries[i]
    BY <1>id, <1>same, <2>entry, <2>range DEF HeardInv, WrittenOnce, CopyIsOut
  <2>now. /\ reader' = "removing" /\ busy'.id = i /\ clock' = clock
          /\ busy'.fresh = (clock + skew - entries[i] =< Age)
    BY <2>noted, <2>pick, <2>mine, <2>at DEF Dispatch
  <2>either. clock + skew - entries[i] =< Age \/ clock + skew - entries[i] > Age
    <3>numbers. clock \in Nat /\ skew \in Int /\ entries[i] \in Nat /\ Age \in Nat
      BY <1>same, InboxAssumption DEF TypeOK
    <3> QED
      BY ONLY <3>numbers
  <2> QED
    BY <1>same, <2>now, <2>either DEF Settled, TooOld
<1> QED
  BY <1>known, <1>new

LEMMA StreamStep ==
  ASSUME TypeOK, StreamInv, [Next]_vars
  PROVE  StreamInv'
<1>shape. stream.events \in Seq(Events) /\ stream \in Streams
  BY DEF TypeOK, Streams
<1>sends. ASSUME NEW batchOf \in SUBSET Entries, Sends(Put(batchOf)),
                 reader' \in {"retry", "draining"} => reader \in {"retry", "draining"}
          PROVE  StreamInv'
  <2>down. CASE ~stream.up
    BY <1>sends, <2>down DEF StreamInv, Sends
  <2>up. CASE stream.up
    <3>events. stream'.events = Append(stream.events, Put(batchOf)) /\ stream'.up = stream.up
      BY <1>sends, <2>up, <1>shape DEF Streams, Sends
    <3>long. DOMAIN stream'.events = 1..Len(stream.events) + 1
             /\ \A k \in 1..Len(stream.events) + 1 :
                  stream'.events[k] = IF k \in DOMAIN stream.events THEN stream.events[k]
                                      ELSE Put(batchOf)
      BY <1>shape, <3>events
    <3>kind. Put(batchOf).kind = "put"
      BY DEF Put
    <3> QED
      BY ONLY StreamInv, <1>sends, <2>up, <3>events, <3>long, <3>kind DEF StreamInv
  <2> QED
    BY <2>down, <2>up
<1>none. {} \in SUBSET Entries
  OBVIOUS
<1>writes. ASSUME NEW j \in Ids, Write(j) PROVE StreamInv'
  <2>entry. {[id |-> j, at |-> clock]} \in SUBSET Entries
    BY DEF TypeOK, Entries
  <2> QED
    BY <1>writes, <1>sends, <2>entry DEF Write
<1>withdraws. ASSUME NEW j \in Ids, Withdraw(j) PROVE StreamInv'
  BY <1>withdraws, <1>sends, <1>none DEF Withdraw
<1>removes. CASE RemoveReturns
  <2>deleted. CASE Delete(busy.id)
    BY <1>removes, <2>deleted, <1>sends, <1>none DEF RemoveReturns, Delete
  <2>kept. CASE UNCHANGED stream
    BY <1>removes, <2>kept DEF RemoveReturns, StreamInv
  <2> QED
    BY <1>removes, <2>deleted, <2>kept DEF RemoveReturns
<1>opens. CASE Open
  <2>fresh. CASE stream' = [up |-> TRUE, events |-> <<Put(Listed(entries))>>, until |-> token']
    <3>kind. \A k \in DOMAIN stream'.events : stream'.events[k].kind = "put"
      BY <2>fresh DEF Put
    <3>reader. reader' = "reading" \/ UNCHANGED <<stream, reader>>
      BY <1>opens DEF Open
    <3> QED
      BY <2>fresh, <3>kind, <3>reader DEF StreamInv
  <2>failed. CASE UNCHANGED <<stream, reader>>
    BY <2>failed DEF StreamInv
  <2> QED
    BY <1>opens, <2>fresh, <2>failed DEF Open
<1>receives. CASE Receive
  <2>events. stream'.events = Tail(stream.events) /\ stream'.up = stream.up
    BY <1>receives, <1>shape DEF Receive, Streams
  <2>first. stream.events # <<>> /\ Head(stream.events) = stream.events[1] /\ 1 \in DOMAIN stream.events
    BY <1>receives, <1>shape DEF Receive
  <2>rest. \A k \in DOMAIN Tail(stream.events) :
             k + 1 \in DOMAIN stream.events /\ Tail(stream.events)[k] = stream.events[k + 1]
    BY <1>shape, <2>first
  <2>reader. reader' = "reading" \/ (reader' = "draining" /\ ~stream.up)
    BY <1>receives, <2>first DEF Receive, StreamInv
  <2>kinds. stream'.up => \A k \in DOMAIN stream'.events : stream'.events[k].kind = "put"
    BY ONLY StreamInv, <2>events, <2>rest DEF StreamInv
  <2> QED
    BY ONLY <2>events, <2>kinds, <2>reader DEF StreamInv
<1>drains. CASE Drain
  <2>up. stream'.up = stream.up
    BY <1>drains, <1>shape DEF Drain, Streams
  <2> QED
    BY <1>drains, <2>up DEF Drain, StreamInv
<1>ends. CASE Revoke \/ Break
  BY <1>ends DEF Revoke, Break, Ended, StreamInv
<1>others. CASE StreamOver \/ Dispatch \/ TimePasses \/ UNCHANGED vars
  BY <1>others DEF StreamOver, Dispatch, TimePasses, vars, StreamInv
<1> QED
  BY <1>writes, <1>withdraws, <1>opens, <1>removes, <1>receives, <1>drains, <1>ends,
     <1>others DEF Next

\* An entry that waits is not lost from sight by a step, or it is looked at.
LEMMA OverlookedStep ==
  ASSUME TypeOK, TypeOK', HeardInv, LookedAt', [Next]_vars
  PROVE  NothingOverlooked'
<1> SUFFICES ASSUME NEW i \in DOMAIN entries' PROVE Settled(i)' \/ Awaited(i)'
  BY DEF NothingOverlooked
<1>id. i \in Ids
  BY DEF TypeOK
<1>shape. stream.events \in Seq(Events) /\ stream \in Streams
  BY DEF TypeOK, Streams
<1>new. CASE Write(i)
  <2>entry. {Copy(i, clock)} \in SUBSET Entries
    BY <1>id DEF TypeOK, Entries, Copy
  <2>sent. Sends(Put({Copy(i, clock)})) /\ entries'[i] = clock
    BY <1>new DEF Write, Copy
  <2> QED
    BY <2>entry, <2>sent, SentStays DEF Awaited
<1>same. CASE i \in DOMAIN entries /\ entries'[i] = entries[i]
  <2> DEFINE e == Copy(i, entries[i])
  <2>range. entries[i] \in 0..clock
    BY <1>same DEF TypeOK
  <2>done. CASE Settled(i)
    BY <1>id, <1>same, <2>range, <2>done, SettledStays
  <2>waits. CASE Awaited(i)
    <3>sends. ASSUME NEW batchOf \in SUBSET Entries, Sends(Put(batchOf)), UNCHANGED batch
              PROVE  Awaited(i)'
      BY <1>same, <2>waits, <3>sends, SentStays DEF Awaited
    <3>none. {} \in SUBSET Entries
      OBVIOUS
    <3>writes. ASSUME NEW j \in Ids, Write(j) PROVE Awaited(i)'
      <4>entry. {[id |-> j, at |-> clock]} \in SUBSET Entries
        BY DEF TypeOK, Entries
      <4> QED
        BY <3>writes, <3>sends, <4>entry DEF Write
    <3>withdraws. ASSUME NEW j \in Ids, Withdraw(j) PROVE Awaited(i)'
      BY <3>withdraws, <3>sends, <3>none DEF Withdraw
    <3>removes. CASE RemoveReturns
      <4>deleted. CASE Delete(busy.id)
        BY <3>removes, <4>deleted, <3>sends, <3>none DEF RemoveReturns, Delete
      <4>kept. CASE UNCHANGED stream
        BY <1>same, <2>waits, <3>removes, <4>kept DEF RemoveReturns, Awaited
      <4> QED
        BY <3>removes, <4>deleted, <4>kept DEF RemoveReturns
    <3>opens. CASE Open
      <4>fresh. CASE stream'.events = <<Put(Listed(entries))>>
        <5>listed. e \in Put(Listed(entries)).entries
          BY <1>same DEF Put, Listed, Copy
        <5> QED
          BY <1>same, <4>fresh, <5>listed DEF Awaited, Carried
      <4>failed. CASE UNCHANGED stream
        BY <1>same, <2>waits, <3>opens, <4>failed DEF Open, Awaited
      <4> QED
        BY <3>opens, <4>fresh, <4>failed DEF Open
    <3>dispatches. CASE Dispatch
      <4>one. PICK f \in batch : batch' = batch \ {f} /\ f.id \in DOMAIN seen'
        BY <3>dispatches DEF Dispatch
      <4>mine. CASE f = e
        <5>noted. i \in DOMAIN seen'
          BY <4>one, <4>mine DEF Copy
        <5> QED
          BY <5>noted DEF LookedAt
      <4>other. CASE f # e
        BY <1>same, <2>waits, <3>dispatches, <4>one, <4>other DEF Dispatch, Awaited
      <4> QED
        BY <4>mine, <4>other
    <3>receives. CASE Receive
      <4>events. /\ stream'.events = Tail(stream.events) /\ stream'.up = stream.up
                 /\ batch = {} /\ stream.events # <<>>
        BY <3>receives, <1>shape DEF Receive, Streams
      <4>first. Head(stream.events) = stream.events[1] /\ 1 \in DOMAIN stream.events
        BY <1>shape, <4>events
      <4>put. ~stream.up \/ batch' = Head(stream.events).entries
        BY <3>receives, <4>first DEF Receive, HeardInv, StreamInv
      <4>on. ~stream.up \/ Carried(Tail(stream.events), e) \/ e \in Head(stream.events).entries
        BY <1>shape, <2>waits, <4>events, CarriedOn DEF Awaited
      <4> QED
        BY ONLY <1>same, <4>events, <4>put, <4>on DEF Awaited
    <3>drains. CASE Drain
      <4>down. ~stream'.up
        BY <3>drains, <1>shape DEF Drain, Streams, HeardInv, StreamInv
      <4> QED
        BY <4>down DEF Awaited
    <3>ends. CASE Revoke \/ Break
      BY <3>ends DEF Revoke, Break, Ended, Awaited
    <3>others. CASE StreamOver \/ TimePasses \/ UNCHANGED vars
      BY <1>same, <2>waits, <3>others DEF StreamOver, TimePasses, vars, Awaited
    <3> QED
      BY <3>writes, <3>withdraws, <3>removes, <3>opens, <3>dispatches, <3>receives,
         <3>drains, <3>ends, <3>others DEF Next
  <2> QED
    BY <1>same, <2>done, <2>waits DEF HeardInv, NothingOverlooked
<1> QED
  BY <1>new, <1>same, EntriesKept DEF HeardInv

\* Listen: whatever breaks, is revoked, withdrawn or forgotten, and whatever the skew of
\* the clocks, a request in the node that is young enough was handed to the coordinator
\* or is still going to be read.  What is left to EveryRequestIsHeard is that the agent
\* goes on.
THEOREM NoRequestIsOverlooked == Spec => []NothingOverlooked
<1>start. Init => HeardInv
  BY DEF Init, HeardInv, WrittenOnce, CopyIsOut, Carried, StreamInv, LookedAt,
         NothingOverlooked, NoStream
<1>step. TypeOK /\ TypeOK' /\ HeardInv /\ [Next]_vars => HeardInv'
  BY WrittenOnceStep, StreamStep, LookedAtStep, OverlookedStep DEF HeardInv
<1>holds. HeardInv => NothingOverlooked
  BY DEF HeardInv
<1> QED
  BY <1>start, <1>step, <1>holds, TypeCorrect, PTL DEF Spec
=============================================================================
