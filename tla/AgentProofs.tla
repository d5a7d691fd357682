------------------------------- MODULE AgentProofs -------------------------------
(***************************************************************************)
(* Safety of the agent's two faces.  HostRecord: the record and the code,  *)
(* for every set of codes and of rotations, and every number of attempts.  *)
(* StatusWindow: the window, however far its thread is behind.             *)
(***************************************************************************)
EXTENDS HostRecord, StatusWindow, TLAPS

\* A step keeps every variable in its type.
LEMMA TypeStep == TypeOK /\ [Next]_vars => TypeOK'
<1> SUFFICES ASSUME TypeOK, [Next]_vars PROVE TypeOK'
  OBVIOUS
<1> USE HostRecordAssumption DEF TypeOK, Stages, Jobs, recordVars, jobVars
<1>1. ASSUME NEW j \in Jobs, Register(j) PROVE TypeOK'
  <2>1. PICK c \in Codes : drawn' = drawn \cup {c}
    BY <1>1 DEF Register, NewCode
  <2>2. CASE UNCHANGED recordVars
    BY <1>1, <2>1, <2>2 DEF Register, NewCode, Fail, Jump, AnotherCode, PutRecord
  <2>3. CASE ~UNCHANGED recordVars
    BY <1>1, <2>1, <2>3 DEF Register, NewCode, Fail, Jump, AnotherCode, PutRecord
  <2>4. QED
    BY <2>2, <2>3
<1>2. ASSUME NEW j \in Jobs, SetCurrent(j) PROVE TypeOK'
  BY <1>2 DEF SetCurrent, Jump
<1>3. ASSUME NEW j \in Jobs, StartRotation(j) PROVE TypeOK'
  BY <1>3 DEF StartRotation, Jump
<1>4. ASSUME NEW j \in Jobs, RetireOld(j) PROVE TypeOK'
  BY <1>4 DEF RetireOld, Jump, DeleteRecord
<1>5. ASSUME NEW j \in Jobs, Announce(j) PROVE TypeOK'
  BY <1>5 DEF Announce, Jump
<1>6. CASE Heartbeat
  BY <1>6 DEF Heartbeat, Refresh, Refreshable
<1>7. CASE Shutdown \/ Withdraw \/ Exit
  BY <1>7 DEF Shutdown, Withdraw, Exit, DeleteRecord
<1>8. ASSUME NEW c \in Codes, Ages(c) \/ CollectGarbage(c) \/ OtherAgent(c) PROVE TypeOK'
  BY <1>8 DEF Ages, CollectGarbage, OtherAgent, DeleteRecord, PutRecord
<1>9. CASE ContactChanges
  BY <1>9 DEF ContactChanges
<1>10. CASE UNCHANGED vars
  BY <1>10 DEF vars
<1>11. QED
  BY <1>1, <1>2, <1>3, <1>4, <1>5, <1>6, <1>7, <1>8, <1>9, <1>10 DEF Next

\* Every variable keeps its type; no job makes more than registerAttempts
\* attempts.
THEOREM TypeCorrect == Spec => []TypeOK
<1>1. Init => TypeOK
  BY HostRecordAssumption DEF Init, TypeOK, Stages, Jobs
<1>2. QED
  BY <1>1, TypeStep, PTL DEF Spec

\* A live record changes hands in no step: every put and delete asks WritableBy.
LEMMA HandsOff ==
  ASSUME TypeOK, [Next]_vars, NEW c \in Codes, owner[c] # "none", age[c] # "stale"
  PROVE  owner'[c] \in {owner[c], "none"}
<1> USE HostRecordAssumption DEF TypeOK, recordVars, jobVars, WritableBy, PutRecord,
                                 DeleteRecord
<1>idle. CASE UNCHANGED vars
  BY <1>idle DEF vars
<1>others. ASSUME NEW d \in Codes, Ages(d) \/ CollectGarbage(d) \/ OtherAgent(d)
           PROVE  owner'[c] \in {owner[c], "none"}
  BY <1>others DEF Ages, CollectGarbage, OtherAgent
<1>agent. CASE Heartbeat \/ Shutdown \/ Withdraw \/ Exit \/ ContactChanges
  BY <1>agent DEF Heartbeat, Refresh, Refreshable, Shutdown, Withdraw, Exit, ContactChanges
<1>register. ASSUME NEW j \in Jobs, Register(j) PROVE owner'[c] \in {owner[c], "none"}
  BY <1>register DEF Register, NewCode
<1>rotate. ASSUME NEW j \in Jobs,
                  SetCurrent(j) \/ StartRotation(j) \/ RetireOld(j) \/ Announce(j)
           PROVE  owner'[c] \in {owner[c], "none"}
  BY <1>rotate DEF SetCurrent, StartRotation, RetireOld, Announce
<1> QED
  BY <1>idle, <1>others, <1>agent, <1>register, <1>rotate DEF Next

\* A record that is still being refreshed is not taken over by anyone.
THEOREM CodesStayPut == Spec => LiveRecordIsSafe
<1> DEFINE Safe == \A c \in Codes :
             owner[c] # "none" /\ age[c] # "stale" => owner'[c] \in {owner[c], "none"}
<1>step. TypeOK /\ [Next]_vars => Safe
  BY HandsOff
<1> QED
  BY <1>step, TypeCorrect, PTL DEF Spec, LiveRecordIsSafe

-----------------------------------------------------------------------------
(***************************************************************************)
(* What makes rotation safe when no code is drawn twice: a published code  *)
(* on its way to being current is nobody's old code and is kept alive, and *)
(* what a rotation retires is current no more.                             *)
(***************************************************************************)
PublishedIsKept ==
  \A i \in Jobs : at[i] = "set" /\ Alive =>
    /\ fresh[i] \in Codes
    /\ owner[fresh[i]] = "self" /\ age[fresh[i]] # "stale"

PublishedIsNew ==
  \A i \in Jobs : at[i] = "set" =>
    /\ fresh[i] \in drawn
    /\ fresh[i] # current
    /\ \A j \in Jobs : old[j] # fresh[i]
    /\ \A j \in Jobs \ {i} : at[j] = "set" => fresh[j] # fresh[i]

RetiredIsOld ==
  \A j \in Jobs : at[j] = "retire" => old[j] # current

Drawn ==
  /\ current \in drawn \cup {NoCode}
  /\ \A j \in Jobs : old[j] \in drawn \cup {NoCode}
  /\ life = "running" => current \in drawn
  /\ \A j \in Jobs : at[j] = "idle" => old[j] = NoCode

BootFirst ==
  /\ at[Boot] \in {"register", "set"} => life \in {"starting", "over"}
  /\ life = "starting" => at[Boot] \in {"register", "set"}
  /\ at[Boot] # "retire"
  /\ life = "starting" => \A j \in Rotations : at[j] = "idle"

RotationInv ==
  TypeOK /\ PublishedIsKept /\ PublishedIsNew /\ RetiredIsOld /\ Drawn /\ BootFirst

LEMMA InitRotation == Init => RotationInv
  BY HostRecordAssumption
     DEF Init, RotationInv, TypeOK, Stages, Jobs, PublishedIsKept, PublishedIsNew,
         RetiredIsOld, Drawn, BootFirst

LEMMA RotationStep == ~Redraws /\ RotationInv /\ [Next]_vars => RotationInv'
<1> SUFFICES ASSUME ~Redraws, RotationInv, [Next]_vars PROVE RotationInv'
  OBVIOUS
<1>1. TypeOK'
  BY TypeStep DEF RotationInv
<1> USE HostRecordAssumption, <1>1
    DEF RotationInv, PublishedIsKept, PublishedIsNew, RetiredIsOld, Drawn, BootFirst,
        Alive, Jump, recordVars, jobVars
<1>2. ASSUME NEW j \in Jobs, Register(j) PROVE RotationInv'
  <2>drawn. PICK c \in Codes : /\ c \notin drawn /\ drawn' = drawn \cup {c}
                               /\ \/ UNCHANGED recordVars /\ at'[j] # "set"
                                  \/ PutRecord(c, "self") /\ (at'[j] = "set" => fresh'[j] = c)
    BY <1>2 DEF Register, NewCode, Fail, AnotherCode, TypeOK
  <2>others. /\ \A i \in Jobs \ {j} : at'[i] = at[i] /\ fresh'[i] = fresh[i]
             /\ UNCHANGED <<current, old>>
             /\ at'[j] \in {"register", "set", "done"} /\ at[j] = "register" /\ life # "over"
             /\ life' = life \/ (life' = "over" /\ j = Boot)
             /\ at'[j] = "set" => life' \in {"starting", "running"} /\ life' = life
             /\ at'[j] = "done" => (j = Boot => life' = "over")
    BY <1>2 DEF Register, NewCode, Fail, AnotherCode, TypeOK
  <2>kept. PublishedIsKept'
    BY <2>drawn, <2>others DEF PutRecord, TypeOK
  <2>new. PublishedIsNew'
    BY <2>drawn, <2>others DEF TypeOK
  <2>old. RetiredIsOld' /\ Drawn'
    BY <2>drawn, <2>others DEF TypeOK
  <2>boot. BootFirst'
    BY <2>others DEF Jobs
  <2> QED
    BY <2>kept, <2>new, <2>old, <2>boot
<1>3. ASSUME NEW j \in Jobs, SetCurrent(j) PROVE RotationInv'
  <2> USE <1>3 DEF SetCurrent, TypeOK
  <2>kept. PublishedIsKept'
    OBVIOUS
  <2>new. PublishedIsNew'
    OBVIOUS
  <2>old. RetiredIsOld'
    OBVIOUS
  <2>drawn. Drawn'
    OBVIOUS
  <2>boot. BootFirst'
    BY DEF Jobs
  <2> QED
    BY <2>kept, <2>new, <2>old, <2>drawn, <2>boot
<1>4. ASSUME NEW j \in Jobs, StartRotation(j) PROVE RotationInv'
  BY <1>4 DEF StartRotation, TypeOK, Jobs
<1>5. ASSUME NEW j \in Jobs, RetireOld(j) PROVE RotationInv'
  <2>1. \A c \in Codes : c # old[j] => owner'[c] = owner[c] /\ age'[c] = age[c]
    BY <1>5 DEF RetireOld, DeleteRecord, TypeOK
  <2>2. PublishedIsKept'
    BY <1>5, <2>1 DEF RetireOld, TypeOK
  <2>3. QED
    BY <1>5, <2>2 DEF RetireOld, TypeOK, Jobs
<1>6. ASSUME NEW j \in Jobs, Announce(j) PROVE RotationInv'
  BY <1>6 DEF Announce, TypeOK, Jobs
<1>7. CASE Heartbeat
  BY <1>7 DEF Heartbeat, Refresh, Refreshable, TypeOK
<1>8. CASE Shutdown \/ Exit \/ ContactChanges
  BY <1>8 DEF Shutdown, Exit, ContactChanges
<1>9. CASE Withdraw
  <2>1. \A c \in Codes : c # current => owner'[c] = owner[c] /\ age'[c] = age[c]
    BY <1>9 DEF Withdraw, DeleteRecord, TypeOK
  <2>2. PublishedIsKept'
    BY <1>9, <2>1 DEF Withdraw
  <2>3. QED
    BY <1>9, <2>2 DEF Withdraw
<1>10. ASSUME NEW c \in Codes, Ages(c) \/ CollectGarbage(c) \/ OtherAgent(c)
       PROVE RotationInv'
  <2>1. \A d \in Codes : owner[d] = "self" /\ age[d] # "stale" => owner'[d] = "self"
    BY <1>10 DEF Ages, CollectGarbage, OtherAgent, DeleteRecord, PutRecord, WritableBy, TypeOK
  <2>2. \A d \in Codes : owner[d] = "self" /\ age[d] # "stale" /\ KeptFresh(d) => age'[d] # "stale"
    BY <1>10 DEF Ages, CollectGarbage, OtherAgent, DeleteRecord, PutRecord, WritableBy, TypeOK
  <2>3. UNCHANGED <<life, contact, current, shown, drawn, jobVars>>
    BY <1>10 DEF Ages, CollectGarbage, OtherAgent
  <2>4. PublishedIsKept'
    BY <2>1, <2>2, <2>3 DEF KeptFresh
  <2>5. QED
    BY <2>3, <2>4
<1>11. CASE UNCHANGED vars
  BY <1>11 DEF vars
<1>12. QED
  BY <1>2, <1>3, <1>4, <1>5, <1>6, <1>7, <1>8, <1>9, <1>10, <1>11 DEF Next

LEMMA RotationInvariant == ~Redraws => (Spec => []RotationInv)
<1> SUFFICES ASSUME ~Redraws PROVE Spec => []RotationInv
  OBVIOUS
<1> QED
  BY InitRotation, RotationStep, PTL DEF Spec

\* rotateCode() never leaves the machine without a code, as long as no code is
\* drawn twice: however many rotations overlap, whatever fails.
THEOREM RotationKeepsACode == ~Redraws => (Spec => NeverWithoutCode)
<1> SUFFICES ASSUME ~Redraws PROVE Spec => NeverWithoutCode
  OBVIOUS
<1> DEFINE Kept == life = "running" /\ life' = "running"
                     /\ owner[current] = "self" /\ age[current] # "stale"
                   => owner'[current'] = "self"
<1>1. RotationInv /\ [Next]_vars => Kept
  <2> SUFFICES ASSUME RotationInv, [Next]_vars, life = "running", life' = "running",
                      owner[current] = "self", age[current] # "stale"
               PROVE  owner'[current'] = "self"
    OBVIOUS
  <2> USE HostRecordAssumption
      DEF RotationInv, TypeOK, PublishedIsKept, RetiredIsOld, Drawn, Alive,
          recordVars, jobVars, WritableBy, PutRecord, DeleteRecord
  <2>register. ASSUME NEW j \in Jobs, Register(j) PROVE owner'[current'] = "self"
    BY <2>register DEF Register, NewCode
  <2>current. ASSUME NEW j \in Jobs, SetCurrent(j) PROVE owner'[current'] = "self"
    BY <2>current DEF SetCurrent
  <2>retire. ASSUME NEW j \in Jobs, RetireOld(j) PROVE owner'[current'] = "self"
    BY <2>retire DEF RetireOld
  <2>rotate. ASSUME NEW j \in Jobs, StartRotation(j) \/ Announce(j)
        PROVE  owner'[current'] = "self"
    BY <2>rotate DEF StartRotation, Announce
  <2>agent. CASE Heartbeat \/ Shutdown \/ Withdraw \/ Exit \/ ContactChanges
    BY <2>agent DEF Heartbeat, Refresh, Refreshable, Shutdown, Withdraw, Exit, ContactChanges
  <2>database. ASSUME NEW c \in Codes, Ages(c) \/ CollectGarbage(c) \/ OtherAgent(c)
        PROVE  owner'[current'] = "self"
    BY <2>database DEF Ages, CollectGarbage, OtherAgent
  <2>stays. CASE UNCHANGED vars
    BY <2>stays DEF vars
  <2> QED
    BY <2>register, <2>current, <2>retire, <2>rotate, <2>agent, <2>database, <2>stays DEF Next
<1>2. QED
  BY <1>1, RotationInvariant, PTL DEF Spec, NeverWithoutCode

\* A code some rotation has replaced.
Replaced(c) == current # c /\ \E j \in Rotations : old[j] = c

LEMMA ReplacedStep ==
  ASSUME ~Redraws, RotationInv, [Next]_vars, NEW c \in Codes, Replaced(c)
  PROVE  /\ Replaced(c)'
         /\ owner'[c] = "self" => owner[c] = "self" /\ (age'[c] = "fresh" => age[c] = "fresh")
<1> DEFINE Stays == Replaced(c)'
           Ebbs == owner'[c] = "self" =>
                     owner[c] = "self" /\ (age'[c] = "fresh" => age[c] = "fresh")
<1> USE HostRecordAssumption DEF Replaced, RotationInv, TypeOK, Drawn, recordVars, jobVars, Jobs
<1>register. ASSUME NEW j \in Jobs, Register(j) PROVE Stays /\ Ebbs
  BY <1>register DEF Register, NewCode, PutRecord
<1>current. ASSUME NEW j \in Jobs, SetCurrent(j) PROVE Stays /\ Ebbs
  BY <1>current DEF SetCurrent, PublishedIsNew
<1>start. ASSUME NEW j \in Jobs, StartRotation(j) PROVE Stays /\ Ebbs
  BY <1>start DEF StartRotation
<1>retire. ASSUME NEW j \in Jobs, RetireOld(j) \/ Announce(j) PROVE Stays /\ Ebbs
  BY <1>retire DEF RetireOld, Announce, DeleteRecord
<1>heartbeat. CASE Heartbeat
  BY <1>heartbeat DEF Heartbeat, Refresh, Refreshable
<1>agent. CASE Shutdown \/ Withdraw \/ Exit \/ ContactChanges
  BY <1>agent DEF Shutdown, Withdraw, Exit, ContactChanges, DeleteRecord
<1>database. ASSUME NEW d \in Codes, Ages(d) \/ CollectGarbage(d) \/ OtherAgent(d)
             PROVE  Stays /\ Ebbs
  BY <1>database DEF Ages, CollectGarbage, OtherAgent, DeleteRecord, PutRecord
<1>idle. CASE UNCHANGED vars
  BY <1>idle DEF vars
<1> QED
  BY <1>register, <1>current, <1>start, <1>retire, <1>heartbeat, <1>agent, <1>database, <1>idle
     DEF Next

\* rotateCode, Unregister, Heartbeat: a replaced code is replaced for good, and no
\* step of the agent publishes or refreshes its record again, retired or not: all
\* that is left of it is to age, which is what ReplacedCodeDies then waits for.
THEOREM ReplacedCodeFades ==
  ~Redraws => (Spec => [][\A c \in Codes : Replaced(c) =>
    /\ Replaced(c)'
    /\ owner'[c] = "self" => owner[c] = "self" /\ (age'[c] = "fresh" => age[c] = "fresh")]_vars)
<1> SUFFICES ASSUME ~Redraws
             PROVE  Spec => [][\A c \in Codes : Replaced(c) =>
                      /\ Replaced(c)'
                      /\ owner'[c] = "self" =>
                           owner[c] = "self" /\ (age'[c] = "fresh" => age[c] = "fresh")]_vars
  OBVIOUS
<1> DEFINE Fades == \A c \in Codes : Replaced(c) =>
             /\ Replaced(c)'
             /\ owner'[c] = "self" =>
                  owner[c] = "self" /\ (age'[c] = "fresh" => age[c] = "fresh")
<1>1. RotationInv /\ [Next]_vars => Fades
  BY ReplacedStep
<1>2. QED
  BY <1>1, RotationInvariant, PTL DEF Spec

-----------------------------------------------------------------------------
(***************************************************************************)
(* The window.                                                             *)
(***************************************************************************)
\* A message is in a queue; in the UI thread's.
Holds(s, m) == \E i \in DOMAIN s : s[i] = m
Told(m) == Holds(queue.messages, m)

\* A message goes to the end of the queue and is taken from its front.
LEMMA Posted ==
  ASSUME NEW S, NEW s \in Seq(S), NEW x \in S, NEW m
  PROVE  /\ Append(s, x) \in Seq(S)
         /\ Holds(Append(s, x), m) <=> m = x \/ Holds(s, m)
<1> DEFINE t == Append(s, x)
<1>1. /\ t \in Seq(S) /\ DOMAIN t = 1 .. Len(s) + 1 /\ DOMAIN s = 1 .. Len(s) /\ Len(s) \in Nat
      /\ t[Len(s) + 1] = x /\ \A i \in 1 .. Len(s) : t[i] = s[i]
  OBVIOUS
<1>2. \A i \in 1 .. Len(s) + 1 : i \in 1 .. Len(s) \/ i = Len(s) + 1
  BY <1>1
<1>3. Len(s) + 1 \in 1 .. Len(s) + 1 /\ \A i \in 1 .. Len(s) : i \in 1 .. Len(s) + 1
  BY <1>1
<1> HIDE DEF t
<1>4. Holds(t, m) <=> m = x \/ Holds(s, m)
  BY <1>1, <1>2, <1>3 DEF Holds
<1>5. QED
  BY <1>1, <1>4 DEF t

LEMMA Taken ==
  ASSUME NEW S, NEW s \in Seq(S), s # <<>>, NEW m
  PROVE  /\ Tail(s) \in Seq(S) /\ Head(s) \in S
         /\ Holds(s, m) <=> m = Head(s) \/ Holds(Tail(s), m)
<1> DEFINE t == Tail(s)
<1>1. /\ t \in Seq(S) /\ Head(s) = s[1] /\ s[1] \in S /\ 1 \in DOMAIN s /\ Len(s) \in Nat \ {0}
      /\ DOMAIN t = 1 .. Len(s) - 1 /\ DOMAIN s = 1 .. Len(s)
      /\ \A i \in 1 .. Len(s) - 1 : t[i] = s[i + 1]
  OBVIOUS
<1>2. \A i \in 1 .. Len(s) : i = 1 \/ (i - 1 \in 1 .. Len(s) - 1 /\ i - 1 + 1 = i)
  BY <1>1
<1>3. \A i \in 1 .. Len(s) - 1 : i + 1 \in 1 .. Len(s)
  BY <1>1
<1> HIDE DEF t
<1>4. \A i \in 1 .. Len(s) : i = 1 \/ (i - 1 \in DOMAIN t /\ t[i - 1] = s[i])
  BY <1>1, <1>2
<1>5. Holds(s, m) <=> m = Head(s) \/ Holds(t, m)
  BY <1>1, <1>3, <1>4 DEF Holds
<1>6. QED
  BY <1>1, <1>5 DEF t

-----------------------------------------------------------------------------
\* The updates of a burst, as a goroutine goes on to post them.
LEMMA Bursts ==
  /\ <<>> \in Seq(Updates)
  /\ \A u \in Updates : <<u>> \in Seq(Updates)
  /\ \A u, w \in Updates : <<u, w>> \in Seq(Updates)
  OBVIOUS

LEMMA UpdatesAre ==
  /\ \A s \in Statuses : Status(s) \in Updates
  /\ Code("first") \in Updates /\ Code("second") \in Updates /\ Newer \in Updates
  /\ \A u \in Updates : u.kind = "code" => u.what \in {"first", "second"}
  /\ \A u \in Updates : u.kind = "status" => u.what \in Statuses
  BY DEF Updates, Status, Code, Newer, Statuses

LEMMA Typed ==
  ASSUME NEW S, NEW s \in Seq(S)
  PROVE  \A i \in DOMAIN s : s[i] \in S
  OBVIOUS

LEMMA QueueShape ==
  ASSUME WindowTypeOK
  PROVE  /\ queue.pending \in Seq(Updates) /\ queue.messages \in Seq(Messages)
         /\ queue.wake \in BOOLEAN
         /\ queue = [pending |-> queue.pending, wake |-> queue.wake, messages |-> queue.messages]
<1>1. queue \in [pending : Seq(Updates), wake : BOOLEAN, messages : Seq(Messages)]
  BY DEF WindowTypeOK, QueueOK
<1>2. QED
  BY <1>1

\* What a control shows after a batch is what it showed, or one of its updates.
LEMMA ShowsOne ==
  ASSUME WindowTypeOK, NEW kind, NEW before, NEW text \in Shows(kind, before)
  PROVE  \/ OfKind(kind) = {} /\ text = before
         \/ OfKind(kind) # {} /\ \E u \in Updates : u.kind = kind /\ u.what = text
<1>1. \A i \in DOMAIN queue.pending : queue.pending[i] \in Updates
  BY ONLY QueueShape, WindowTypeOK, Typed
<1>2. QED
  BY <1>1 DEF Shows, OfKind

LEMMA DrainShows ==
  ASSUME WindowTypeOK, Drain
  PROVE  \E code \in {"Starting", "first", "second", "Could not start"},
            status \in {"", "see the log"} \cup Statuses :
           /\ win' = [win EXCEPT !.code = code, !.status = status,
                                 !.copy = @ \/ (OfKind("code") # {} /\ Copyable),
                                 !.newer = @ \/ OfKind("update") # {}]
           /\ OfKind("code") # {} => code \in {"first", "second"}
           /\ OfKind("code") = {} => code = win.code
<1>1. PICK code \in Shows("code", win.code), status \in Shows("status", win.status) :
           win' = [win EXCEPT !.code = code, !.status = status,
                              !.copy = @ \/ (OfKind("code") # {} /\ Copyable),
                              !.newer = @ \/ OfKind("update") # {}]
  BY DEF Drain
<1>2. win.code \in {"Starting", "first", "second", "Could not start"}
      /\ win.status \in {"", "see the log"} \cup Statuses
  BY DEF WindowTypeOK, ControlsOK
<1>3. \/ OfKind("code") = {} /\ code = win.code
      \/ OfKind("code") # {} /\ \E u \in Updates : u.kind = "code" /\ u.what = code
  BY ONLY ShowsOne, WindowTypeOK, code \in Shows("code", win.code)
<1>4. \/ status = win.status
      \/ \E u \in Updates : u.kind = "status" /\ u.what = status
  BY ONLY ShowsOne, WindowTypeOK, status \in Shows("status", win.status)
<1>5. /\ code \in {"Starting", "first", "second", "Could not start"}
      /\ OfKind("code") # {} => code \in {"first", "second"}
      /\ OfKind("code") = {} => code = win.code
  BY ONLY <1>2, <1>3, UpdatesAre
<1>6. status \in {"", "see the log"} \cup Statuses
  BY ONLY <1>2, <1>4, UpdatesAre
<1>7. QED
  BY ONLY <1>1, <1>5, <1>6

\* What a goroutine says is a burst of updates.
LEMMA SaysTyped ==
  ASSUME PostsOK, UNCHANGED post,
         \/ UNCHANGED say
         \/ \E g \in Goroutines : \E updates \in Seq(Updates) : Says(g, updates)
  PROVE  PostsOK'
  BY DEF PostsOK, Says

\* What becomes of the queue in one step.
LEMMA QueueTyped ==
  ASSUME WindowTypeOK,
         \/ queue' = queue
         \/ \E m \in Messages : queue' = [queue EXCEPT !.messages = Append(@, m)]
         \/ \E m \in Messages : queue' = [queue EXCEPT !.wake = TRUE, !.messages = Append(@, m)]
         \/ queue.messages # <<>> /\ queue' = [queue EXCEPT !.messages = Tail(@)]
         \/ queue.messages # <<>> /\ queue' = [queue EXCEPT !.messages = Tail(@), !.wake = FALSE]
         \/ queue' = [queue EXCEPT !.pending = <<>>]
         \/ \E u \in Updates : /\ Len(queue.pending) < MaxPending
                               /\ queue' = [queue EXCEPT !.pending = Append(@, u)]
  PROVE  QueueOK'
<1> DEFINE p == queue.pending
           w == queue.wake
           m == queue.messages
<1> HIDE DEF p, w, m
<1>shape. /\ p \in Seq(Updates) /\ w \in BOOLEAN /\ m \in Seq(Messages)
          /\ queue = [pending |-> p, wake |-> w, messages |-> m]
  BY ONLY QueueShape, WindowTypeOK DEF p, w, m
<1>bound. Len(p) <= MaxPending /\ MaxPending \in Nat
  BY ONLY WindowTypeOK, WindowAssumption DEF WindowTypeOK, QueueOK, p
<1>1. /\ p \in Seq(Updates) /\ w \in BOOLEAN /\ m \in Seq(Messages)
      /\ Len(p) <= MaxPending
      /\ queue = [pending |-> p, wake |-> w, messages |-> m]
  BY ONLY <1>shape, <1>bound
<1>empty. <<>> \in Seq(Updates) /\ Len(<<>>) <= MaxPending
  BY ONLY <1>bound
<1>messages. /\ \A x \in Messages : Append(m, x) \in Seq(Messages)
             /\ m # <<>> => Tail(m) \in Seq(Messages)
  BY ONLY <1>shape
<1>pending. \A u \in Updates : /\ Append(p, u) \in Seq(Updates)
                               /\ Len(p) < MaxPending => Len(Append(p, u)) <= MaxPending
  BY ONLY <1>shape, <1>bound
<1>2. /\ <<>> \in Seq(Updates) /\ Len(<<>>) <= MaxPending
      /\ \A x \in Messages : Append(m, x) \in Seq(Messages)
      /\ m # <<>> => Tail(m) \in Seq(Messages)
      /\ \A u \in Updates : /\ Append(p, u) \in Seq(Updates)
                            /\ Len(p) < MaxPending => Len(Append(p, u)) <= MaxPending
  BY ONLY <1>empty, <1>messages, <1>pending
<1>3. \E p1 \in Seq(Updates), w1 \in BOOLEAN, m1 \in Seq(Messages) :
        queue' = [pending |-> p1, wake |-> w1, messages |-> m1] /\ Len(p1) <= MaxPending
  <2>1. CASE queue' = queue \/ queue' = [queue EXCEPT !.pending = <<>>]
    BY <1>1, <1>2, <2>1
  <2>2. CASE \E x \in Messages : \/ queue' = [queue EXCEPT !.messages = Append(@, x)]
                                 \/ queue' = [queue EXCEPT !.wake = TRUE, !.messages = Append(@, x)]
    BY <1>1, <1>2, <2>2
  <2>3. CASE m # <<>> /\ \/ queue' = [queue EXCEPT !.messages = Tail(@)]
                         \/ queue' = [queue EXCEPT !.messages = Tail(@), !.wake = FALSE]
    BY <1>1, <1>2, <2>3
  <2>4. CASE \E u \in Updates : /\ Len(p) < MaxPending
                                /\ queue' = [queue EXCEPT !.pending = Append(@, u)]
    BY <1>1, <1>2, <2>4
  <2>5. QED
    BY <2>1, <2>2, <2>3, <2>4 DEF p, m
<1>4. QED
  BY ONLY <1>3 DEF QueueOK

\* What a step leaves alone keeps its type.
LEMMA Keeps ==
  /\ AgentOK /\ UNCHANGED <<agent, firewall, notices>> => AgentOK'
  /\ PostsOK /\ UNCHANGED posts => PostsOK'
  /\ QueueOK /\ UNCHANGED queue => QueueOK'
  /\ ControlsOK /\ UNCHANGED <<ui, win>> => ControlsOK'
<1>1. AgentOK /\ UNCHANGED <<agent, firewall, notices>> => AgentOK'
  BY DEF AgentOK, agent, firewall
<1>2. PostsOK /\ UNCHANGED posts => PostsOK'
  BY DEF PostsOK, posts
<1>3. QueueOK /\ UNCHANGED queue => QueueOK'
  BY DEF QueueOK
<1>4. ControlsOK /\ UNCHANGED <<ui, win>> => ControlsOK'
  BY DEF ControlsOK
<1>5. QED
  BY <1>1, <1>2, <1>3, <1>4

LEMMA WindowTypeStep == WindowTypeOK /\ [WindowNext]_windowVars => WindowTypeOK'
<1> SUFFICES ASSUME WindowTypeOK, [WindowNext]_windowVars PROVE WindowTypeOK'
  OBVIOUS
<1> USE DEF agent, firewall, posts, WindowTypeOK
<1>main. "main" \in Goroutines /\ "firewall" \in Goroutines /\ "notice" \in Goroutines
  BY DEF Goroutines
<1>bursts. /\ <<Status("signing")>> \in Seq(Updates) /\ <<Status("publishing")>> \in Seq(Updates)
           /\ <<Code("first"), Status("waiting")>> \in Seq(Updates)
           /\ <<Status("stopping")>> \in Seq(Updates) /\ <<>> \in Seq(Updates)
           /\ <<Status("blocking")>> \in Seq(Updates) /\ <<Status("waiting")>> \in Seq(Updates)
           /\ <<Code("second")>> \in Seq(Updates) /\ <<Newer>> \in Seq(Updates)
  BY Bursts, UpdatesAre DEF Statuses
<1>run. CASE Run
  <2>1. PostsOK'
    BY <1>run, <1>main, <1>bursts, SaysTyped
       DEF Run, Start, SignedIn, Registered, Fails, Stop, Unregister, Result, Done, Goes
  <2>2. queue' = queue \/ \E m \in Messages : queue' = [queue EXCEPT !.messages = Append(@, m)]
    BY <1>run
       DEF Run, Start, SignedIn, Registered, Fails, Stop, Unregister, Result, Done, Goes,
           Messages
  <2>3. QueueOK'
    BY <2>2, QueueTyped
  <2>4. AgentOK'
    BY <1>run
       DEF Run, Start, SignedIn, Registered, Fails, Stop, Unregister, Result, Done, Goes,
           AgentOK, ExitCodes
  <2>5. UNCHANGED <<ui, win>>
    BY <1>run DEF Run, Start, SignedIn, Registered, Fails, Stop, Unregister, Result, Done, Goes
  <2>6. ControlsOK'
    BY ONLY ControlsOK, <2>5, Keeps
  <2>7. QED
    BY ONLY <2>1, <2>3, <2>4, <2>6 DEF WindowTypeOK
<1>interrupt. CASE Interrupt
  <2>1. AgentOK'
    BY <1>interrupt DEF Interrupt, AgentOK
  <2>2. QED
    BY <1>interrupt, <2>1, Keeps DEF Interrupt
<1>watch. CASE Watch
  <2>1. PostsOK'
    BY <1>watch, <1>main, <1>bursts, SaysTyped DEF Watch, Checked, Recheck
  <2>moves. \/ watch' = [at |-> "sleeping", warned |-> TRUE]
            \/ \E next \in {"gave up", "over", "checking"} : watch' = [watch EXCEPT !.at = next]
    BY <1>watch DEF Watch, Checked, Recheck
  <2>typed. watch \in [at : {"checking", "sleeping", "gave up", "over"}, warned : BOOLEAN]
    BY DEF AgentOK
  <2>2. watch' \in [at : {"checking", "sleeping", "gave up", "over"}, warned : BOOLEAN]
    <3>1. CASE watch' = [at |-> "sleeping", warned |-> TRUE]
      BY ONLY <3>1
    <3>2. ASSUME NEW next \in {"gave up", "over", "checking"}, watch' = [watch EXCEPT !.at = next]
          PROVE  watch' \in [at : {"checking", "sleeping", "gave up", "over"}, warned : BOOLEAN]
      BY ONLY <3>2, <2>typed
    <3>3. QED
      BY ONLY <2>moves, <3>1, <3>2
  <2>3. AgentOK'
    BY <1>watch, <2>2 DEF Watch, Checked, Recheck, AgentOK
  <2>4. UNCHANGED <<queue, ui, win>>
    BY <1>watch DEF Watch, Checked, Recheck
  <2>5. QED
    BY <2>1, <2>3, <2>4, Keeps
<1>allow. CASE Allow
  <2>1. AgentOK'
    BY <1>allow DEF Allow, AgentOK
  <2>2. QED
    BY <1>allow, <2>1, Keeps DEF Allow
<1>notice. CASE Notice
  <2>1. PostsOK'
    BY <1>notice, <1>main, <1>bursts, SaysTyped DEF Notice
  <2>2. AgentOK'
    BY <1>notice DEF Notice, AgentOK
  <2>3. QED
    BY <1>notice, <2>1, <2>2, Keeps DEF Notice
<1>enqueue. ASSUME NEW g \in Goroutines, Enqueue(g) PROVE WindowTypeOK'
  <2>1. say[g] \in Seq(Updates) /\ Head(say[g]) \in Updates /\ Tail(say[g]) \in Seq(Updates)
    BY <1>enqueue DEF Enqueue, PostsOK
  <2>2. QueueOK'
    BY <1>enqueue, <2>1, QueueTyped DEF Enqueue
  <2>3. PostsOK'
    BY <1>enqueue, <2>1 DEF Enqueue, PostsOK
  <2>4. QED
    BY <1>enqueue, <2>2, <2>3, Keeps DEF Enqueue
<1>wake. ASSUME NEW g \in Goroutines, Wake(g) PROVE WindowTypeOK'
  <2>1. QueueOK'
    BY <1>wake, QueueTyped DEF Wake, Messages
  <2>2. PostsOK'
    BY <1>wake DEF Wake, PostsOK
  <2>3. QED
    BY <1>wake, <2>1, <2>2, Keeps DEF Wake
<1>refresh. CASE OnRefresh
  <2>1. QueueOK'
    BY <1>refresh, QueueTyped DEF OnRefresh, Message
  <2>2. ControlsOK'
    BY <1>refresh DEF OnRefresh, ControlsOK
  <2>3. QED
    BY <1>refresh, <2>1, <2>2, Keeps DEF OnRefresh
<1>drain. CASE Drain
  <2>1. QueueOK'
    BY <1>drain, QueueTyped DEF Drain
  <2>2. ControlsOK'
    <3>1. ui' = "idle"
      BY <1>drain DEF Drain
    <3>2. QED
      BY <1>drain, <3>1, DrainShows DEF ControlsOK, Copyable
  <2>3. QED
    BY <1>drain, <2>1, <2>2, Keeps DEF Drain
<1>finish. CASE Finish
  <2>1. QueueOK'
    BY <1>finish, QueueTyped DEF Finish, Message
  <2>2. ControlsOK'
    <3>1. PICK code \in ExitCodes : win' = Finished(win, code)
      BY <1>finish DEF Finish
    <3>2. UNCHANGED ui
      BY <1>finish DEF Finish
    <3>3. QED
      BY ONLY ControlsOK, <3>1, <3>2 DEF Finished, ControlsOK
  <2>3. QED
    BY <1>finish, <2>1, <2>2, Keeps DEF Finish
<1>ends. CASE SessionEnds
  <2>1. ControlsOK'
    BY <1>ends DEF SessionEnds, ControlsOK
  <2>2. QED
    BY <1>ends, <2>1, Keeps DEF SessionEnds
<1>close. CASE RequestClose \/ EndSession
  <2>1. PICK next \in {"idle", "ending"} : Close(next)
    BY <1>close DEF RequestClose, EndSession
  <2>2. ControlsOK'
    BY <2>1 DEF Close, Asked, Statuses, ControlsOK
  <2>3. AgentOK'
    BY <2>1 DEF Close, AgentOK
  <2>4. QED
    BY <2>1, <2>2, <2>3, Keeps DEF Close
<1>idle. CASE UNCHANGED windowVars
  BY <1>idle, Keeps DEF windowVars
<1> QED
  BY <1>run, <1>interrupt, <1>watch, <1>allow, <1>notice, <1>enqueue, <1>wake, <1>refresh,
     <1>drain, <1>finish, <1>ends, <1>close, <1>idle DEF WindowNext, Posting, Loop

LEMMA WindowInitTyped ==
  ASSUME WindowInit PROVE WindowTypeOK
<1>1. AgentOK
  BY DEF WindowInit, AgentOK
<1>2. PostsOK
  BY Bursts DEF WindowInit, PostsOK
<1>3. QueueOK
  <2>1. /\ <<>> \in Seq(Updates) /\ <<>> \in Seq(Messages) /\ Len(<<>>) = 0 /\ 0 <= MaxPending
    BY WindowAssumption
  <2>2. QED
    BY <2>1 DEF WindowInit, QueueOK
<1>4. ControlsOK
  BY DEF WindowInit, ControlsOK
<1>5. QED
  BY <1>1, <1>2, <1>3, <1>4 DEF WindowTypeOK

\* Every variable keeps its type, and the queue its bound.
THEOREM WindowTypeCorrect == WindowSpec => []WindowTypeOK
  BY WindowInitTyped, WindowTypeStep, PTL DEF WindowSpec

-----------------------------------------------------------------------------
(***************************************************************************)
(* What makes the window honest: the agent's end is told exactly once it   *)
(* has ended, and a wake-up is owed while updates wait.                    *)
(***************************************************************************)
EndIsTold ==
  /\ run = "ended" <=> win.done \/ \E c \in ExitCodes : Told(c)
  /\ record = "published" => run \in {"serving", "stopping"}
  /\ win.at = "destroyed" => win.done

WakeIsOwed ==
  /\ queue.wake => Told("refresh")
  /\ queue.pending # <<>> =>
       ui = "draining" \/ queue.wake \/ \E g \in Goroutines : post[g] = "queued"

ClosingIsHeard ==
  /\ win.closing => ctx
  /\ win.closing /\ win.done => win.at # "open"

WindowInv == WindowTypeOK /\ EndIsTold /\ WakeIsOwed /\ ClosingIsHeard /\ CopyIsOffered

\* What a step of the queue does to what it tells.
LEMMA Telling ==
  ASSUME WindowTypeOK
  PROVE  /\ queue'.messages = queue.messages => \A m : Told(m)' <=> Told(m)
         /\ \A x \in Messages : queue'.messages = Append(queue.messages, x) =>
              \A m : Told(m)' <=> m = x \/ Told(m)
         /\ queue.messages # <<>> /\ queue'.messages = Tail(queue.messages) =>
              \A m : Told(m) <=> m = Head(queue.messages) \/ Told(m)'
<1>1. queue.messages \in Seq(Messages)
  BY QueueShape
<1>2. queue'.messages = queue.messages => \A m : Told(m)' <=> Told(m)
  BY ONLY DEF Told
<1>3. ASSUME NEW x \in Messages, queue'.messages = Append(queue.messages, x), NEW m
      PROVE  Told(m)' <=> m = x \/ Told(m)
  BY <1>1, <1>3, Posted DEF Told
<1>4. ASSUME queue.messages # <<>>, queue'.messages = Tail(queue.messages), NEW m
      PROVE  Told(m) <=> m = Head(queue.messages) \/ Told(m)'
  BY <1>1, <1>4, Taken DEF Told
<1>5. QED
  BY <1>2, <1>3, <1>4

\* A step that touches neither the queue nor the window's controls.
LEMMA BesidesTheWindow ==
  ASSUME WindowInv, UNCHANGED <<queue, ui, win>>,
         run' = "ended" <=> run = "ended",
         ctx => ctx',
         record' = "published" => run' \in {"serving", "stopping"},
         \A g \in Goroutines : post[g] = "queued" => post'[g] = "queued"
  PROVE  EndIsTold' /\ WakeIsOwed' /\ ClosingIsHeard' /\ CopyIsOffered'
<1>1. \A m : Told(m)' <=> Told(m)
  BY Telling DEF WindowInv
<1>2. EndIsTold'
  BY <1>1 DEF WindowInv, EndIsTold
<1>3. WakeIsOwed'
  BY <1>1 DEF WindowInv, WakeIsOwed
<1>4. ClosingIsHeard' /\ CopyIsOffered'
  BY DEF WindowInv, ClosingIsHeard, CopyIsOffered
<1>5. QED
  BY <1>2, <1>3, <1>4

LEMMA InitWindow == WindowInit => WindowInv
<1> SUFFICES ASSUME WindowInit PROVE WindowInv
  OBVIOUS
<1>1. WindowTypeOK
  BY WindowInitTyped
<1>2. \A m : ~Told(m)
  <2>1. queue.messages = <<>>
    BY DEF WindowInit
  <2>2. QED
    BY <2>1 DEF Told, Holds
<1>3. EndIsTold /\ WakeIsOwed
  BY <1>2 DEF WindowInit, EndIsTold, WakeIsOwed
<1>4. ClosingIsHeard /\ CopyIsOffered
  BY DEF WindowInit, ClosingIsHeard, CopyIsOffered
<1>5. QED
  BY <1>1, <1>3, <1>4 DEF WindowInv

LEMMA WindowStep == WindowInv /\ [WindowNext]_windowVars => WindowInv'
<1> SUFFICES ASSUME WindowInv, [WindowNext]_windowVars PROVE WindowInv'
  OBVIOUS
<1>typed. WindowTypeOK /\ WindowTypeOK'
  BY WindowTypeStep DEF WindowInv
<1>exit. "refresh" \notin ExitCodes /\ "refresh" \in Messages /\ ExitCodes \subseteq Messages
         /\ "ended" \notin ExitCodes
  BY DEF ExitCodes, Messages
<1> USE DEF agent, firewall, posts
<1>run. CASE Run
  <2>1. CASE Done
    <3>1. /\ run \in ExitCodes /\ run' = "ended" /\ queue'.messages = Append(queue.messages, run)
          /\ queue'.pending = queue.pending /\ queue'.wake = queue.wake
          /\ UNCHANGED <<parent, ctx, record, firewall, notices, posts, ui, win>>
      BY <2>1, <1>typed, QueueShape DEF Done
    <3>2. \A m : Told(m)' <=> m = run \/ Told(m)
      BY <3>1, <1>typed, <1>exit, Telling
    <3>3. EndIsTold'
      BY <3>1, <3>2, <1>exit DEF WindowInv, EndIsTold, ExitCodes
    <3>4. WakeIsOwed'
      BY <3>1, <3>2 DEF WindowInv, WakeIsOwed
    <3>5. ClosingIsHeard' /\ CopyIsOffered'
      BY <3>1 DEF WindowInv, ClosingIsHeard, CopyIsOffered
    <3>6. QED
      BY <3>3, <3>4, <3>5, <1>typed DEF WindowInv
  <2>2. CASE ~Done
    <3>1. /\ UNCHANGED <<queue, ui, win, post>> /\ run # "ended" /\ run' # "ended" /\ (ctx => ctx')
          /\ record' = "published" => run' \in {"serving", "stopping"}
      <4>1. UNCHANGED <<queue, ui, win, post>>
        BY <1>run, <2>2
           DEF Run, Start, SignedIn, Registered, Fails, Stop, Unregister, Result, Goes
      <4>2. run # "ended" /\ run' # "ended"
        BY <1>run, <2>2
           DEF Run, Start, SignedIn, Registered, Fails, Stop, Unregister, Result, Goes
      <4>5. ctx' = ctx \/ ctx' = TRUE
        BY <1>run, <2>2
           DEF Run, Start, SignedIn, Registered, Fails, Stop, Unregister, Result, Goes
      <4>3. record' = "published" => run' \in {"serving", "stopping"}
        BY <1>run, <2>2
           DEF Run, Start, SignedIn, Registered, Fails, Stop, Unregister, Result, Goes,
               WindowInv, EndIsTold
      <4>4. QED
        BY <4>1, <4>2, <4>3, <4>5
    <3>2. QED
      BY <3>1, <1>typed, BesidesTheWindow DEF WindowInv
  <2>3. QED
    BY <2>1, <2>2
<1>beside. CASE Interrupt \/ Watch \/ Allow \/ Notice \/ UNCHANGED windowVars
  <2>1. UNCHANGED <<queue, ui, win, post, run, record>> /\ (ctx => ctx')
    <3>1. CASE Interrupt \/ Allow \/ Notice \/ UNCHANGED windowVars
      BY <3>1 DEF Interrupt, Allow, Notice, windowVars
    <3>2. CASE Watch
      <4>1. CASE Checked
        BY ONLY <4>1 DEF Checked, agent
      <4>2. CASE Recheck
        BY ONLY <4>2 DEF Recheck, agent, posts
      <4>3. QED
        BY <3>2, <4>1, <4>2 DEF Watch
    <3>3. QED
      BY <1>beside, <3>1, <3>2
  <2>2. QED
    BY <2>1, <1>typed, BesidesTheWindow DEF WindowInv, EndIsTold
<1>enqueue. ASSUME NEW g \in Goroutines, Enqueue(g) PROVE WindowInv'
  <2>1. /\ queue'.messages = queue.messages /\ queue'.wake = queue.wake
        /\ UNCHANGED <<agent, firewall, notices, ui, win>> /\ post'[g] = "queued"
    BY <1>enqueue, <1>typed, QueueShape DEF Enqueue, WindowTypeOK, PostsOK
  <2>2. \A m : Told(m)' <=> Told(m)
    BY <2>1, <1>typed, Telling
  <2>3. EndIsTold'
    BY <2>1, <2>2 DEF WindowInv, EndIsTold
  <2>4. WakeIsOwed'
    BY <2>1, <2>2 DEF WindowInv, WakeIsOwed
  <2>5. ClosingIsHeard' /\ CopyIsOffered'
    BY <2>1 DEF WindowInv, ClosingIsHeard, CopyIsOffered
  <2>6. QED
    BY <2>3, <2>4, <2>5, <1>typed DEF WindowInv
<1>wake. ASSUME NEW g \in Goroutines, Wake(g) PROVE WindowInv'
  <2>1. /\ queue'.wake = TRUE /\ UNCHANGED <<agent, firewall, notices, ui, win>>
        /\ \/ queue.wake /\ queue'.messages = queue.messages
           \/ ~queue.wake /\ queue'.messages = Append(queue.messages, "refresh")
    BY <1>wake, <1>typed, QueueShape DEF Wake
  <2>2. \A m : Told(m)' <=> Told(m) \/ (~queue.wake /\ m = "refresh")
    BY <2>1, <1>typed, <1>exit, Telling
  <2>3. EndIsTold'
    BY <2>1, <2>2, <1>exit DEF WindowInv, EndIsTold
  <2>4. WakeIsOwed'
    BY <2>1, <2>2 DEF WindowInv, WakeIsOwed
  <2>5. ClosingIsHeard' /\ CopyIsOffered'
    BY <2>1 DEF WindowInv, ClosingIsHeard, CopyIsOffered
  <2>6. QED
    BY <2>3, <2>4, <2>5, <1>typed DEF WindowInv
<1>refresh. CASE OnRefresh
  <2>1. /\ queue.messages # <<>> /\ Head(queue.messages) = "refresh"
        /\ queue'.messages = Tail(queue.messages) /\ queue'.wake = FALSE /\ ui' = "draining"
        /\ UNCHANGED <<agent, firewall, notices, posts, win>>
    BY <1>refresh, <1>typed, QueueShape DEF OnRefresh, Message
  <2>2. \A m : Told(m) <=> m = "refresh" \/ Told(m)'
    BY <2>1, <1>typed, Telling
  <2>3. EndIsTold'
    BY <2>1, <2>2, <1>exit DEF WindowInv, EndIsTold
  <2>4. WakeIsOwed'
    BY <2>1 DEF WakeIsOwed
  <2>5. ClosingIsHeard' /\ CopyIsOffered'
    BY <2>1 DEF WindowInv, ClosingIsHeard, CopyIsOffered
  <2>6. QED
    BY <2>3, <2>4, <2>5, <1>typed DEF WindowInv
<1>drain. CASE Drain
  <2>1. /\ queue'.messages = queue.messages /\ queue'.wake = queue.wake /\ queue'.pending = <<>>
        /\ UNCHANGED <<agent, firewall, notices, posts>>
    BY <1>drain, <1>typed, QueueShape DEF Drain
  <2>2. \A m : Told(m)' <=> Told(m)
    BY <2>1, <1>typed, Telling
  <2>3. PICK code, status :
          /\ win' = [win EXCEPT !.code = code, !.status = status,
                                !.copy = @ \/ (OfKind("code") # {} /\ Copyable),
                                !.newer = @ \/ OfKind("update") # {}]
          /\ OfKind("code") # {} => code \in {"first", "second"}
          /\ OfKind("code") = {} => code = win.code
    BY <1>drain, <1>typed, DrainShows
  <2>4. /\ win'.at = win.at /\ win'.closing = win.closing /\ win'.done = win.done
        /\ win'.failed = win.failed /\ win'.code = code
        /\ win'.copy = (win.copy \/ (OfKind("code") # {} /\ ~win.closing /\ ~win.failed))
    <3>1. win \in [at : {"open", "destroyed", "ended in time", "ended"},
                   code : {"Starting", "first", "second", "Could not start"},
                   status : {"", "see the log"} \cup Statuses,
                   copy : BOOLEAN, newer : BOOLEAN,
                   closing : BOOLEAN, done : BOOLEAN, failed : BOOLEAN]
      BY <1>typed DEF WindowTypeOK, ControlsOK
    <3>2. QED
      BY <2>3, <3>1 DEF Copyable
  <2>5. EndIsTold' /\ WakeIsOwed' /\ ClosingIsHeard'
    BY <2>1, <2>2, <2>4 DEF WindowInv, EndIsTold, WakeIsOwed, ClosingIsHeard
  <2>6. CopyIsOffered'
    BY <2>3, <2>4 DEF WindowInv, CopyIsOffered
  <2>7. QED
    BY <2>5, <2>6, <1>typed DEF WindowInv
<1>finish. CASE Finish
  <2>1. PICK code \in ExitCodes : Message(code) /\ win' = Finished(win, code)
    BY <1>finish DEF Finish
  <2>2. /\ queue.messages # <<>> /\ Head(queue.messages) = code
        /\ queue'.messages = Tail(queue.messages)
        /\ queue'.wake = queue.wake /\ queue'.pending = queue.pending
        /\ UNCHANGED <<agent, firewall, notices, posts, ui>>
    BY <1>finish, <2>1, <1>typed, QueueShape DEF Finish, Message
  <2>3. \A m : Told(m) <=> m = code \/ Told(m)'
    BY <2>2, <1>typed, Telling
  <2>4. /\ win'.done = TRUE /\ win'.closing = win.closing
        /\ win.closing => win'.at = "destroyed"
        /\ win'.copy => win.copy /\ win'.failed = win.failed /\ win'.code = win.code
    BY <2>1, <1>typed DEF Finished, WindowTypeOK, ControlsOK
  <2>5. EndIsTold'
    BY <2>1, <2>2, <2>3, <2>4 DEF WindowInv, EndIsTold
  <2>6. WakeIsOwed'
    BY <2>1, <2>2, <2>3, <1>exit DEF WindowInv, WakeIsOwed
  <2>7. ClosingIsHeard' /\ CopyIsOffered'
    BY <2>2, <2>4 DEF WindowInv, ClosingIsHeard, CopyIsOffered
  <2>8. QED
    BY <2>5, <2>6, <2>7, <1>typed DEF WindowInv
<1>ends. CASE SessionEnds
  <2>1. /\ ui = "ending" /\ UNCHANGED <<agent, firewall, notices, posts, queue>>
        /\ win'.at \in {"ended in time", "ended"} /\ win'.done = win.done
        /\ win'.closing = win.closing /\ win'.copy = win.copy /\ win'.failed = win.failed
        /\ win'.code = win.code
    BY <1>ends, <1>typed DEF SessionEnds, WindowTypeOK, ControlsOK
  <2>2. \A m : Told(m)' <=> Told(m)
    BY <2>1, <1>typed, Telling
  <2>3. EndIsTold' /\ WakeIsOwed'
    BY <2>1, <2>2 DEF WindowInv, EndIsTold, WakeIsOwed
  <2>4. ClosingIsHeard' /\ CopyIsOffered'
    BY <2>1 DEF WindowInv, ClosingIsHeard, CopyIsOffered
  <2>5. QED
    BY <2>3, <2>4, <1>typed DEF WindowInv
<1>close. CASE RequestClose \/ EndSession
  <2>1. PICK next \in {"idle", "ending"} : Close(next)
    BY <1>close DEF RequestClose, EndSession
  <2>2. /\ ui = "idle" /\ win.at = "open"
        /\ UNCHANGED <<run, record, firewall, notices, posts, queue>>
        /\ ctx' = (ctx \/ ~win.done)
    BY <2>1 DEF Close
  <2>3. /\ win'.done = win.done /\ win'.failed = win.failed /\ win'.code = win.code
        /\ win.done => win'.at = "destroyed" /\ win'.closing = win.closing /\ win'.copy = win.copy
        /\ ~win.done => win'.at = win.at /\ win'.closing = TRUE
                        /\ (win'.copy => win.closing /\ win.copy)
    BY <2>1, <1>typed DEF Close, Asked, WindowTypeOK, ControlsOK
  <2>4. \A m : Told(m)' <=> Told(m)
    BY <2>2, <1>typed, Telling
  <2>5. EndIsTold'
    BY <2>2, <2>3, <2>4 DEF WindowInv, EndIsTold
  <2>6. WakeIsOwed'
    BY <2>2, <2>4 DEF WindowInv, WakeIsOwed
  <2>7. ClosingIsHeard'
    BY <2>2, <2>3 DEF WindowInv, ClosingIsHeard
  <2>8. CopyIsOffered'
    BY <2>2, <2>3 DEF WindowInv, CopyIsOffered
  <2>9. QED
    BY <2>5, <2>6, <2>7, <2>8, <1>typed DEF WindowInv
<1> QED
  BY <1>run, <1>beside, <1>enqueue, <1>wake, <1>refresh, <1>drain, <1>finish, <1>ends, <1>close
     DEF WindowNext, Posting, Loop

LEMMA WindowInvariant == WindowSpec => []WindowInv
  BY InitWindow, WindowStep, PTL DEF WindowSpec

\* wmClose, finish: the window is destroyed only behind the agent, whose record is
\* withdrawn by then, or left to expire.
THEOREM WindowGoesLast == WindowSpec => []GoneWhenFinished
<1>1. WindowInv => GoneWhenFinished
  BY DEF WindowInv, EndIsTold, GoneWhenFinished
<1>2. QED
  BY <1>1, WindowInvariant, PTL

\* The copy button offers a code while there is a good one, however the updates
\* and the end cross.
THEOREM CodeOnOffer == WindowSpec => []CopyIsOffered
<1>1. WindowInv => CopyIsOffered
  BY DEF WindowInv
<1>2. QED
  BY <1>1, WindowInvariant, PTL

\* post and drain lose no wake-up: while an update waits, the thread is about to
\* take it, or its message is on the way, or the goroutine that left it has yet to
\* send one.
THEOREM NoLostWakeUp ==
  WindowSpec => [](queue.pending # <<>> =>
                     \/ ui = "draining"
                     \/ Told("refresh")
                     \/ \E g \in Goroutines : post[g] = "queued")
<1>1. WindowInv => (queue.pending # <<>> => \/ ui = "draining"
                                            \/ Told("refresh")
                                            \/ \E g \in Goroutines : post[g] = "queued")
  BY DEF WindowInv, WakeIsOwed
<1>2. QED
  BY <1>1, WindowInvariant, PTL

\* Once the operator has asked the window to close the agent is told to stop, and
\* until the window goes the agent's end is to come, or its message is.
THEOREM CloseIsAnswered ==
  WindowSpec => [](win.closing /\ win.at = "open" =>
                     ctx /\ (run # "ended" \/ \E c \in ExitCodes : Told(c)))
<1>1. WindowInv => (win.closing /\ win.at = "open" =>
                      ctx /\ (run # "ended" \/ \E c \in ExitCodes : Told(c)))
  BY DEF WindowInv, EndIsTold, ClosingIsHeard
<1>2. QED
  BY <1>1, WindowInvariant, PTL
=============================================================================
