------------------------------- MODULE HostRecord -------------------------------
(***************************************************************************)
(* How one agent publishes itself: the records /hosts/{code}, the pairing  *)
(* code and its rotation, the heartbeat and the withdrawal at shutdown     *)
(* (cmd/host/main.go, internal/host/registrar.go, the rules of /hosts).    *)
(*                                                                         *)
(* Registering a code is a job: one at start-up, and one for every rotation*)
(* the coordinator starts, on a goroutine of its own.  at[j] is where job  *)
(* j stands: idle, register (another attempt), set, retire, announce, done.*)
(*                                                                         *)
(* The age of a record stands for server time against its lastSeen:        *)
(*   fresh   under 90 s, a viewer takes the computer to be online          *)
(*   late    a viewer takes it to be offline                               *)
(*   stale   over 5 min, the rules let anyone delete or take it            *)
(* Other agents and the viewers are the environment.                       *)
(***************************************************************************)
EXTENDS Naturals

CONSTANTS
  Codes,       \* the pairing codes
  Boot,        \* the job of registering at start-up
  Rotations,   \* the rotations that may happen
  Attempts,    \* registerAttempts
  Redraws,     \* may a random code be one this agent has drawn before?
  NoCode

Jobs == Rotations \cup {Boot}

ASSUME HostRecordAssumption ==
  /\ Boot \notin Rotations
  /\ NoCode \notin Codes
  /\ Attempts \in Nat \ {0}
  /\ Redraws \in BOOLEAN

VARIABLES
  owner,    \* owner[c]: whose record /hosts/c is: "none", "self", "other"
  age,      \* age[c]: how old its lastSeen is
  life,     \* "starting", "running", "stopping", "withdrawn", "over"
  contact,  \* the database can be reached
  current,  \* pairing.code
  shown,    \* the code in the window
  drawn,    \* the codes this agent has drawn
  at,       \* at[j]: where job j stands
  old,      \* old[j]: the code a rotation replaces
  fresh,    \* fresh[j]: the code job j has published
  tries     \* tries[j]: its attempts so far

recordVars == <<owner, age>>
jobVars == <<at, old, fresh, tries>>
vars == <<recordVars, life, contact, current, shown, drawn, jobVars>>

Stages == {"idle", "register", "set", "retire", "announce", "done"}

TypeOK ==
  /\ owner \in [Codes -> {"none", "self", "other"}]
  /\ age \in [Codes -> {"fresh", "late", "stale"}]
  /\ life \in {"starting", "running", "stopping", "withdrawn", "over"}
  /\ contact \in BOOLEAN
  /\ current \in Codes \cup {NoCode}
  /\ shown \in Codes \cup {NoCode}
  /\ drawn \subseteq Codes
  /\ at \in [Jobs -> Stages]
  /\ old \in [Jobs -> Codes \cup {NoCode}]
  /\ fresh \in [Jobs -> Codes \cup {NoCode}]
  /\ tries \in [Jobs -> 0 .. Attempts - 1]

Init ==
  /\ owner \in [Codes -> {"none", "other"}]
  /\ age = [c \in Codes |-> "fresh"]
  /\ life = "starting"
  /\ contact = TRUE
  /\ current = NoCode /\ shown = NoCode
  /\ drawn = {}
  /\ at = [j \in Jobs |-> IF j = Boot THEN "register" ELSE "idle"]
  /\ old = [j \in Jobs |-> NoCode]
  /\ fresh = [j \in Jobs |-> NoCode]
  /\ tries = [j \in Jobs |-> 0]

-----------------------------------------------------------------------------
\* The database.

\* A fault: the rules do not look at lastSeen.
WritableByAny(c, who) == TRUE

\* ".write" of /hosts/$code: no record, the writer's own, or one gone stale.
WritableBy(c, who) == owner[c] \in {"none", who} \/ age[c] = "stale"

PutRecord(c, who) ==
  /\ owner' = [owner EXCEPT ![c] = who]
  /\ age' = [age EXCEPT ![c] = "fresh"]

\* DELETE: refused, or there is no record afterwards.
DeleteRecord(c, who) ==
  /\ owner' = IF WritableBy(c, who) THEN [owner EXCEPT ![c] = "none"] ELSE owner
  /\ UNCHANGED age

Alive == life # "over"

Jump(j, stage) == at' = [at EXCEPT ![j] = stage]

-----------------------------------------------------------------------------
\* Registering.

\* A registration that fails ends the start-up, and the process with it.
Fail(j) ==
  /\ Jump(j, "done")
  /\ life' = IF j = Boot THEN "over" ELSE life

\* Refused: another code, registerAttempts in all.
AnotherCode(j) ==
  IF tries[j] + 1 < Attempts
  THEN tries' = [tries EXCEPT ![j] = @ + 1] /\ UNCHANGED <<at, life>>
  ELSE Fail(j) /\ UNCHANGED tries

\* newPairingCode(): a random one.
NewCode(c) ==
  /\ Redraws \/ c \notin drawn
  /\ drawn' = drawn \cup {c}

\* One attempt of registerWithFreshCode(): published; published, but the answer
\* did not arrive (a lost connection, a cancelled context); not published;
\* refused.
Register(j) ==
  /\ at[j] = "register" /\ Alive
  /\ \E c \in Codes :
       /\ NewCode(c)
       /\ \/ /\ contact /\ life \in {"starting", "running"} /\ WritableBy(c, "self")
             /\ PutRecord(c, "self")
             /\ fresh' = [fresh EXCEPT ![j] = c]
             /\ Jump(j, "set")
             /\ UNCHANGED <<life, tries>>
          \/ /\ WritableBy(c, "self")
             /\ PutRecord(c, "self")
             /\ Fail(j)
             /\ UNCHANGED <<fresh, tries>>
          \/ /\ ~contact \/ life \notin {"starting", "running"}
             /\ Fail(j)
             /\ UNCHANGED <<recordVars, fresh, tries>>
          \/ /\ contact /\ ~WritableBy(c, "self")
             /\ AnotherCode(j)
             /\ UNCHANGED <<recordVars, fresh>>
  /\ UNCHANGED <<contact, current, shown, old>>

\* current.set(): at start-up with the window's first code.
SetCurrent(j) ==
  /\ at[j] = "set" /\ Alive
  /\ current' = fresh[j]
  /\ IF j = Boot
     THEN life' = "running" /\ shown' = fresh[j] /\ Jump(j, "done")
     ELSE Jump(j, "retire") /\ UNCHANGED <<life, shown>>
  /\ UNCHANGED <<recordVars, contact, drawn, old, fresh, tries>>

\* rotateCode() begins: it reads the code it is to replace.
StartRotation(j) ==
  /\ life = "running" /\ j \in Rotations /\ at[j] = "idle"
  /\ old' = [old EXCEPT ![j] = current]
  /\ Jump(j, "register")
  /\ UNCHANGED <<recordVars, life, contact, current, shown, drawn, fresh, tries>>

\* A fault: what is unregistered is the code of the moment.
RetireCurrent(j) ==
  /\ at[j] = "retire" /\ Alive
  /\ (contact /\ DeleteRecord(current, "self")) \/ UNCHANGED recordVars
  /\ Jump(j, "announce")
  /\ UNCHANGED <<life, contact, current, shown, drawn, old, fresh, tries>>

\* Unregister(old): best effort, the record expires on its own.
RetireOld(j) ==
  /\ at[j] = "retire" /\ Alive
  /\ (contact /\ DeleteRecord(old[j], "self")) \/ UNCHANGED recordVars
  /\ Jump(j, "announce")
  /\ UNCHANGED <<life, contact, current, shown, drawn, old, fresh, tries>>

Announce(j) ==
  /\ at[j] = "announce" /\ Alive
  /\ shown' = fresh[j]
  /\ Jump(j, "done")
  /\ UNCHANGED <<recordVars, life, contact, current, drawn, old, fresh, tries>>

-----------------------------------------------------------------------------
\* The running agent.

\* A PATCH of lastSeen where there is no record would leave one without an
\* owner: the rules refuse it.
Refreshable(c) == owner[c] # "none" /\ WritableBy(c, "self")

\* Registrar.Heartbeat(): one that is refused is only reported.
Refresh(c) ==
  /\ Refreshable(c)
  /\ age' = [age EXCEPT ![c] = "fresh"]
  /\ UNCHANGED owner

\* A fault: the code of the start-up is kept alive.
HeartbeatOfBoot ==
  /\ life = "running" /\ contact
  /\ Refresh(fresh[Boot])
  /\ UNCHANGED <<life, contact, current, shown, drawn, jobVars>>

Heartbeat ==
  /\ life = "running" /\ contact
  /\ Refresh(current)
  /\ UNCHANGED <<life, contact, current, shown, drawn, jobVars>>

\* The context is cancelled; main waits for the sessions.
Shutdown ==
  /\ life = "running"
  /\ life' = "stopping"
  /\ UNCHANGED <<recordVars, contact, current, shown, drawn, jobVars>>

\* Unregister(current.get()); where it fails the record is left to expire.
Withdraw ==
  /\ life = "stopping"
  /\ \/ contact /\ DeleteRecord(current, "self") /\ life' = "withdrawn"
     \/ life' = "over" /\ UNCHANGED recordVars
  /\ UNCHANGED <<contact, current, shown, drawn, jobVars>>

\* The process ends: at the end of a shutdown, or killed at any time.
Exit ==
  /\ Alive
  /\ life' = "over"
  /\ UNCHANGED <<recordVars, contact, current, shown, drawn, jobVars>>

-----------------------------------------------------------------------------
\* The environment.

\* Between a code's registration and the moment it is current no time passes
\* that a record's age would show; neither do heartbeats in contact leave room
\* for it (30 s against 90 s).
KeptFresh(c) ==
  \/ Alive /\ \E j \in Jobs : at[j] = "set" /\ fresh[j] = c
  \/ life = "running" /\ contact /\ c = current

Ages(c) ==
  /\ owner[c] # "none" /\ age[c] # "stale" /\ ~KeptFresh(c)
  /\ age' = [age EXCEPT ![c] = IF @ = "fresh" THEN "late" ELSE "stale"]
  /\ UNCHANGED <<owner, life, contact, current, shown, drawn, jobVars>>

\* removeStaleHost(): a viewer that meets a stale record deletes it.
CollectGarbage(c) ==
  /\ owner[c] # "none" /\ age[c] = "stale"
  /\ DeleteRecord(c, "viewer")
  /\ UNCHANGED <<life, contact, current, shown, drawn, jobVars>>

\* Another agent publishes itself, is heard of, or leaves.
OtherAgent(c) ==
  /\ \/ WritableBy(c, "other") /\ PutRecord(c, "other")
     \/ owner[c] = "other" /\ DeleteRecord(c, "other")
  /\ UNCHANGED <<life, contact, current, shown, drawn, jobVars>>

ContactChanges ==
  /\ contact' = ~contact
  /\ UNCHANGED <<recordVars, life, current, shown, drawn, jobVars>>

Next ==
  \/ \E j \in Jobs :
       \/ Register(j) \/ SetCurrent(j) \/ StartRotation(j) \/ RetireOld(j) \/ Announce(j)
  \/ Heartbeat \/ Shutdown \/ Withdraw \/ Exit
  \/ \E c \in Codes : Ages(c) \/ CollectGarbage(c) \/ OtherAgent(c)
  \/ ContactChanges

Spec == Init /\ [][Next]_vars

\* Goroutines go on, the ticker ticks, time passes.
Fairness ==
  /\ \A j \in Jobs :
       WF_vars(Register(j) \/ SetCurrent(j) \/ RetireOld(j) \/ Announce(j))
  /\ WF_vars(Heartbeat)
  /\ WF_vars(Withdraw)
  /\ \A c \in Codes : WF_vars(Ages(c))

FairSpec == Spec /\ Fairness

-----------------------------------------------------------------------------

\* Nobody takes a record that is not stale: a code leads to one computer.
LiveRecordIsSafe ==
  [][\A c \in Codes :
       owner[c] # "none" /\ age[c] # "stale" => owner'[c] \in {owner[c], "none"}]_vars

\* rotateCode(): the new record is written first, so the machine is never
\* without a code.  Only a record nobody has refreshed for minutes is lost.
NeverWithoutCode ==
  [][life = "running" /\ life' = "running"
       /\ owner[current] = "self" /\ age[current] # "stale"
     => owner'[current'] = "self"]_vars

\* A code that was replaced stops working for good, even if it could not be
\* retired: "it expires on its own after 5 minutes".
ReplacedCodeDies ==
  \A c \in Codes :
    current # c /\ (\E j \in Rotations : old[j] = c)
      ~> [](owner[c] # "self" \/ age[c] # "fresh")
=============================================================================
