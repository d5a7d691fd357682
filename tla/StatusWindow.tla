------------------------------ MODULE StatusWindow ------------------------------
(***************************************************************************)
(* The agent from start to end and the window that shows it: main and run  *)
(* (cmd/host/main.go), the watch on the firewall and the notices beside    *)
(* them, and the window (internal/ui), whose controls belong to the UI     *)
(* thread: other goroutines leave updates in a queue and wake it with a    *)
(* message.                                                                *)
(***************************************************************************)
EXTENDS Naturals, Sequences

CONSTANT MaxPending   \* bound: by how many updates the UI thread is behind

ASSUME WindowAssumption == MaxPending \in Nat \ {0}

VARIABLES
  run,      \* main's goroutine, by what it does next
  parent,   \* the context of main is cancelled: the operator closed the window
  ctx,      \* the context of run is: by the parent, by a signal, by its return
  record,   \* this agent in the database: "none", "published", "left behind"
  watch,    \* watchFirewall: where it is, and whether it has warned
  wall,     \* what the firewall does: "blocks" or "allows"
  notices,  \* what notifyUpdate and rotateCode still have to say
  say,      \* per goroutine, the updates it goes on to post
  post,     \* per goroutine, where it is in post(): "out", "queued"
  queue,    \* window.pending, window.wake, the thread's messages, the exit code
  ui,       \* the UI thread: "idle", "draining", "ending"
  win       \* the controls, and closing, done, failed

agent == <<run, parent, ctx, record>>
firewall == <<watch, wall>>
posts == <<say, post>>
windowVars == <<agent, firewall, notices, posts, queue, ui, win>>

Goroutines == {"main", "firewall", "notice"}
Status(s) == [kind |-> "status", what |-> s]
Code(c) == [kind |-> "code", what |-> c]
Newer == [kind |-> "update", what |-> "newer"]
ExitCodes == {"exit 0", "exit 1"}
Messages == {"refresh"} \cup ExitCodes

\* A goroutine goes on when what it said is posted.
Says(g, updates) == say[g] = <<>> /\ post[g] = "out" /\ say' = [say EXCEPT ![g] = updates]

-----------------------------------------------------------------------------
\* main and run. Signing in and publishing the code take a while and may fail.
Goes(from, to, updates) ==
  /\ run = from /\ run' = to
  /\ Says("main", updates)
  /\ UNCHANGED <<firewall, notices, post, queue, ui, win>>

Start == Goes("start", "signing in", <<Status("signing")>>) /\ UNCHANGED <<parent, ctx, record>>

SignedIn ==
  /\ Goes("signing in", "registering", <<Status("publishing")>>)
  /\ UNCHANGED <<parent, ctx, record>>

Registered ==
  /\ Goes("registering", "serving", <<Code("first"), Status("waiting")>>)
  /\ record' = "published"
  /\ UNCHANGED <<parent, ctx>>

\* run comes back with an error, and its deferred stop() ends its context.
Fails ==
  /\ \E from \in {"signing in", "registering"} : Goes(from, "failed", <<>>)
  /\ ctx' = TRUE
  /\ UNCHANGED <<parent, record>>

Stop ==
  /\ ctx
  /\ Goes("serving", "stopping", <<Status("stopping")>>)
  /\ UNCHANGED <<parent, ctx, record>>

\* The sessions have drained, or had their time; Unregister and DeleteAccount may
\* fail.
Unregister ==
  /\ Goes("stopping", "stopped", <<>>)
  /\ record' \in {"none", "left behind"}
  /\ UNCHANGED <<parent, ctx>>

\* runMain: a run the operator ended is a clean exit, however early.
Result ==
  /\ \/ Goes("failed", IF parent THEN "exit 0" ELSE "exit 1", <<>>)
     \/ Goes("stopped", "exit 0", <<>>)
  /\ UNCHANGED <<parent, ctx, record>>

\* win.Done: the channel is closed and the message posted.
Done ==
  /\ run \in ExitCodes
  /\ queue' = [queue EXCEPT !.messages = Append(@, run)]
  /\ run' = "ended"
  /\ UNCHANGED <<parent, ctx, record, firewall, notices, posts, ui, win>>

\* Ctrl+C, SIGTERM.
Interrupt ==
  /\ ~ctx /\ ctx' = TRUE
  /\ UNCHANGED <<run, parent, record, firewall, notices, posts, queue, ui, win>>

-----------------------------------------------------------------------------
\* watchFirewall: asked now and then while the answer is bad. It gives up when the
\* firewall cannot be asked.
Checked ==
  /\ watch.at = "checking"
  /\ \/ /\ watch' = [watch EXCEPT !.at = "gave up"]
        /\ UNCHANGED say
     \/ /\ wall = "blocks"
        /\ watch' = [at |-> "sleeping", warned |-> TRUE]
        /\ IF watch.warned THEN UNCHANGED say
           ELSE Says("firewall", <<Status("blocking")>>)
     \/ /\ wall = "allows"
        /\ watch' = [watch EXCEPT !.at = "over"]
        /\ IF watch.warned /\ ~ctx THEN Says("firewall", <<Status("waiting")>>)
           ELSE UNCHANGED say
  /\ UNCHANGED <<agent, wall, notices, post, queue, ui, win>>

Recheck ==
  /\ watch.at = "sleeping" /\ say["firewall"] = <<>> /\ post["firewall"] = "out"
  /\ \/ watch' = [watch EXCEPT !.at = "checking"]
     \/ ctx /\ watch' = [watch EXCEPT !.at = "over"]
  /\ UNCHANGED <<agent, wall, notices, posts, queue, ui, win>>

\* The operator clicks Allow.
Allow ==
  /\ wall = "blocks" /\ wall' = "allows"
  /\ UNCHANGED <<agent, watch, notices, posts, queue, ui, win>>

\* A newer release is found, whenever the answer comes; a code is replaced while
\* the agent serves. What the activity pane shows, the log, is left out.
Notice ==
  /\ \E n \in notices :
       /\ n = "rotation" => run = "serving"
       /\ notices' = notices \ {n}
       /\ Says("notice", IF n = "rotation" THEN <<Code("second")>> ELSE <<Newer>>)
  /\ UNCHANGED <<agent, firewall, post, queue, ui, win>>

-----------------------------------------------------------------------------
\* post(): into the queue under the lock, then one message per burst.
Enqueue(g) ==
  /\ say[g] # <<>> /\ post[g] = "out" /\ Len(queue.pending) < MaxPending
  /\ queue' = [queue EXCEPT !.pending = Append(@, Head(say[g]))]
  /\ say' = [say EXCEPT ![g] = Tail(@)]
  /\ post' = [post EXCEPT ![g] = "queued"]
  /\ UNCHANGED <<agent, firewall, notices, ui, win>>

Wake(g) ==
  /\ post[g] = "queued"
  /\ post' = [post EXCEPT ![g] = "out"]
  /\ queue' = IF queue.wake THEN queue
              ELSE [queue EXCEPT !.wake = TRUE, !.messages = Append(@, "refresh")]
  /\ UNCHANGED <<agent, firewall, notices, say, ui, win>>

-----------------------------------------------------------------------------
\* The UI thread. drain: the flag first, then the queue.
Message(m) == ui = "idle" /\ win.at = "open" /\ queue.messages # <<>> /\ Head(queue.messages) = m

OnRefreshNoReset ==
  /\ Message("refresh")
  /\ queue' = [queue EXCEPT !.messages = Tail(@)]
  /\ ui' = "draining"
  /\ UNCHANGED <<agent, firewall, notices, posts, win>>

OnRefresh ==
  /\ Message("refresh")
  /\ queue' = [queue EXCEPT !.messages = Tail(@), !.wake = FALSE]
  /\ ui' = "draining"
  /\ UNCHANGED <<agent, firewall, notices, posts, win>>

\* What the updates of a batch do to the controls: each shows the last of its kind,
\* and a code enables the copy button, unless the end has disabled it.
OfKind(kind) == {i \in DOMAIN queue.pending : queue.pending[i].kind = kind}

Shows(kind, shown) ==
  IF OfKind(kind) = {} THEN {shown}
  ELSE {queue.pending[i].what : i \in {k \in OfKind(kind) : \A j \in OfKind(kind) : j <= k}}

CopyableAlways == TRUE
Copyable == ~win.closing /\ ~win.failed

Drain ==
  /\ ui = "draining"
  /\ \E code \in Shows("code", win.code), status \in Shows("status", win.status) :
       win' = [win EXCEPT !.code = code, !.status = status,
                          !.copy = @ \/ (OfKind("code") # {} /\ Copyable),
                          !.newer = @ \/ OfKind("update") # {}]
  /\ queue' = [queue EXCEPT !.pending = <<>>]
  /\ ui' = "idle"
  /\ UNCHANGED <<agent, firewall, notices, posts>>

\* requestClose: the first one asks the agent to stop; the window goes when it has.
AskedAtOnce(w) == [w EXCEPT !.at = "destroyed", !.closing = TRUE]

Asked(w) ==
  IF w.done THEN [w EXCEPT !.at = "destroyed"]
  ELSE IF w.closing THEN w
  ELSE [w EXCEPT !.closing = TRUE, !.status = "stopping", !.copy = FALSE]

Close(next) ==
  /\ ui = "idle" /\ win.at = "open"
  /\ win' = Asked(win) /\ ui' = next
  /\ parent' = (parent \/ ~win.done) /\ ctx' = (ctx \/ ~win.done)
  /\ UNCHANGED <<run, record, firewall, notices, posts, queue>>

RequestClose == ~win.closing /\ Close("idle")

\* Windows ends: the thread waits for the agent, or for the time Windows grants,
\* and the process is then ended.
EndSession == Close(IF win.done THEN "idle" ELSE "ending")

SessionEnds ==
  /\ ui = "ending"
  /\ ui' = "idle"
  /\ win' = [win EXCEPT !.at = IF run = "ended" THEN "ended in time" ELSE "ended"]
  /\ UNCHANGED <<agent, firewall, notices, posts, queue>>

\* finish, on the message of Done.
FinishFailed(w, code) ==
  IF code = "exit 0" THEN [w EXCEPT !.done = TRUE, !.at = "destroyed"]
  ELSE [w EXCEPT !.done = TRUE, !.failed = TRUE, !.code = "Could not start",
                 !.status = "see the log", !.copy = FALSE]

Finished(w, code) ==
  IF w.closing \/ code = "exit 0" THEN [w EXCEPT !.done = TRUE, !.at = "destroyed"]
  ELSE [w EXCEPT !.done = TRUE, !.failed = TRUE, !.code = "Could not start",
                 !.status = "see the log", !.copy = FALSE]

Finish ==
  /\ \E code \in ExitCodes : Message(code) /\ win' = Finished(win, code)
  /\ queue' = [queue EXCEPT !.messages = Tail(@)]
  /\ UNCHANGED <<agent, firewall, notices, posts, ui>>

-----------------------------------------------------------------------------
WindowInit ==
  /\ run = "start" /\ parent = FALSE /\ ctx = FALSE /\ record = "none"
  /\ watch = [at |-> "checking", warned |-> FALSE] /\ wall = "blocks"
  /\ notices \in {{"update"}, {"rotation"}}
  /\ say = [g \in Goroutines |-> <<>>] /\ post = [g \in Goroutines |-> "out"]
  /\ queue = [pending |-> <<>>, wake |-> FALSE, messages |-> <<>>]
  /\ ui = "idle"
  /\ win = [at |-> "open", code |-> "Starting", status |-> "", copy |-> FALSE, newer |-> FALSE,
            closing |-> FALSE, done |-> FALSE, failed |-> FALSE]

Run == Start \/ SignedIn \/ Registered \/ Fails \/ Stop \/ Unregister \/ Result \/ Done
Watch == Checked \/ Recheck
Posting(g) == Enqueue(g) \/ Wake(g)
Loop == OnRefresh \/ Drain \/ Finish \/ SessionEnds

\* The process ends with its window.
WindowOpen == win.at = "open"

WindowNext ==
  /\ WindowOpen
  /\ \/ Run \/ Interrupt \/ Watch \/ Allow \/ Notice
     \/ \E g \in Goroutines : Posting(g)
     \/ Loop \/ RequestClose \/ EndSession

WindowSpec == WindowInit /\ [][WindowNext]_windowVars

\* The goroutines and the UI thread run, the calls of the start-up and of the end
\* are bounded by timeouts, and so is a sleep of the watch.
WindowFairSpec ==
  /\ WindowSpec
  /\ WF_windowVars(WindowOpen /\ Run) /\ WF_windowVars(WindowOpen /\ Watch)
  /\ WF_windowVars(WindowOpen /\ Loop)
  /\ \A g \in Goroutines : WF_windowVars(WindowOpen /\ Posting(g))

-----------------------------------------------------------------------------
Statuses == {"signing", "publishing", "waiting", "stopping", "blocking"}
Updates == {Status(s) : s \in Statuses} \cup {Code(c) : c \in {"first", "second"}} \cup {Newer}
AgentOK ==
  /\ run \in {"start", "signing in", "registering", "serving", "stopping", "stopped", "failed",
             "ended"} \cup ExitCodes
  /\ parent \in BOOLEAN /\ ctx \in BOOLEAN
  /\ record \in {"none", "published", "left behind"}
  /\ watch \in [at : {"checking", "sleeping", "gave up", "over"}, warned : BOOLEAN]
  /\ wall \in {"blocks", "allows"}
  /\ notices \subseteq {"update", "rotation"}

PostsOK == say \in [Goroutines -> Seq(Updates)] /\ post \in [Goroutines -> {"out", "queued"}]

QueueOK ==
  /\ queue \in [pending : Seq(Updates), wake : BOOLEAN, messages : Seq(Messages)]
  /\ Len(queue.pending) <= MaxPending

ControlsOK ==
  /\ ui \in {"idle", "draining", "ending"}
  /\ win \in [at : {"open", "destroyed", "ended in time", "ended"},
              code : {"Starting", "first", "second", "Could not start"},
              status : {"", "see the log"} \cup Statuses,
              copy : BOOLEAN, newer : BOOLEAN,
              closing : BOOLEAN, done : BOOLEAN, failed : BOOLEAN]

WindowTypeOK == AgentOK /\ PostsOK /\ QueueOK /\ ControlsOK

\* wndProc, wmClose: the window, and with it the process, goes only when the agent
\* has withdrawn what it published; Windows alone may end it before.
GoneWhenFinished == win.at = "destroyed" => run = "ended" /\ record # "published"

\* requestClose, finish, drain: a code is offered for copying while it is good,
\* however late its update reaches the thread.
CopyIsOffered == win.copy => ~win.closing /\ ~win.failed /\ win.code \in {"first", "second"}

\* post and drain: an update is never left in the queue with nobody to wake.
UpdatesAreShown == queue.pending # <<>> ~> (queue.pending = <<>> \/ win.at # "open")

\* OnClose: once the operator has asked the window to close it does, whatever the
\* agent is in the middle of and however it ends.
ClosingEnds == win.closing ~> win.at # "open"
=============================================================================
