----------------------------- MODULE OperatorScreen -----------------------------
(***************************************************************************)
(* What is put in front of the operator, and how the session's input       *)
(* handler keeps out of its way (internal/consent, session/inputgate.go,   *)
(* internal/input/handler.go).                                             *)
(*                                                                         *)
(* A question is a Yes/No prompt or a file picker.  Each is asked on a     *)
(* goroutine of its own; exclusive() lets one of them through at a time.   *)
(* stage[a] is where the goroutine of question a stands:                   *)
(*                                                                         *)
(*   idle      not asked                  shown    its window is up        *)
(*   waiting   at uiMu.Lock()             settled  fn has returned         *)
(*   counted   holds uiMu, attention + 1  lowered  attention - 1           *)
(*   done      returned, uiMu unlocked                                     *)
(*                                                                         *)
(* One session is on when the model starts.  Its questions are file        *)
(* prompts and pickers; when it is over, a prompt can be the connection    *)
(* request of the next viewer.  The input channel's frames press and       *)
(* release Keys, which stand for the mouse buttons as well.                *)
(***************************************************************************)
EXTENDS Integers

CONSTANTS
  Prompts,       \* questions asked with Dialog.Ask
  Pickers,       \* questions asked with nativePicker.Pick
  Keys,          \* what a viewer can hold down
  NoQuestion     \* not a question

Questions == Prompts \cup Pickers

ASSUME QuestionsAssumption ==
  /\ Prompts \cap Pickers = {}
  /\ NoQuestion \notin Questions

VARIABLES
  canBeClosed,  \* macOS: the agent can close its picker. Windows: it cannot.
  stage,      \* stage[a]: see above
  uiMu,       \* the question that holds the lock, or NoQuestion
  attention,  \* the counter Busy() reads
  windows,    \* the questions whose window is on the screen
  cancelled,  \* the questions whose context has ended
  closed,     \* the session's transfers are closed: it asks nothing more
  run,        \* Coordinator.run: "on", "releasing", "closing", "over"
  channel,    \* the input channel: "open", "closing", "closed"
  frame,      \* the frames that passed the gate and are still to be applied
  held        \* the keys the handler holds down

vars == <<canBeClosed, stage, uiMu, attention, windows, cancelled, closed, run, channel,
          frame, held>>
questionVars == <<canBeClosed, stage, uiMu, attention, windows>>
sessionVars == <<canBeClosed, cancelled, closed, run, channel, frame, held>>

Stages == {"idle", "waiting", "counted", "shown", "settled", "lowered", "done"}

Frames == [key : Keys, press : BOOLEAN]   \* kd and ku, md and mu

TypeOK ==
  /\ canBeClosed \in BOOLEAN
  /\ stage \in [Questions -> Stages]
  /\ uiMu \in Questions \cup {NoQuestion}
  /\ attention \in 0 .. 1
  /\ windows \subseteq Questions
  /\ cancelled \subseteq Questions
  /\ closed \in BOOLEAN
  /\ run \in {"on", "releasing", "closing", "over"}
  /\ channel \in {"open", "closing", "closed"}
  /\ frame \subseteq Frames
  /\ held \subseteq Keys

Init ==
  /\ canBeClosed \in BOOLEAN
  /\ stage = [a \in Questions |-> "idle"]
  /\ uiMu = NoQuestion
  /\ attention = 0
  /\ windows = {} /\ cancelled = {} /\ closed = FALSE
  /\ run = "on" /\ channel = "open"
  /\ frame = {} /\ held = {}

Goes(a, from, to) ==
  /\ stage[a] = from
  /\ stage' = [stage EXCEPT ![a] = to]

-----------------------------------------------------------------------------
\* Questions.

\* Ask(): the question is put in exclusive().
Queues(a) == Goes(a, "idle", "waiting")

\* Ask() or Pick() is called; a picker too soon after the last one is refused.
Ask(a) ==
  /\ ~closed \/ (run = "over" /\ a \in Prompts)
  /\ Queues(a) \/ (a \in Pickers /\ Goes(a, "idle", "done"))
  /\ UNCHANGED <<uiMu, attention, windows, sessionVars>>

\* A fault: the attention is counted without waiting for the lock.
EnterUnlocked(a) ==
  /\ Goes(a, "waiting", "counted")
  /\ uiMu' = a
  /\ attention' = attention + 1
  /\ UNCHANGED <<windows, sessionVars>>

\* exclusive(): uiMu.Lock(), then attention.Add(1).
Enter(a) ==
  /\ uiMu = NoQuestion
  /\ Goes(a, "waiting", "counted")
  /\ uiMu' = a
  /\ attention' = attention + 1
  /\ UNCHANGED <<windows, sessionVars>>

\* A context that has ended is noticed before the window is made by a picker,
\* and on macOS by a prompt too.
ShowsNothing(a) == a \in cancelled /\ (a \in Pickers \/ canBeClosed)

Skip(a) ==
  /\ ShowsNothing(a)
  /\ Goes(a, "counted", "settled")
  /\ UNCHANGED <<uiMu, attention, windows, sessionVars>>

\* The window, on a thread of its own.
Opens(a) == windows' = windows \cup {a}

Show(a) ==
  /\ ~ShowsNothing(a)
  /\ Goes(a, "counted", "shown")
  /\ Opens(a)
  /\ UNCHANGED <<uiMu, attention, sessionVars>>

\* The window goes: the operator chose, or the prompt's own timeout passed.
\* The goroutine that waits for it, if there still is one, has its result.
WindowCloses(a) ==
  /\ a \in windows
  /\ windows' = windows \ {a}
  /\ stage' = [stage EXCEPT ![a] = IF @ = "shown" THEN "settled" ELSE @]
  /\ UNCHANGED <<uiMu, attention, sessionVars>>

\* The context ended: the window is told to close and its result awaited.
Dismiss(a) ==
  /\ a \in cancelled /\ (a \in Prompts \/ canBeClosed)
  /\ Goes(a, "shown", "settled")
  /\ windows' = windows \ {a}
  /\ UNCHANGED <<uiMu, attention, sessionVars>>

\* The Windows file dialog cannot be closed: it is left on the screen.
Abandon(a) ==
  /\ a \in cancelled \cap Pickers /\ ~canBeClosed
  /\ Goes(a, "shown", "settled")
  /\ UNCHANGED <<uiMu, attention, windows, sessionVars>>

\* A fault: the deferred attention.Add(-1) is missing.
LowerForgotten(a) ==
  /\ Goes(a, "settled", "lowered")
  /\ UNCHANGED <<uiMu, attention, windows, sessionVars>>

\* The deferred calls of exclusive(), the last one first.
Lower(a) ==
  /\ Goes(a, "settled", "lowered")
  /\ attention' = attention - 1
  /\ UNCHANGED <<uiMu, windows, sessionVars>>

Unlock(a) ==
  /\ Goes(a, "lowered", "done")
  /\ uiMu' = NoQuestion
  /\ UNCHANGED <<attention, windows, sessionVars>>

-----------------------------------------------------------------------------
\* The input channel.  Its read loop handles one message at a time.

Busy == attention > 0

\* applyInput(): dropped with everything released, or let through.
Receive(f) ==
  /\ channel # "closed" /\ frame = {}
  /\ \/ Busy /\ held' = {} /\ UNCHANGED frame
     \/ ~Busy /\ frame' = {f} /\ UNCHANGED held
  /\ UNCHANGED <<questionVars, cancelled, closed, run, channel>>

\* Handler.Handle(), under the handler's lock.
Apply(f) ==
  /\ f \in frame
  /\ frame' = {}
  /\ held' = IF f.press THEN held \cup {f.key} ELSE held \ {f.key}
  /\ UNCHANGED <<questionVars, cancelled, closed, run, channel>>

\* The connection is lost, or the viewer closes the channel.
ChannelBreaks ==
  /\ channel = "open"
  /\ channel' = "closing"
  /\ UNCHANGED <<questionVars, cancelled, closed, run, frame, held>>

\* A fault: the release is left to the end of run().
InputOnCloseLeavesHeld ==
  /\ channel = "closing" /\ frame = {}
  /\ channel' = "closed"
  /\ UNCHANGED <<questionVars, cancelled, closed, run, frame, held>>

\* OnClose of the input channel: the read loop has ended.
InputOnClose ==
  /\ channel = "closing" /\ frame = {}
  /\ channel' = "closed"
  /\ held' = {}
  /\ UNCHANGED <<questionVars, cancelled, closed, run, frame>>

\* transfers.Close(): nothing more is asked, and the context of every question
\* asked so far ends.  Once.
CloseTransfers ==
  /\ closed' = TRUE
  /\ cancelled' = IF closed THEN cancelled
                  ELSE cancelled \cup {a \in Questions : stage[a] # "idle"}

\* OnClose of the file channel.
FileOnClose ==
  /\ channel # "open" /\ ~closed
  /\ CloseTransfers
  /\ UNCHANGED <<questionVars, run, channel, frame, held>>

-----------------------------------------------------------------------------
\* The end of Coordinator.run().

\* The peer failed or closed, the viewer's node went, the agent stops.
SessionEnds ==
  /\ run = "on"
  /\ run' = "releasing"
  /\ UNCHANGED <<questionVars, cancelled, closed, channel, frame, held>>

\* s.input.ReleaseAll()
RunReleasesInput ==
  /\ run = "releasing"
  /\ held' = {}
  /\ run' = "closing"
  /\ UNCHANGED <<questionVars, cancelled, closed, channel, frame>>

\* A fault: the transfers are left to the file channel's OnClose, which is
\* never called when the channel was never opened.
RunReleasesPeerOnly ==
  /\ run = "closing"
  /\ channel' = IF channel = "open" THEN "closing" ELSE channel
  /\ run' = "over"
  /\ UNCHANGED <<questionVars, cancelled, closed, frame, held>>

\* s.release(): the transfers, then the peer, which ends the channel.
RunReleases ==
  /\ run = "closing"
  /\ CloseTransfers
  /\ channel' = IF channel = "open" THEN "closing" ELSE channel
  /\ run' = "over"
  /\ UNCHANGED <<questionVars, frame, held>>

Next ==
  \/ \E a \in Questions :
       \/ Ask(a) \/ Enter(a) \/ Skip(a) \/ Show(a) \/ WindowCloses(a)
       \/ Dismiss(a) \/ Abandon(a) \/ Lower(a) \/ Unlock(a)
  \/ \E f \in Frames : Receive(f) \/ Apply(f)
  \/ ChannelBreaks \/ InputOnClose \/ FileOnClose
  \/ SessionEnds \/ RunReleasesInput \/ RunReleases

Spec == Init /\ [][Next]_vars

(***************************************************************************)
(* Goroutines go on, a mutex is handed to a waiter in the end (Go's is     *)
(* starvation-free), a prompt times out.  A picker has no timeout and no   *)
(* operator has to answer; no viewer has to send anything.  What a closed  *)
(* channel still carries is finite, so its read loop ends.                 *)
(***************************************************************************)
Fairness ==
  /\ \A a \in Questions :
       /\ SF_vars(Enter(a))
       /\ WF_vars(Skip(a) \/ Show(a))
       /\ WF_vars(Dismiss(a) \/ Abandon(a))
       /\ WF_vars(Lower(a) \/ Unlock(a))
  /\ \A a \in Prompts : WF_vars(WindowCloses(a))
  /\ WF_vars(\E f \in Frames : Apply(f))
  /\ SF_vars(InputOnClose)
  /\ WF_vars(RunReleasesInput \/ RunReleases)

FairSpec == Spec /\ Fairness

-----------------------------------------------------------------------------

\* exclusive(), ui.go: one question at a time, process-wide.  A second window can
\* only be beside one that its goroutine has left behind because the system
\* offers no way to close it, and Busy() cannot miss a question: while a window
\* waits for an answer, frames are dropped.
Abandoned(a) == ~canBeClosed /\ a \in Pickers \cap cancelled /\ stage[a] # "shown"

OneLiveWindow ==
  /\ \A a, b \in windows : a = b \/ Abandoned(a) \/ Abandoned(b)
  /\ (\E a \in windows : ~Abandoned(a)) => Busy

\* The lock and the counter go together: a question past the lock holds it, and
\* the counter is up exactly while one of them has the operator's attention.  Were
\* it up for longer, the viewer's input would be dropped with no question to see.
InFront(a) == stage[a] \in {"counted", "shown", "settled"}

AttentionIsHeld ==
  /\ \A a \in Questions : InFront(a) \/ stage[a] = "lowered" => uiMu = a
  /\ attention = IF \E a \in Questions : InFront(a) THEN 1 ELSE 0

\* PROTOCOL.md 3.2: nothing stays pressed once the channel is closed.  Frames
\* that were under way when run() released everything are caught by OnClose.
NothingHeldAfterClose == channel = "closed" => held = {} /\ frame = {}

\* transfer/session.go: when the session is over, its questions end, whether
\* the operator answers or not.
CancelledQuestionsEnd ==
  \A a \in Questions : run = "over" /\ stage[a] \notin {"idle", "done"} ~> stage[a] = "done"
=============================================================================
