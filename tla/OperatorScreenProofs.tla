-------------------------- MODULE OperatorScreenProofs --------------------------
(***************************************************************************)
(* Safety of OperatorScreen for every set of prompts, pickers and keys.    *)
(***************************************************************************)
EXTENDS OperatorScreen, TLAPS

\* The types of the part of the state that the questions and the session write,
\* without the counter: that one needs the lock.
ShapeOK ==
  /\ canBeClosed \in BOOLEAN
  /\ stage \in [Questions -> Stages]
  /\ uiMu \in Questions \cup {NoQuestion}
  /\ windows \subseteq Questions
  /\ cancelled \subseteq Questions
  /\ closed \in BOOLEAN
  /\ run \in {"on", "releasing", "closing", "over"}
  /\ channel \in {"open", "closing", "closed"}
  /\ frame \subseteq Frames
  /\ held \subseteq Keys

\* The lock and the counter, and whose windows are on the screen.
ScreenInv ==
  /\ ShapeOK
  /\ AttentionIsHeld
  /\ \A a \in windows : stage[a] = "shown" \/ Abandoned(a)

LEMMA InitScreen == Init => ScreenInv
  BY QuestionsAssumption DEF Init, ScreenInv, ShapeOK, Stages, AttentionIsHeld, InFront

\* A question's step leaves the questions that are not past the lock alone, and
\* only the one that holds the lock is past it.
LEMMA ScreenStep == ScreenInv /\ [Next]_vars => ScreenInv'
<1> SUFFICES ASSUME ScreenInv, [Next]_vars PROVE ScreenInv'
  OBVIOUS
<1> USE QuestionsAssumption
    DEF ScreenInv, ShapeOK, Stages, AttentionIsHeld, InFront, Abandoned
<1>1. ASSUME NEW a \in Questions, Ask(a) PROVE ScreenInv'
  BY <1>1 DEF Ask, Queues, Goes, sessionVars
<1>2. ASSUME NEW a \in Questions, Enter(a) PROVE ScreenInv'
  <2> USE <1>2 DEF Enter, Goes, sessionVars
  <2>1. \A b \in Questions : ~InFront(b) /\ stage[b] # "lowered"
    OBVIOUS
  <2>2. attention' = 1
    BY <2>1
  <2>3. QED
    BY <2>1, <2>2
<1>3. ASSUME NEW a \in Questions, Skip(a) \/ Show(a) \/ Dismiss(a) \/ Abandon(a)
      PROVE  ScreenInv'
  <2> USE DEF Skip, Show, Opens, Dismiss, Abandon, Goes, sessionVars
  <2>1. InFront(a) /\ InFront(a)'
    BY <1>3
  <2>2. \A b \in Questions : b # a => stage'[b] = stage[b]
    BY <1>3
  <2>3. AttentionIsHeld'
    BY <1>3, <2>1, <2>2
  <2>4. QED
    BY <1>3, <2>1, <2>2, <2>3
<1>4. ASSUME NEW a \in Questions, WindowCloses(a) PROVE ScreenInv'
  <2> USE DEF WindowCloses, sessionVars
  <2>1. \A b \in Questions : InFront(b)' = InFront(b) /\ (stage'[b] = "lowered") = (stage[b] = "lowered")
    BY <1>4
  <2>2. AttentionIsHeld'
    BY <1>4, <2>1
  <2>3. QED
    BY <1>4, <2>2
<1>5. ASSUME NEW a \in Questions, Lower(a) PROVE ScreenInv'
  <2> USE DEF Lower, Goes, sessionVars
  <2>1. attention = 1
    BY <1>5
  <2>2. \A b \in Questions : ~InFront(b)'
    BY <1>5
  <2>3. QED
    BY <1>5, <2>1, <2>2
<1>6. ASSUME NEW a \in Questions, Unlock(a) PROVE ScreenInv'
  BY <1>6 DEF Unlock, Goes, sessionVars
<1>7. ASSUME NEW f \in Frames, Receive(f) \/ Apply(f) PROVE ScreenInv'
  BY <1>7 DEF Receive, Apply, questionVars, Frames
\* The session's own steps move no question; what was abandoned stays so.
<1>8. ASSUME UNCHANGED questionVars, cancelled \subseteq cancelled', ShapeOK'
      PROVE  ScreenInv'
  <2>1. AttentionIsHeld'
    BY <1>8 DEF questionVars
  <2>2. ASSUME NEW a \in windows' PROVE stage'[a] = "shown" \/ Abandoned(a)'
    BY <1>8, <2>2 DEF questionVars
  <2>3. QED
    BY <1>8, <2>1, <2>2
<1>9. CASE ChannelBreaks \/ InputOnClose \/ FileOnClose \/ SessionEnds
           \/ RunReleasesInput \/ RunReleases
  <2> USE DEF ChannelBreaks, InputOnClose, FileOnClose, SessionEnds, RunReleasesInput,
              RunReleases, CloseTransfers, questionVars
  <2>1. UNCHANGED questionVars /\ cancelled \subseteq cancelled'
    BY <1>9
  <2>2. ShapeOK'
    BY <1>9
  <2>3. QED
    BY <1>8, <2>1, <2>2
<1>10. CASE UNCHANGED vars
  BY <1>10 DEF vars
<1>11. QED
  BY <1>1, <1>2, <1>3, <1>4, <1>5, <1>6, <1>7, <1>8, <1>9, <1>10 DEF Next

LEMMA ScreenInvariant == Spec => []ScreenInv
  BY InitScreen, ScreenStep, PTL DEF Spec

\* Every variable keeps its type: in particular uiMu holds attention at 0 or 1,
\* as the comment in ui.go says.
THEOREM TypeCorrect == Spec => []TypeOK
<1>1. ScreenInv => TypeOK
  BY DEF ScreenInv, ShapeOK, AttentionIsHeld, TypeOK
<1>2. QED
  BY <1>1, ScreenInvariant, PTL

\* exclusive(): whoever is past the lock holds it, and the counter says so.
THEOREM LockGuardsAttention == Spec => []AttentionIsHeld
<1>1. ScreenInv => AttentionIsHeld
  BY DEF ScreenInv
<1>2. QED
  BY <1>1, ScreenInvariant, PTL

\* Two windows are never up unless one of them is a picker the system cannot
\* close, and Busy() covers every other one.
THEOREM OneWindow == Spec => []OneLiveWindow
<1>1. ScreenInv => OneLiveWindow
  BY DEF ScreenInv, ShapeOK, AttentionIsHeld, InFront, OneLiveWindow, Busy
<1>2. QED
  BY <1>1, ScreenInvariant, PTL

\* No question touches what the session holds; a frame that presses something
\* finds the channel open, and what closes the channel has released it all.
LEMMA StaysReleased == NothingHeldAfterClose /\ [Next]_vars => NothingHeldAfterClose'
<1> USE DEF NothingHeldAfterClose
<1>still. UNCHANGED vars \/ UNCHANGED sessionVars
          => (NothingHeldAfterClose => NothingHeldAfterClose')
  BY DEF vars, sessionVars
<1>closing. SessionEnds \/ RunReleasesInput \/ RunReleases
            \/ ChannelBreaks \/ InputOnClose \/ FileOnClose
            => (NothingHeldAfterClose => NothingHeldAfterClose')
  BY DEF SessionEnds, RunReleasesInput, RunReleases, ChannelBreaks, InputOnClose, FileOnClose
<1>frames. \A f \in Frames : Receive(f) \/ Apply(f)
           => (NothingHeldAfterClose => NothingHeldAfterClose')
  BY DEF Receive, Apply
<1>questions. \A a \in Questions :
                \/ Ask(a) \/ Enter(a) \/ Skip(a) \/ Show(a) \/ WindowCloses(a)
                \/ Dismiss(a) \/ Abandon(a) \/ Lower(a) \/ Unlock(a)
              => (NothingHeldAfterClose => NothingHeldAfterClose')
  BY DEF Ask, Queues, Enter, Skip, Show, Opens, WindowCloses, Dismiss, Abandon, Lower, Unlock,
         sessionVars
<1> QED
  BY <1>still, <1>closing, <1>frames, <1>questions DEF Next

\* PROTOCOL.md 3.2: a closed channel leaves nothing pressed and carries nothing.
THEOREM ReleasedOnClose == Spec => []NothingHeldAfterClose
<1>start. Init => NothingHeldAfterClose
  BY DEF Init, NothingHeldAfterClose
<1> QED
  BY <1>start, StaysReleased, PTL DEF Spec
-----------------------------------------------------------------------------
\* What a question that must end waits for.

\* The lock is with a question that gives it back; a question that waits for a window has
\* one; and when the session is over its transfers are closed, which has ended the context
\* of every picker that is still asked.
NothingKeepsQuestions ==
  /\ uiMu # NoQuestion => InFront(uiMu) \/ stage[uiMu] = "lowered"
  /\ \A a \in Questions : stage[a] = "shown" => a \in windows
  /\ run = "over" => closed
  /\ closed => \A a \in Pickers : stage[a] \notin {"idle", "done"} => a \in cancelled

LEMMA KeepsStep == ScreenInv /\ NothingKeepsQuestions /\ [Next]_vars => NothingKeepsQuestions'
<1> SUFFICES ASSUME ScreenInv, NothingKeepsQuestions, [Next]_vars PROVE NothingKeepsQuestions'
  OBVIOUS
<1> USE QuestionsAssumption DEF ScreenInv, ShapeOK, Stages, NothingKeepsQuestions, InFront,
        Questions
<1>asks. ASSUME NEW a \in Questions, Ask(a) PROVE NothingKeepsQuestions'
  BY <1>asks DEF Ask, Queues, Goes, sessionVars
<1>enters. ASSUME NEW a \in Questions, Enter(a) PROVE NothingKeepsQuestions'
  BY <1>enters DEF Enter, Goes, sessionVars
<1>shows. ASSUME NEW a \in Questions, Skip(a) \/ Show(a) PROVE NothingKeepsQuestions'
  BY <1>shows DEF Skip, Show, Opens, Goes, sessionVars
<1>closes. ASSUME NEW a \in Questions, WindowCloses(a) PROVE NothingKeepsQuestions'
  BY <1>closes DEF WindowCloses, sessionVars
<1>settles. ASSUME NEW a \in Questions, Dismiss(a) \/ Abandon(a) PROVE NothingKeepsQuestions'
  BY <1>settles DEF Dismiss, Abandon, Goes, sessionVars
<1>lowers. ASSUME NEW a \in Questions, Lower(a) PROVE NothingKeepsQuestions'
  BY <1>lowers DEF Lower, Goes, sessionVars
<1>unlocks. ASSUME NEW a \in Questions, Unlock(a) PROVE NothingKeepsQuestions'
  BY <1>unlocks DEF Unlock, Goes, sessionVars
<1>channel. ASSUME \/ \E f \in Frames : Receive(f) \/ Apply(f)
                   \/ ChannelBreaks \/ InputOnClose \/ SessionEnds \/ RunReleasesInput
            PROVE  NothingKeepsQuestions'
  BY <1>channel DEF Receive, Apply, ChannelBreaks, InputOnClose, SessionEnds, RunReleasesInput,
                    questionVars
<1>session. ASSUME FileOnClose \/ RunReleases PROVE NothingKeepsQuestions'
  BY <1>session DEF FileOnClose, RunReleases, CloseTransfers, questionVars
<1>idle. CASE UNCHANGED vars
  BY <1>idle DEF vars, questionVars, sessionVars
<1> QED
  BY <1>asks, <1>enters, <1>shows, <1>closes, <1>settles, <1>lowers, <1>unlocks, <1>channel,
     <1>session, <1>idle DEF Next

\* exclusive() and transfers.Close(): no question of an ended session waits for something
\* that never comes.  The lock will be given back, a prompt's window times out, and a picker,
\* which does not, has its context ended: no operator has to answer.
THEOREM QuestionsAreFreed == Spec => []NothingKeepsQuestions
<1>start. Init => NothingKeepsQuestions
  BY QuestionsAssumption DEF Init, NothingKeepsQuestions
<1> QED
  BY <1>start, KeepsStep, ScreenInvariant, PTL DEF Spec
=============================================================================
