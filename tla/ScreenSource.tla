------------------------------ MODULE ScreenSource ------------------------------
(***************************************************************************)
(* The captured monitor, and what a source of pictures (the interface      *)
(* source in internal/capture/pipeline.go) promises the pipeline: what may *)
(* become of its frame in a grab, by what the grab said.                   *)
(*                                                                         *)
(* A picture is the number of the desktop image it shows, Blank before it  *)
(* shows one.                                                              *)
(***************************************************************************)
EXTENDS Naturals

CONSTANTS
  Modes,        \* the resolutions of the primary monitor
  MaxPicture,   \* bound: desktop images
  MaxUpsets     \* bound: changes of resolution and calls that fail

ASSUME ScreenAssumption ==
  /\ Modes # {} /\ "none" \notin Modes
  /\ MaxPicture \in Nat \ {0} /\ MaxUpsets \in Nat

VARIABLES
  screen,   \* the primary monitor: its image, its mode, whether it can be read
  frame,    \* the picture the source keeps for the pipeline
  budget    \* the upsets that are left

screenVars == <<screen, frame, budget>>

Blank == 0
NoFrame == [pic |-> Blank, mode |-> "none"]
Empty(mode) == [pic |-> Blank, mode |-> mode]
Shot == [pic |-> screen.picture, mode |-> screen.mode]

\* What a grab, by what it said, may do to the frame; "opened" is openSource.
Promise(said) ==
  \/ said = "changed" /\ screen.readable /\ frame' = Shot
  \/ said = "same" /\ frame' \in {frame, Empty(screen.mode)} \ {NoFrame}
  \/ said = "unavailable" /\ frame' \in {frame, Empty(screen.mode)}
  \/ said = "opened" /\ frame' \in {NoFrame, Empty(screen.mode)}
  \/ said = "failed" /\ frame' = NoFrame

Spend(cost) == cost <= budget /\ budget' = budget - cost

-----------------------------------------------------------------------------
\* What happens on the computer.
DesktopChanges ==
  /\ screen.picture < MaxPicture
  /\ screen' = [screen EXCEPT !.picture = @ + 1]
  /\ UNCHANGED <<frame, budget>>

Lock ==
  /\ screen.readable
  /\ screen' = [screen EXCEPT !.readable = FALSE]
  /\ UNCHANGED <<frame, budget>>

Unlock ==
  /\ ~screen.readable
  /\ screen' = [screen EXCEPT !.readable = TRUE]
  /\ UNCHANGED <<frame, budget>>

ModeChanges ==
  /\ Spend(1)
  /\ \E m \in Modes \ {screen.mode} : screen' = [screen EXCEPT !.mode = m]
  /\ UNCHANGED frame

Desk == DesktopChanges \/ Lock \/ Unlock \/ ModeChanges

ScreenInit ==
  /\ \E r \in BOOLEAN :  \* the modes are alike: it starts in any one of them
       screen = [picture |-> 1, mode |-> CHOOSE m \in Modes : TRUE, readable |-> r]
  /\ frame = NoFrame
  /\ budget = MaxUpsets

Frames == [pic : Blank..MaxPicture, mode : Modes \cup {"none"}]

ScreenTypeOK ==
  /\ screen \in [picture : 1..MaxPicture, mode : Modes, readable : BOOLEAN]
  /\ frame \in Frames
  /\ budget \in 0..MaxUpsets
=============================================================================
