----------------------------- MODULE DesktopSource -----------------------------
(***************************************************************************)
(* The sources of internal/capture: desktop duplication (DXGI) with the    *)
(* GDI copy behind it on Windows, a ScreenCaptureKit stream on macOS, and  *)
(* the pointer drawn into their frame.                                     *)
(*                                                                         *)
(* The clocks (the probe's 250 ms, the retry's 500 ms, the display check's *)
(* second) are flags that run out in steps of their own.  What the system  *)
(* answers to one call is a set of outcomes.                               *)
(***************************************************************************)
EXTENDS ScreenSource

CONSTANT Spots   \* where the pointer can be seen

ASSUME SpotsAssumption == "hidden" \notin Spots /\ "smear" \notin Spots

VARIABLES
  platform,  \* "windows" or "macos"
  source,    \* the open source, without its frame
  said,      \* what the last grab or opening said
  probe,     \* desktopProbe: the last answer while it is fresh, else "old"
  pointer,   \* where the pointer is, "hidden" when it is not on this monitor
  bitmap,    \* the pointers in the frame's pixels, and whether paint has seen it
  painter    \* cursorPainter: what it last drew

sourceVars == <<platform, source, said, probe, pointer, bitmap, painter>>
dsVars == <<screenVars, sourceVars>>

Closed == [kind |-> "none", dup |-> FALSE, news |-> FALSE, lost |-> FALSE, waiting |-> FALSE]

-----------------------------------------------------------------------------
\* desktopProbe.check: the system is asked only when the last answer is old.
Checked == IF probe = "old" THEN screen.readable ELSE probe = "yes"
Answer == IF Checked THEN "yes" ELSE "no"

\* One outcome of a call: what it said, the source and its frame after it, the
\* probe's answer, and whether the system failed.
Outcome(w, s, f, pr, cost) ==
  [said |-> w, source |-> s, frame |-> f, probe |-> pr, cost |-> cost]

\* A duplication that cannot be had, or not be read: an error, and the source closed.
Refused(pr) == Outcome("failed", Closed, NoFrame, pr, 1)

\* lose(): the next grab starts a new duplication at once.
LoseNothing(s) == s

Lose(s) == [s EXCEPT !.dup = FALSE, !.news = FALSE, !.waiting = FALSE]

\* A frame of another size is replaced by an empty one.
Fitted == IF frame.mode = screen.mode THEN frame ELSE Empty(screen.mode)

\* copyScreenGDI into a frame the new duplication has not filled: what grab
\* returns is whether the copy went well, never an error.
SeededAnyway(s, f, pr) == {Outcome("changed", s, Shot, pr, 0), Outcome("changed", s, f, pr, 1)}

Seeded(s, f, pr) == {Outcome("changed", s, Shot, pr, 0), Outcome("same", s, f, pr, 1)}

\* AcquireNextFrame and what grab makes of it; fresh after a duplicate() of this
\* grab. A duplication does not survive a change of mode, and may or may not
\* survive the secure desktop.
Acquired(s, f, fresh, pr) ==
  LET gone == Outcome("unavailable", Lose(s), f, pr, 0)
      still == IF fresh THEN Seeded(s, f, pr)
               ELSE IF Checked THEN {Outcome("same", s, f, Answer, 0)}
               ELSE {Outcome("unavailable", Lose(s), f, Answer, 0)}
      onlyPointer == IF fresh THEN Seeded(s, f, pr) ELSE {Outcome("same", s, f, pr, 0)}
  IN  IF f.mode # screen.mode THEN {gone}
      ELSE IF ~screen.readable THEN still \cup {gone}
      ELSE {Outcome("failed", Closed, NoFrame, pr, 1)}
           \cup (IF s.news THEN {Outcome("changed", [s EXCEPT !.news = FALSE], Shot, pr, 0)}
                 ELSE still \cup onlyPointer)

\* duplicate() when there is no duplication, no more often than every 500 ms; its
\* first image may or may not be there yet.
GrabDxgi(s) ==
  LET w == [s EXCEPT !.waiting = TRUE]
  IN  IF s.dup THEN Acquired(s, frame, FALSE, probe)
      ELSE IF s.waiting THEN {Outcome("unavailable", s, frame, probe, 0)}
      ELSE IF ~Checked \/ ~screen.readable THEN {Outcome("unavailable", w, frame, Answer, 0)}
      ELSE {Refused(Answer)}
           \cup UNION {Acquired([w EXCEPT !.dup = TRUE, !.news = n], Fitted, TRUE, Answer)
                         : n \in BOOLEAN}

\* The whole monitor on every tick, into a new bitmap when the mode changed.
GrabGdi(s) ==
  LET w == [s EXCEPT !.waiting = s.waiting \/ s.lost]
      off == [w EXCEPT !.lost = TRUE]
      on == [w EXCEPT !.lost = FALSE]
  IN  IF s.lost /\ s.waiting THEN {Outcome("unavailable", s, frame, probe, 0)}
      ELSE IF ~Checked THEN {Outcome("unavailable", off, frame, Answer, 0)}
      ELSE IF ~screen.readable THEN {Outcome("unavailable", off, Fitted, Answer, 0)}
      ELSE {Outcome("unavailable", off, Fitted, Answer, 1), Outcome("changed", on, Shot, Answer, 0)}
           \cup (IF Fitted = frame THEN {} ELSE {Outcome("failed", Closed, NoFrame, Answer, 1)})

\* The newest picture of the stream; another display or resolution, looked for
\* once a second, is an error, and no display at all a pause.
GrabSck(s) ==
  LET w == [s EXCEPT !.waiting = TRUE]
      other == ~s.waiting /\ frame.mode # screen.mode
  IN  IF ~Checked THEN {Outcome("unavailable", s, frame, Answer, 0)}
      ELSE {Outcome("failed", Closed, NoFrame, Answer, IF other THEN 0 ELSE 1),
            Outcome("unavailable", w, frame, Answer, 1)}
           \cup (IF other THEN {}
                 ELSE IF s.news /\ screen.readable /\ frame.mode = screen.mode
                 THEN {Outcome("changed", [w EXCEPT !.news = FALSE], Shot, Answer, 0)}
                 ELSE {Outcome(IF frame.pic = Blank THEN "unavailable" ELSE "same", w, frame,
                               Answer, 0)})

\* grab() of the source that is open.
Grabs ==
  CASE source.kind = "dxgi" -> GrabDxgi(source)
    [] source.kind = "gdi"  -> GrabGdi(source)
    [] OTHER -> GrabSck(source)

\* A stream, or a bitmap, of the monitor's size, and nothing in it yet.
Streams(kind) == Outcome("opened", [Closed EXCEPT !.kind = kind], Empty(screen.mode), "old", 0)

\* openSource: desktop duplication, even one that is only unavailable now, else
\* the GDI copy; on macOS the stream of the main display.
Opens ==
  LET dxgi(d, n, f) == Outcome("opened", [Closed EXCEPT !.kind = "dxgi", !.dup = d, !.news = n],
                               f, "old", 0)
  IN  {Outcome("failed", Closed, NoFrame, "old", 1)}
      \cup IF platform = "macos" THEN {Streams("sck")}
           ELSE {[Streams("gdi") EXCEPT !.cost = 1]}
                \cup (IF screen.readable
                      THEN {dxgi(TRUE, n, Empty(screen.mode)) : n \in BOOLEAN}
                      ELSE {dxgi(FALSE, FALSE, NoFrame)})

-----------------------------------------------------------------------------
\* restore(): the rectangle saved from under the pointer goes back where it was
\* drawn. In a bitmap that does not hold that pointer it is a smear.
Restored(marks, p) == IF p.last \in marks THEN marks \ {p.last} ELSE marks \cup {"smear"}

\* What the painter knows of the bitmap: nothing, when the source replaced it.
NotesNothing(b) == painter

Notes(b) == IF b.seen THEN painter ELSE [painter EXCEPT !.valid = FALSE, !.drawn = FALSE]

\* draw(): into the bitmap, if the pointer is on this monitor.
Draw(marks) == IF pointer = "hidden" THEN marks ELSE marks \cup {pointer}

\* paint(): fresh says the bitmap was just overwritten. On macOS the stream draws
\* the pointer itself.
Paint(b, fresh) ==
  LET p == Notes(b)
      cleared == IF ~fresh /\ p.drawn THEN Restored(b.marks, p) ELSE b.marks
      kept == platform = "macos" \/ (~fresh /\ p.valid /\ pointer = p.last)
  IN  /\ bitmap' = [seen |-> TRUE,
                    marks |-> IF kept THEN b.marks ELSE Draw(cleared)]
      /\ painter' = IF kept THEN p
                    ELSE [valid |-> TRUE, drawn |-> pointer # "hidden", last |-> pointer]

\* The bitmap after a grab: copied over, replaced, or as it was.
Bitmap(o) ==
  IF o.said = "changed" THEN [bitmap EXCEPT !.marks = {}, !.seen = @ /\ o.frame.mode = frame.mode]
  ELSE IF o.frame = frame THEN bitmap
  ELSE [marks |-> {}, seen |-> FALSE]

Apply(o) ==
  /\ Spend(o.cost)
  /\ said' = o.said /\ source' = o.source /\ frame' = o.frame /\ probe' = o.probe
  /\ UNCHANGED <<platform, screen, pointer>>

\* A tick's grab, and the pointer drawn into what it leaves to encode.
Grab ==
  /\ source.kind # "none"
  /\ \E o \in Grabs :
       /\ Apply(o)
       /\ IF o.said \in {"changed", "same"} THEN Paint(Bitmap(o), o.said = "changed")
          ELSE bitmap' = Bitmap(o) /\ UNCHANGED painter

\* The source is opened, at the start and after it failed.
Open ==
  /\ source.kind = "none"
  /\ \E o \in Opens :
       /\ Apply(o)
       /\ bitmap' = [marks |-> {}, seen |-> FALSE]
  /\ UNCHANGED painter

-----------------------------------------------------------------------------
\* The screen changes: the duplication, or the stream, has something new.
Changes ==
  /\ Desk
  /\ source' = [source EXCEPT !.news = @ \/ (screen'.picture # screen.picture
                                                   /\ (source.dup \/ source.kind = "sck"))]
  /\ UNCHANGED <<platform, said, probe, pointer, bitmap, painter>>

\* A new duplication, or a new stream, brings the whole desktop as its first image.
FirstImage ==
  /\ source.dup \/ source.kind = "sck"
  /\ screen.readable /\ ~source.news /\ frame.pic # screen.picture
  /\ source' = [source EXCEPT !.news = TRUE]
  /\ UNCHANGED <<screenVars, platform, said, probe, pointer, bitmap, painter>>

PointerMoves ==
  /\ pointer' \in (Spots \cup {"hidden"}) \ {pointer}
  /\ UNCHANGED <<screenVars, platform, source, said, probe, bitmap, painter>>

ProbeAges ==
  /\ probe # "old"
  /\ probe' = "old"
  /\ UNCHANGED <<screenVars, platform, source, said, pointer, bitmap, painter>>

RetryDue ==
  /\ source.waiting
  /\ source' = [source EXCEPT !.waiting = FALSE]
  /\ UNCHANGED <<screenVars, platform, said, probe, pointer, bitmap, painter>>

SourceInit ==
  /\ platform \in {"windows", "macos"}
  /\ source = Closed
  /\ said = "failed"
  /\ probe = "old"
  /\ pointer = "hidden"
  /\ bitmap = [marks |-> {}, seen |-> FALSE]
  /\ painter = [valid |-> FALSE, drawn |-> FALSE, last |-> "hidden"]

SourceNext == Grab \/ Open \/ Changes \/ FirstImage \/ PointerMoves \/ ProbeAges \/ RetryDue

\* The capture ticks, its clocks advance, and a new duplication or stream brings
\* its first image.
SourceFairness ==
  /\ SF_dsVars(Grab) /\ WF_dsVars(Open) /\ WF_dsVars(FirstImage)
  /\ WF_dsVars(ProbeAges) /\ WF_dsVars(RetryDue)

DesktopInit == ScreenInit /\ SourceInit
DesktopSpec == DesktopInit /\ [][SourceNext]_dsVars /\ SourceFairness

-----------------------------------------------------------------------------
\* cursorPainter: the only pointer in the bitmap is the one the painter last drew,
\* whatever replaced, copied or duplicated the bitmap in between; anything else
\* stays on the viewer's picture until the desktop there changes.
OnePointer == bitmap.marks \subseteq {painter.last}

\* source.grab: what a source says of its frame is what the pipeline builds on.
KeepsPromise == [][Grab \/ Open => Promise(said')]_dsVars

\* The pipeline can rely on it in the end: a desktop that rests is in the frame.
FrameCatchesUp ==
  <>[]screen.readable => <>[](frame = Shot)
=============================================================================
