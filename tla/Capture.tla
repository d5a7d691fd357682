-------------------------------- MODULE Capture --------------------------------
(***************************************************************************)
(* The capture pipeline (internal/capture/pipeline.go) and the loop that   *)
(* feeds its frames to the viewer (streamScreen in coordinator.go).        *)
(*                                                                         *)
(* The capture goroutine grabs the screen on every tick and converts it    *)
(* into an image of a small pool; one job waits for the encoder at most,   *)
(* and a newer one replaces it.  The encoder keeps the last image, so as   *)
(* to repeat it, and hands each frame to the reader itself.  The session   *)
(* starts a new capture when one ends; by then (captureRetryBackoff) both  *)
(* goroutines of the old one are gone.  What a grab may bring is what a    *)
(* source promises (ScreenSource).                                         *)
(***************************************************************************)
EXTENDS ScreenSource, FiniteSets

CONSTANTS
  Images,     \* image identities; one is reused once nobody holds it
  FreeCap     \* capacity of the channel of free images

\* An image is made when there is none to take: two others are held at most.
ASSUME CaptureAssumption ==
  /\ FreeCap \in Nat /\ "none" \notin Images
  /\ \A i, j \in Images \cup {"none"} : Images \ {i, j} # {}

VARIABLES
  capture,  \* the capture goroutine: "off", "tick", "reopen", "ended"
  conv,     \* the mode its converter takes, "none" for no converter
  paused,
  slot,     \* jobs, a channel of one
  free,     \* the images free for reuse, with their sizes
  encoder,  \* the encode goroutine
  want,     \* KeyframeRequest
  stream,   \* streamScreen: "start", "pump", "backoff", "off"
  started,
  stopped,  \* the context of the capture has ended
  whole,    \* the viewer misses no picture
  owed      \* auxiliary: a new encoder has been called for and not been made

captureVars == <<capture, conv, paused>>
streamVars == <<stream, started, stopped>>
vars == <<screenVars, captureVars, slot, free, encoder, want, streamVars, whole, owed>>

NoImage == [img |-> "none", pic |-> Blank, mode |-> "none"]

\* A job with the picture of h, and the encoder with it.
Job(h, restart, keyframe) ==
  [img |-> h.img, pic |-> h.pic, mode |-> h.mode, restart |-> restart, keyframe |-> keyframe]
Encoding(h, at, key) == [img |-> h.img, pic |-> h.pic, mode |-> h.mode, at |-> at, key |-> key]

NoJob == Job(NoImage, FALSE, FALSE)
Idle == Encoding(NoImage, "off", FALSE)

\* The images the capture, the waiting job and the encoder hold.
Held == {slot.img, encoder.img} \ {"none"}
Free == {f.img : f \in free}

\* recycle(): a full channel drops the image.
Recycled(pool, h) ==
  IF h.img = "none" \/ Cardinality(pool) >= FreeCap THEN pool
  ELSE pool \cup {[img |-> h.img, mode |-> h.mode]}

-----------------------------------------------------------------------------
\* A tick on which the desktop cannot be read, or the source has just failed.
TickPauses ==
  /\ Promise("unavailable") /\ UNCHANGED budget
  /\ paused' = TRUE
  /\ UNCHANGED <<capture, conv, slot, free, want, owed>>

\* The source failed: it is closed, and opened again in the same tick.
TickFails ==
  /\ Promise("failed") /\ Spend(1)
  /\ capture' = "reopen"
  /\ UNCHANGED <<conv, paused, slot, free, want, owed>>

\* A new encoder is called for (restart): at the start and for a frame of another
\* size, with a new converter, and after a pause.
Resized(f) == conv # f.mode
NeedsEncoder(f) == paused \/ Resized(f)

\* takeImage: a free image of the right size, those of another size dropped on the
\* way, or a new one when there is none.
Takeable(m) ==
  LET right == {f \in free : f.mode = m}
      new == Images \ Held
  IN  IF right # {}
      THEN {<<f.img, free \ (d \cup {f})>> : f \in right, d \in SUBSET (free \ right)}
      ELSE {<<CHOOSE i \in new : TRUE, {}>>}

\* send(): a tick the encoder has not taken yet is replaced by the new one, which
\* stands for both; an image nobody will encode is free again. The encoder only
\* ever takes the waiting job, so a tick and its send are one step.
MergedNoRestart(new, old) ==
  Job(IF new.img = "none" THEN old ELSE new, new.restart, new.keyframe \/ old.keyframe)

MergedNoKeyframe(new, old) ==
  Job(IF new.img = "none" THEN old ELSE new, new.restart \/ old.restart, new.keyframe)

MergedNoImage(new, old) ==
  Job(new, new.restart \/ old.restart, new.keyframe \/ old.keyframe)

Merged(new, old) ==
  Job(IF new.img = "none" THEN old ELSE new,
      new.restart \/ old.restart, new.keyframe \/ old.keyframe)

SendFreesAll(new, pool) ==
  /\ slot' = IF slot = NoJob THEN new ELSE Merged(new, slot)
  /\ free' = Recycled(pool, slot)

Send(new, pool) ==
  /\ slot' = IF slot = NoJob THEN new ELSE Merged(new, slot)
  /\ free' = IF new.img = "none" THEN pool ELSE Recycled(pool, slot)

\* A tick with a picture: decide what to encode, and convert it. A request is taken
\* when a restart stands for it or keyframeMinInterval has passed, else it stays
\* pending. A new picture, or one with the pointer painted into it, is an image to
\* encode; one with nothing new is a repeat of the last, for a keyframe or after
\* idleInterval, or not worth a job.
TickSends(said) ==
  \E force \in {FALSE, want}, make \in {"image", "repeat", "nothing"} :
    LET f == frame'
        fresh == NeedsEncoder(f)
    IN  /\ Promise(said) /\ UNCHANGED <<capture, budget>>
        /\ said = "changed" \/ fresh => make = "image"
        /\ fresh => ~force
        /\ force => make # "nothing"
        /\ conv' = f.mode
        /\ paused' = FALSE
        /\ want' = (want /\ ~fresh /\ ~force)
        /\ owed' = (owed \/ fresh)
        /\ CASE make = "image" ->
                 \E t \in Takeable(f.mode) :
                    Send(Job([img |-> t[1], pic |-> f.pic, mode |-> f.mode], fresh, force), t[2])
             [] make = "repeat" -> Send(Job(NoImage, fresh, force), free)
             [] make = "nothing" -> UNCHANGED <<slot, free>>

\* The loop looks at its context before a tick.
Tick ==
  /\ capture = "tick" /\ ~stopped
  /\ TickPauses \/ TickFails \/ \E said \in {"changed", "same"} : TickSends(said)
  /\ UNCHANGED <<screen, encoder, streamVars, whole>>

\* The second half of a tick whose source failed.
Reopen ==
  /\ capture = "reopen"
  /\ \/ Promise("opened") /\ capture' = "tick" /\ UNCHANGED budget
     \/ Promise("failed") /\ capture' = "ended" /\ Spend(1)
  /\ UNCHANGED <<screen, conv, paused, slot, free,
                 encoder, want, streamVars, whole, owed>>

\* The loop returns: its context ended, or there is no converter to be had, or a
\* panic, which guarded() turns into an end of the capture.
CaptureEnds ==
  /\ capture \in {"tick", "reopen"}
  /\ capture' = "ended"
  /\ frame' = NoFrame
  /\ UNCHANGED <<screen, conv, paused, slot, free, encoder,
                 want, streamVars, whole, owed>>

CaptureStops == stopped /\ CaptureEnds /\ UNCHANGED budget
CaptureBreaks == Spend(1) /\ CaptureEnds

-----------------------------------------------------------------------------
\* The encoder takes a job, lets the image it replaces go, and encodes. It is made
\* anew when the job asks for it or the size is another, and then opens on a
\* keyframe; else one is made when asked for, and by libvpx now and then. A job
\* before any image is skipped.
Encode ==
  /\ encoder.at = "wait" /\ slot # NoJob
  /\ LET img == IF slot.img = "none" THEN encoder ELSE slot
         new == slot.restart \/ encoder.mode # img.mode
     IN  /\ free' = IF slot.img = "none" THEN free ELSE Recycled(free, encoder)
         /\ \E k \in BOOLEAN :
              /\ new \/ slot.keyframe => k
              /\ encoder' = IF img.img = "none" THEN encoder ELSE Encoding(img, "deliver", k)
         /\ owed' = (owed /\ ~(new /\ img.img # "none"))
  /\ slot' = NoJob
  /\ UNCHANGED <<screenVars, captureVars, want, streamVars, whole>>

\* The encoder ends, and with it the capture's context: nobody reads any more, or
\* the capture has ended and no job is left; or it fails, or panics.
EncoderEnds ==
  /\ encoder' = [Idle EXCEPT !.at = "ended"]
  /\ stopped' = TRUE
  /\ UNCHANGED <<screen, frame, captureVars, slot, free, want, stream, started,
                 whole, owed>>

EncoderStops ==
  /\ \/ encoder.at = "deliver" /\ stopped
     \/ encoder.at = "wait" /\ capture = "ended" /\ slot = NoJob
  /\ EncoderEnds /\ UNCHANGED budget

EncoderBreaks == encoder.at = "wait" /\ slot # NoJob /\ Spend(1) /\ EncoderEnds

-----------------------------------------------------------------------------
\* Start(): two goroutines on channels of their own; all of the state is new but the
\* keyframe request.
Started ==
  /\ capture' = "tick" /\ conv' = "none" /\ paused' = FALSE
  /\ free' = {} /\ slot' = NoJob /\ owed' = FALSE
  /\ encoder' = [Idle EXCEPT !.at = "wait"]

\* streamScreen starts a capture. A first start that fails leaves the session
\* without a picture.
StreamStarts ==
  /\ stream = "start"
  /\ \/ /\ Promise("failed") /\ Spend(1)
        /\ stream' = IF started THEN "backoff" ELSE "off"
        /\ UNCHANGED <<captureVars, slot, free, encoder, started, stopped, owed>>
     \/ /\ Promise("opened") /\ UNCHANGED budget
        /\ stream' = "pump" /\ started' = TRUE /\ stopped' = FALSE
        /\ Started
  /\ UNCHANGED <<screen, want, whole>>

\* pumpFrames writes a frame onto the track; the viewer's stream is whole again
\* with a keyframe.
Pump ==
  /\ stream = "pump" /\ encoder.at = "deliver"
  /\ whole' = (whole \/ encoder.key)
  /\ encoder' = [encoder EXCEPT !.at = "wait", !.key = FALSE]
  /\ UNCHANGED <<screenVars, captureVars, slot, free, want, streamVars, owed>>

\* The track can no longer be written: nothing reads the frames any more.
PumpFailsUnseen ==
  /\ stream = "pump" /\ encoder.at = "deliver"
  /\ encoder' = [encoder EXCEPT !.at = "wait", !.key = FALSE]
  /\ stream' = "off"
  /\ UNCHANGED <<screenVars, captureVars, slot, free, want, started, stopped, whole, owed>>

PumpFails ==
  /\ stream = "pump" /\ encoder.at = "deliver"
  /\ encoder' = [encoder EXCEPT !.at = "wait", !.key = FALSE]
  /\ stream' = "off"
  /\ stopped' = TRUE
  /\ UNCHANGED <<screenVars, captureVars, slot, free, want, started, whole, owed>>

\* The frame channel closed: another capture after a pause.
FramesEnd ==
  /\ stream = "pump" /\ encoder.at = "ended"
  /\ stream' = "backoff"
  /\ UNCHANGED <<screenVars, captureVars, slot, free, encoder, want, started, stopped, whole, owed>>

BackoffElapses ==
  /\ stream = "backoff"
  /\ capture \in {"off", "ended"} /\ encoder.at \in {"off", "ended"}
  /\ stream' = "start"
  /\ UNCHANGED <<screenVars, captureVars, slot, free, encoder, want, started, stopped, whole, owed>>

\* The session's context ends, and with it every context under it. Frames the loop
\* may still read until the channel closes are nobody's any more, and left out.
SessionEnds ==
  /\ stream # "off"
  /\ stream' = "off"
  /\ stopped' = TRUE
  /\ UNCHANGED <<screenVars, captureVars, slot, free, encoder, want, started, whole, owed>>

\* drainSenderRTCP: the viewer lost a picture and reports it.
PictureLost ==
  /\ stream = "pump"
  /\ whole' = FALSE
  /\ want' = TRUE
  /\ UNCHANGED <<screenVars, captureVars, slot, free, encoder, streamVars, owed>>

\* What the desktop does while there is a session.
Elsewhere ==
  /\ stream # "off" /\ Desk
  /\ UNCHANGED <<captureVars, slot, free, encoder, want, streamVars, whole, owed>>

-----------------------------------------------------------------------------
Init ==
  /\ ScreenInit
  /\ capture = "off" /\ conv = "none" /\ paused = FALSE
  /\ slot = NoJob
  /\ free = {}
  /\ encoder = Idle
  /\ want = FALSE
  /\ stream = "start" /\ started = FALSE /\ stopped = FALSE
  /\ whole = TRUE
  /\ owed = FALSE

Streaming == StreamStarts \/ Pump \/ FramesEnd \/ BackoffElapses

Next ==
  \/ Tick \/ Reopen \/ CaptureStops \/ CaptureBreaks
  \/ Encode \/ EncoderStops \/ EncoderBreaks
  \/ Streaming \/ PumpFails
  \/ SessionEnds \/ PictureLost \/ Elsewhere

\* The goroutines run and the clocks advance; the encoder is not kept from a waiting
\* job for good by the capture that replaces it; and a tick comes for which the rate
\* limit has passed.
Fairness ==
  /\ WF_vars(Tick \/ Reopen) /\ WF_vars(CaptureStops)
  /\ SF_vars(Encode) /\ WF_vars(EncoderStops)
  /\ WF_vars(Streaming)
  /\ SF_vars(Tick /\ ~want')

Spec == Init /\ [][Next]_vars
FairSpec == Spec /\ Fairness

-----------------------------------------------------------------------------
Pooled == [img : Images, mode : Modes \cup {"none"}]
Jobs == [img : Images \cup {"none"}, pic : Blank..MaxPicture, mode : Modes \cup {"none"},
         restart : BOOLEAN, keyframe : BOOLEAN]
Encoders == [img : Images \cup {"none"}, pic : Blank..MaxPicture, mode : Modes \cup {"none"},
             at : {"off", "wait", "deliver", "ended"}, key : BOOLEAN]

TypeOK ==
  /\ ScreenTypeOK
  /\ capture \in {"off", "tick", "reopen", "ended"}
  /\ conv \in Modes \cup {"none"}
  /\ slot \in Jobs /\ free \subseteq Pooled /\ encoder \in Encoders
  /\ stream \in {"start", "pump", "backoff", "off"}
  /\ {paused, want, started, stopped, whole, owed} \subseteq BOOLEAN

\* takeImage, send and recycle: an image has one holder, so the picture being
\* encoded is never the one being written, and three images are enough for good.
ImagesExclusive ==
  /\ slot.img = encoder.img => slot.img = "none"
  /\ Free \cap Held = {}
  /\ \A f, g \in free : f.img = g.img => f = g
  /\ Cardinality(Free \cup Held) <= 3

\* job.restart: however many ticks are merged before the encoder looks, a frame
\* from after a pause or a new size is made by an encoder started for it, so it
\* opens on a keyframe: the order is with the job that waits.
EncoderIsCurrent == owed /\ encoder.at # "ended" => slot.restart

\* A desktop that comes to rest, and that the source has brought (FrameCatchesUp
\* in DesktopSource), is what the viewer is sent in the end: no tick is
\* skipped, and no waiting job replaced, at the cost of its last change.
PictureArrives ==
  <>[](frame = Shot /\ stream # "off") => <>[](encoder.pic = screen.picture)

\* KeyframeRequest: a lost picture is repaired while the screen can be read,
\* through rate limit, merged jobs and a restart of the capture.
LossIsRepaired ==
  ~whole ~> (whole \/ stream = "off" \/ ~screen.readable)

\* streamScreen: a capture nobody reads ends, instead of "grabbing and converting
\* the screen until the session ends".
UnreadCaptureEnds == stream = "off" ~> capture \in {"off", "ended"}
=============================================================================
