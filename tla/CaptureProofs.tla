------------------------------ MODULE CaptureProofs ------------------------------
(***************************************************************************)
(* The capture pipeline over any source that keeps its promise, for any    *)
(* modes, any number of pictures and any size of the pool's channel; and   *)
(* that the sources of DesktopSource keep it.                              *)
(*                                                                         *)
(* The image pool is safe because an image is only ever passed on: out of  *)
(* the pool, or new, into a job, from the job to the encoder, and back.    *)
(* The encoder is current because a job that calls for a new one carries   *)
(* an image, and only such a job or the start of a capture replaces one.   *)
(* A lost picture is repaired because whatever takes the request for it    *)
(* brings a keyframe, or is replaced by something that does.               *)
(* A source's picture has one pointer because the painter is told whenever *)
(* the pixels it painted into are no longer there.                         *)
(***************************************************************************)
EXTENDS Capture, DesktopSource, FiniteSetTheorems, TLAPS

\* What a grab leaves in the frame is a frame.
LEMMA PromiseShape ==
  ASSUME ScreenTypeOK, NEW word, Promise(word)
  PROVE  frame' \in Frames
<1>pictures. Shot \in Frames /\ Empty(screen.mode) \in Frames /\ NoFrame \in Frames
  BY ScreenAssumption DEF ScreenTypeOK, Shot, Empty, NoFrame, Blank, Frames
<1> QED
  BY <1>pictures DEF Promise, ScreenTypeOK

LEMMA ScreenStep == ASSUME ScreenTypeOK, [Next]_vars PROVE ScreenTypeOK'
<1>frame. frame' \in Frames
  <2>promised. (\E word \in {"changed", "same", "unavailable", "opened", "failed"} : Promise(word))
               => frame' \in Frames
    BY PromiseShape
  <2>ended. CaptureEnds => frame' \in Frames
    BY ScreenAssumption DEF CaptureEnds, NoFrame, Blank, Frames
  <2>ways. \/ \E word \in {"changed", "same", "unavailable", "opened", "failed"} : Promise(word)
           \/ CaptureEnds
           \/ UNCHANGED frame
    BY DEF Next, Tick, TickPauses, TickFails, TickSends, Reopen, CaptureStops, CaptureBreaks,
           Encode, EncoderStops, EncoderBreaks, EncoderEnds, Streaming, StreamStarts, Started,
           Pump, PumpFails, FramesEnd, BackoffElapses, SessionEnds, PictureLost, Elsewhere,
           Desk, DesktopChanges, Lock, Unlock, ModeChanges, vars, screenVars
  <2> QED
    BY <2>promised, <2>ended, <2>ways DEF ScreenTypeOK
<1>screen. screen' \in [picture : 1..MaxPicture, mode : Modes, readable : BOOLEAN]
  <2> DEFINE Screens == [picture : 1..MaxPicture, mode : Modes, readable : BOOLEAN]
  <2>was. screen \in Screens
    BY DEF ScreenTypeOK
  <2>shows. DesktopChanges => screen' \in Screens
    <3> SUFFICES ASSUME DesktopChanges PROVE screen' \in Screens
      OBVIOUS
    <3>next. screen.picture + 1 \in 1..MaxPicture
      BY <2>was, ScreenAssumption DEF DesktopChanges
    <3> QED
      BY ONLY <2>was, <3>next, DesktopChanges DEF DesktopChanges
  <2>locks. Lock \/ Unlock => screen' \in Screens
    BY ONLY <2>was DEF Lock, Unlock
  <2>resized. ModeChanges => screen' \in Screens
    BY ONLY <2>was DEF ModeChanges
  <2>desk. Desk => screen' \in Screens
    BY <2>shows, <2>locks, <2>resized DEF Desk
  <2>ways. Desk \/ UNCHANGED screen
    BY DEF Next, Tick, Reopen, CaptureStops, CaptureBreaks, CaptureEnds, Encode, EncoderStops,
           EncoderBreaks, EncoderEnds, Streaming, StreamStarts, Started, Pump, PumpFails,
           FramesEnd, BackoffElapses, SessionEnds, PictureLost, Elsewhere, vars, screenVars
  <2> QED
    BY <2>desk, <2>ways DEF ScreenTypeOK
<1>budget. budget' \in 0..MaxUpsets
  <2>spent. ASSUME NEW c \in {0, 1}, Spend(c) PROVE budget' \in 0..MaxUpsets
    BY <2>spent, ScreenAssumption DEF Spend, ScreenTypeOK
  <2>ways. Spend(1) \/ UNCHANGED budget
    BY DEF Next, Tick, TickPauses, TickFails, TickSends, Reopen, CaptureStops, CaptureBreaks,
           Encode, EncoderStops, EncoderBreaks, EncoderEnds, Streaming, StreamStarts, Started,
           Pump, PumpFails, FramesEnd, BackoffElapses, SessionEnds, PictureLost, Elsewhere,
           Desk, DesktopChanges, Lock, Unlock, ModeChanges, vars, screenVars
  <2> QED
    BY <2>spent, <2>ways DEF ScreenTypeOK
<1> QED
  BY <1>frame, <1>screen, <1>budget DEF ScreenTypeOK

-----------------------------------------------------------------------------
\* The flags and the points of the goroutines.
FlagsOK ==
  /\ capture \in {"off", "tick", "reopen", "ended"}
  /\ conv \in Modes \cup {"none"}
  /\ stream \in {"start", "pump", "backoff", "off"}
  /\ {paused, want, started, stopped, whole, owed} \subseteq BOOLEAN

LEMMA FlagsStep ==
  ASSUME FlagsOK, frame' \in Frames, encoder \in Encoders, [Next]_vars
  PROVE  FlagsOK'
<1> USE DEF FlagsOK
<1>tick. CASE Tick
  <2>sends. ASSUME NEW word \in {"changed", "same"}, TickSends(word) PROVE FlagsOK'
    <3>moved. /\ conv' = frame'.mode /\ paused' = FALSE
              /\ want' \in BOOLEAN /\ owed' \in BOOLEAN /\ UNCHANGED capture
      BY <2>sends DEF TickSends, NeedsEncoder, Resized
    <3>kept. UNCHANGED <<stream, started, stopped, whole>>
      BY <1>tick DEF Tick, streamVars
    <3>mode. frame'.mode \in Modes \cup {"none"}
      BY DEF Frames
    <3> QED
      BY <3>moved, <3>kept, <3>mode
  <2> QED
    BY <1>tick, <2>sends DEF Tick, TickPauses, TickFails, streamVars
<1>reopens. CASE Reopen
  BY <1>reopens DEF Reopen, streamVars
<1>ends. CASE CaptureEnds
  BY <1>ends DEF CaptureEnds, streamVars
<1>encodes. CASE Encode
  BY <1>encodes DEF Encode, captureVars, streamVars
<1>dies. CASE EncoderEnds
  BY <1>dies DEF EncoderEnds, captureVars
<1>starts. CASE StreamStarts
  BY <1>starts DEF StreamStarts, Started, captureVars
<1>pumps. CASE Pump
  BY <1>pumps DEF Pump, captureVars, streamVars, Encoders
<1>fails. CASE PumpFails
  BY <1>fails DEF PumpFails, captureVars
<1>others. CASE \/ FramesEnd \/ BackoffElapses \/ SessionEnds \/ PictureLost \/ Elsewhere
                \/ UNCHANGED vars
  BY <1>others DEF FramesEnd, BackoffElapses, SessionEnds, PictureLost, Elsewhere, captureVars,
                   streamVars, vars
<1> QED
  BY <1>tick, <1>reopens, <1>ends, <1>encodes, <1>dies, <1>starts, <1>pumps, <1>fails, <1>others
     DEF Next, CaptureStops, CaptureBreaks, EncoderStops, EncoderBreaks, Streaming

-----------------------------------------------------------------------------
\* What the pieces of a tick return.
LEMMA JobShape ==
  ASSUME NEW h, h.img \in Images \cup {"none"}, h.pic \in Blank..MaxPicture,
         h.mode \in Modes \cup {"none"}, NEW r \in BOOLEAN, NEW k \in BOOLEAN
  PROVE  /\ Job(h, r, k) \in Jobs /\ Job(h, r, k).img = h.img /\ Job(h, r, k).restart = r
  BY DEF Job, Jobs

LEMMA NoJobShape == NoJob \in Jobs /\ NoJob.img = "none" /\ NoJob.restart = FALSE
  BY ScreenAssumption DEF NoJob, Job, NoImage, Jobs, Blank

LEMMA RecycledShape ==
  ASSUME NEW pool, NEW h
  PROVE  \/ Recycled(pool, h) = pool
         \/ /\ h.img # "none"
            /\ Recycled(pool, h) = pool \cup {[img |-> h.img, mode |-> h.mode]}
  BY DEF Recycled

LEMMA TakeableShape ==
  ASSUME TypeOK, NEW m, NEW t \in Takeable(m)
  PROVE  /\ t = <<t[1], t[2]>> /\ t[2] \subseteq free
         /\ \/ \E f \in free : t[1] = f.img /\ f \notin t[2]
            \/ t[1] \in Images \ Held /\ t[2] = {}
<1> DEFINE right == {f \in free : f.mode = m}
           new == Images \ Held
<1>some. CASE right # {}
  <2>pick. PICK f \in right : \E d \in SUBSET (free \ right) : t = <<f.img, free \ (d \cup {f})>>
    BY <1>some DEF Takeable
  <2> QED
    BY <2>pick
<1>none. CASE right = {}
  <2>held. slot.img \in Images \cup {"none"} /\ encoder.img \in Images \cup {"none"}
    BY DEF TypeOK, Jobs, Encoders
  <2>two. Images \ {slot.img, encoder.img} # {}
    BY ONLY <2>held, CaptureAssumption
  <2>left. \E i \in Images : i \in new
    BY ONLY <2>two DEF Held
  <2>made. t = <<CHOOSE i \in new : TRUE, {}>>
    BY <1>none DEF Takeable
  <2> QED
    BY <2>left, <2>made
<1> QED
  BY <1>some, <1>none

\* Every tick with a picture is a job, sent or not worth sending.
LEMMA TickShape ==
  ASSUME TypeOK, NEW word, TickSends(word)
  PROVE  \/ UNCHANGED <<slot, free, owed>>
         \/ \E new \in Jobs, pool \in SUBSET free :
              /\ Send(new, pool)
              /\ owed' = (owed \/ new.restart)
              /\ \/ new.img = "none" /\ ~new.restart /\ pool = free
                 \/ <<new.img, pool>> \in Takeable(frame'.mode)
<1>pick. PICK force \in {FALSE, want}, make \in {"image", "repeat", "nothing"} :
           LET f == frame'
               fresh == NeedsEncoder(f)
           IN  /\ fresh => make = "image"
               /\ owed' = (owed \/ fresh)
               /\ CASE make = "image" ->
                        \E t \in Takeable(f.mode) :
                           Send(Job([img |-> t[1], pic |-> f.pic, mode |-> f.mode], fresh, force), t[2])
                    [] make = "repeat" -> Send(Job(NoImage, fresh, force), free)
                    [] make = "nothing" -> UNCHANGED <<slot, free>>
  BY DEF TickSends
<1>flags. NeedsEncoder(frame') \in BOOLEAN /\ force \in BOOLEAN
  BY DEF NeedsEncoder, Resized, TypeOK
<1>image. CASE make = "image"
  <2>take. PICK t \in Takeable(frame'.mode) :
             Send(Job([img |-> t[1], pic |-> frame'.pic, mode |-> frame'.mode],
                      NeedsEncoder(frame'), force), t[2])
    BY <1>pick, <1>image
  <2> DEFINE h == [img |-> t[1], pic |-> frame'.pic, mode |-> frame'.mode]
  <2>frame. frame' \in Frames
    <3> Promise(word)
      BY DEF TickSends
    <3> QED
      BY PromiseShape DEF TypeOK
  <2>img. t[1] \in Images /\ t[2] \in SUBSET free /\ <<t[1], t[2]>> \in Takeable(frame'.mode)
    BY <2>take, TakeableShape DEF TypeOK, Pooled
  <2>holds. h.img = t[1] /\ h.img \in Images \cup {"none"} /\ h.pic \in Blank..MaxPicture
            /\ h.mode \in Modes \cup {"none"}
    BY <2>img, <2>frame DEF Frames
  <2>job. /\ Job(h, NeedsEncoder(frame'), force) \in Jobs
          /\ Job(h, NeedsEncoder(frame'), force).img = t[1]
          /\ Job(h, NeedsEncoder(frame'), force).restart = NeedsEncoder(frame')
    <3> HIDE DEF h
    <3> QED
      BY <2>holds, <1>flags, JobShape
  <2> QED
    BY <1>pick, <2>take, <2>img, <2>job
<1>repeat. CASE make = "repeat"
  <2>calm. ~NeedsEncoder(frame')
    BY <1>pick, <1>repeat
  <2>job. /\ Job(NoImage, FALSE, force) \in Jobs
          /\ Job(NoImage, FALSE, force).img = "none"
          /\ Job(NoImage, FALSE, force).restart = FALSE
    BY <1>flags, ScreenAssumption DEF Job, Jobs, NoImage, Blank
  <2>owed. owed' = owed /\ owed \in BOOLEAN
    BY <1>pick, <2>calm DEF TypeOK
  <2>sent. Send(Job(NoImage, FALSE, force), free)
    BY <1>pick, <1>repeat, <2>calm, <1>flags
  <2> QED
    BY <2>job, <2>owed, <2>sent
<1>nothing. CASE make = "nothing"
  BY <1>pick, <1>nothing DEF TypeOK
<1> QED
  BY <1>pick, <1>image, <1>repeat, <1>nothing

-----------------------------------------------------------------------------
\* Jobs and images.
ImagesOK == slot \in Jobs /\ free \subseteq Pooled /\ encoder \in Encoders

LEMMA RecycledOK ==
  ASSUME NEW pool \in SUBSET Pooled, NEW h, h.img \in Images \cup {"none"},
         h.mode \in Modes \cup {"none"}
  PROVE  Recycled(pool, h) \subseteq Pooled
  BY DEF Recycled, Pooled

LEMMA SendOK ==
  ASSUME slot \in Jobs, NEW new \in Jobs, NEW pool \in SUBSET Pooled, Send(new, pool)
  PROVE  slot' \in Jobs /\ free' \subseteq Pooled
<1>merged. Merged(new, slot) \in Jobs
  BY DEF Merged, Job, Jobs
<1>recycled. Recycled(pool, slot) \subseteq Pooled
  BY RecycledOK DEF Jobs
<1> QED
  BY <1>merged, <1>recycled DEF Send

\* What an encoder becomes.
LEMMA EncodingShape ==
  ASSUME NEW h, h.img \in Images \cup {"none"}, h.pic \in Blank..MaxPicture,
         h.mode \in Modes \cup {"none"},
         NEW at \in {"off", "wait", "deliver", "ended"}, NEW k \in BOOLEAN
  PROVE  /\ Encoding(h, at, k) \in Encoders /\ Encoding(h, at, k).img = h.img
         /\ Encoding(h, at, k).at = at
  BY DEF Encoding, Encoders

LEMMA IdleShape ==
  /\ Idle \in Encoders
  /\ \A at \in {"wait", "ended"} :
       LET e == [Idle EXCEPT !.at = at]
       IN  e \in Encoders /\ e.img = "none" /\ e.at = at
<1>idle. Idle \in Encoders /\ Idle.img = "none"
  BY ScreenAssumption DEF Idle, Encoding, NoImage, Encoders, Blank
<1> QED
  BY ONLY <1>idle DEF Encoders

LEMMA ImagesStep == ASSUME TypeOK, [Next]_vars PROVE ImagesOK'
<1>now. ImagesOK
  BY DEF TypeOK, ImagesOK
<1>tick. CASE Tick
  <2>quiet. TickPauses \/ TickFails => UNCHANGED <<slot, free>>
    BY DEF TickPauses, TickFails
  <2>sends. ASSUME NEW word, TickSends(word) PROVE slot' \in Jobs /\ free' \subseteq Pooled
    <3>send. ASSUME NEW new \in Jobs, NEW pool \in SUBSET free, Send(new, pool)
             PROVE  slot' \in Jobs /\ free' \subseteq Pooled
      BY <3>send, <1>now, SendOK DEF ImagesOK
    <3> QED
      BY <2>sends, <3>send, <1>now, TickShape DEF ImagesOK
  <2> QED
    BY <1>tick, <1>now, <2>quiet, <2>sends DEF Tick, ImagesOK
<1>encodes. CASE Encode
  <2>pool. free' \subseteq Pooled
    <3>ways. free' \in {free, Recycled(free, encoder)}
      BY <1>encodes DEF Encode
    <3>whose. encoder.img \in Images \cup {"none"} /\ encoder.mode \in Modes \cup {"none"}
      BY <1>now DEF ImagesOK, Encoders
    <3> QED
      BY <1>now, <3>ways, <3>whose, RecycledOK DEF ImagesOK
  <2>pick. PICK k \in BOOLEAN :
             LET img == IF slot.img = "none" THEN encoder ELSE slot
             IN  encoder' = IF img.img = "none" THEN encoder ELSE Encoding(img, "deliver", k)
    BY <1>encodes DEF Encode
  <2>jobs. Encoding(slot, "deliver", k) \in Encoders
    BY <1>now, EncodingShape DEF ImagesOK, Jobs
  <2>same. Encoding(encoder, "deliver", k) \in Encoders
    BY <1>now, EncodingShape DEF ImagesOK, Encoders
  <2>empty. slot' \in Jobs
    BY <1>encodes, NoJobShape DEF Encode
  <2> QED
    BY <1>now, <2>pool, <2>pick, <2>jobs, <2>same, <2>empty DEF ImagesOK
<1>dies. CASE EncoderEnds
  BY <1>dies, <1>now, IdleShape DEF EncoderEnds, ImagesOK
<1>starts. CASE StreamStarts
  BY <1>starts, <1>now, IdleShape, NoJobShape DEF StreamStarts, Started, ImagesOK
<1>pumps. CASE Pump \/ PumpFails
  <2>waits. encoder' = [encoder EXCEPT !.at = "wait", !.key = FALSE] /\ UNCHANGED <<slot, free>>
    BY <1>pumps DEF Pump, PumpFails
  <2>typed. encoder' \in Encoders
    BY <1>now, <2>waits DEF ImagesOK, Encoders
  <2> QED
    BY <1>now, <2>waits, <2>typed DEF ImagesOK
<1>others. CASE \/ Reopen \/ CaptureEnds \/ FramesEnd \/ BackoffElapses \/ SessionEnds
                \/ PictureLost \/ Elsewhere \/ UNCHANGED vars
  <2> UNCHANGED <<slot, free, encoder>>
    BY <1>others DEF Reopen, CaptureEnds, FramesEnd, BackoffElapses, SessionEnds, PictureLost,
         Elsewhere, vars
  <2> QED
    BY <1>now DEF ImagesOK
<1> QED
  BY <1>tick, <1>encodes, <1>dies, <1>starts, <1>pumps, <1>others
     DEF Next, CaptureStops, CaptureBreaks, EncoderStops, EncoderBreaks, Streaming

\* pipeline.go: jobs, images and encoders have their form, whatever the source
\* brings and whichever goroutine ends first.
THEOREM TypeCorrect == Spec => []TypeOK
<1>starts. Init => TypeOK
  <2> SUFFICES ASSUME Init PROVE TypeOK
    OBVIOUS
  <2>screen. ScreenTypeOK
    <3>mode. (CHOOSE m \in Modes : TRUE) \in Modes
      BY ScreenAssumption
    <3>pictures. MaxUpsets \in 0..MaxUpsets /\ NoFrame \in Frames
      BY ScreenAssumption DEF NoFrame, Frames, Blank
    <3>one. 1 \in 1..MaxPicture
      BY ScreenAssumption
    <3> QED
      BY <3>mode, <3>pictures, <3>one DEF Init, ScreenInit, ScreenTypeOK
  <2>images. slot \in Jobs /\ free \subseteq Pooled /\ encoder \in Encoders
    BY NoJobShape, IdleShape DEF Init
  <2> QED
    BY <2>screen, <2>images DEF Init, TypeOK
<1>keeps. TypeOK /\ [Next]_vars => TypeOK'
  <2> SUFFICES ASSUME TypeOK, [Next]_vars PROVE TypeOK'
    OBVIOUS
  <2>screen. ScreenTypeOK'
    BY ScreenStep DEF TypeOK
  <2>flags. FlagsOK'
    BY <2>screen, FlagsStep DEF TypeOK, FlagsOK, ScreenTypeOK
  <2>images. ImagesOK'
    BY ImagesStep
  <2> QED
    BY <2>screen, <2>flags, <2>images DEF TypeOK, FlagsOK, ImagesOK
<1> QED
  BY <1>starts, <1>keeps, PTL DEF Spec

-----------------------------------------------------------------------------
\* The order for a new encoder is with the job that waits, and that job has an image.
CurrentInv ==
  /\ EncoderIsCurrent
  /\ slot.restart => slot.img # "none"

LEMMA CurrentStep == ASSUME TypeOK, CurrentInv, [Next]_vars PROVE CurrentInv'
<1>typed. slot \in Jobs /\ encoder \in Encoders /\ owed \in BOOLEAN
  BY DEF TypeOK
<1>tick. CASE Tick
  <2>encoder. UNCHANGED encoder
    BY <1>tick DEF Tick
  <2>quiet. CASE TickPauses \/ TickFails
    BY <2>quiet, <2>encoder DEF TickPauses, TickFails, CurrentInv, EncoderIsCurrent
  <2>sends. ASSUME NEW word \in {"changed", "same"}, TickSends(word) PROVE CurrentInv'
    <3>send. ASSUME NEW new \in Jobs, NEW pool \in SUBSET free, Send(new, pool),
                    owed' = (owed \/ new.restart), new.restart => new.img # "none"
             PROVE  CurrentInv'
      <4>slot. /\ slot'.restart = (new.restart \/ slot.restart)
               /\ slot'.restart => slot'.img # "none"
        BY <3>send, <1>typed, NoJobShape DEF Send, Merged, Job, CurrentInv, Jobs
      <4> QED
        BY <3>send, <4>slot, <1>typed, <2>encoder DEF CurrentInv, EncoderIsCurrent, Jobs
    <3>image. \A new \in Jobs, pool \in SUBSET free :
                \/ new.img = "none" /\ ~new.restart /\ pool = free
                \/ <<new.img, pool>> \in Takeable(frame'.mode)
                => (new.restart => new.img # "none")
      <4> SUFFICES ASSUME NEW new \in Jobs, NEW pool \in SUBSET free,
                          <<new.img, pool>> \in Takeable(frame'.mode)
                   PROVE  new.img # "none"
        OBVIOUS
      <4>taken. new.img \in Images
        BY TakeableShape DEF TypeOK, Pooled
      <4> QED
        BY <4>taken, CaptureAssumption
    <3>still. CASE UNCHANGED <<slot, free, owed>>
      BY <3>still, <2>encoder DEF CurrentInv, EncoderIsCurrent
    <3> QED
      BY <2>sends, <3>send, <3>image, <3>still, TickShape
  <2> QED
    BY <1>tick, <2>quiet, <2>sends DEF Tick
<1>encodes. CASE Encode
  <2>pick. PICK k \in BOOLEAN :
             LET img == IF slot.img = "none" THEN encoder ELSE slot
             IN  encoder' = IF img.img = "none" THEN encoder ELSE Encoding(img, "deliver", k)
    BY <1>encodes DEF Encode
  <2>at. encoder.at = "wait" /\ encoder'.at \in {"wait", "deliver"}
    BY <1>encodes, <2>pick DEF Encode, Encoding
  <2>paid. owed => ~owed'
    <3> SUFFICES ASSUME owed PROVE ~owed'
      OBVIOUS
    <3>ordered. slot.restart /\ slot.img # "none"
      BY <2>at DEF CurrentInv, EncoderIsCurrent
    <3> QED
      BY <1>encodes, <3>ordered DEF Encode
  <2>none. ~owed'
    <3> CASE owed
      BY <2>paid
    <3> CASE ~owed
      BY <1>encodes DEF Encode
    <3> QED
      OBVIOUS
  <2>empty. slot' = NoJob
    BY <1>encodes DEF Encode
  <2> QED
    BY <2>at, <2>none, <2>empty, NoJobShape DEF CurrentInv, EncoderIsCurrent
<1>dies. CASE EncoderEnds
  BY <1>dies, IdleShape DEF EncoderEnds, CurrentInv, EncoderIsCurrent
<1>starts. CASE StreamStarts
  <2>ways. \/ UNCHANGED <<slot, encoder, owed>>
           \/ slot' = NoJob /\ encoder' = [Idle EXCEPT !.at = "wait"] /\ owed' = FALSE
    BY <1>starts DEF StreamStarts, Started
  <2> QED
    BY <2>ways, IdleShape, NoJobShape DEF CurrentInv, EncoderIsCurrent
<1>pumps. CASE Pump \/ PumpFails
  <2>waits. /\ encoder' = [encoder EXCEPT !.at = "wait", !.key = FALSE] /\ encoder.at = "deliver"
            /\ UNCHANGED <<slot, owed>>
    BY <1>pumps DEF Pump, PumpFails
  <2>at. encoder'.at = "wait"
    BY <2>waits, <1>typed DEF Encoders
  <2> QED
    BY <2>waits, <2>at DEF CurrentInv, EncoderIsCurrent
<1>others. CASE \/ Reopen \/ CaptureEnds \/ FramesEnd \/ BackoffElapses \/ SessionEnds
                \/ PictureLost \/ Elsewhere \/ UNCHANGED vars
  <2> UNCHANGED <<slot, encoder, owed>>
    BY <1>others DEF Reopen, CaptureEnds, FramesEnd, BackoffElapses, SessionEnds, PictureLost,
         Elsewhere, vars
  <2> QED
    BY DEF CurrentInv, EncoderIsCurrent
<1> QED
  BY <1>tick, <1>encodes, <1>dies, <1>starts, <1>pumps, <1>others
     DEF Next, CaptureStops, CaptureBreaks, EncoderStops, EncoderBreaks, Streaming

\* job.restart: a frame from after a pause or of another size is never made by the
\* encoder from before it, however many ticks are merged in between.
THEOREM EncoderStaysCurrent == Spec => []EncoderIsCurrent
<1>starts. Init => CurrentInv
  BY NoJobShape DEF Init, CurrentInv, EncoderIsCurrent
<1>keeps. TypeOK /\ CurrentInv /\ [Next]_vars => CurrentInv'
  BY CurrentStep
<1>shows. CurrentInv => EncoderIsCurrent
  BY DEF CurrentInv
<1> QED
  BY <1>starts, <1>keeps, <1>shows, TypeCorrect, PTL DEF Spec

-----------------------------------------------------------------------------
\* The images there are, by who has them: no two holders, and three at most.
PoolInv ==
  /\ slot.img = encoder.img => slot.img = "none"
  /\ Free \cap Held = {}
  /\ \A f, g \in free : f.img = g.img => f = g
  /\ \E i, j, k \in Images \cup {"none"} : Free \cup Held \subseteq {i, j, k}

LEMMA ThreeAtMost ==
  ASSUME NEW i, NEW j, NEW k, NEW S \in SUBSET {i, j, k}
  PROVE  IsFiniteSet(S) /\ Cardinality(S) <= 3
<1>grows. ASSUME NEW T, NEW x, IsFiniteSet(T)
          PROVE  /\ IsFiniteSet(T \cup {x}) /\ Cardinality(T) \in Nat
                 /\ Cardinality(T \cup {x}) <= Cardinality(T) + 1
  <2>type. Cardinality(T) \in Nat
    BY <1>grows, FS_CardinalityType
  <2>add. /\ IsFiniteSet(T \cup {x})
          /\ Cardinality(T \cup {x}) = IF x \in T THEN Cardinality(T) ELSE Cardinality(T) + 1
    BY <1>grows, FS_AddElement
  <2> QED
    BY <2>type, <2>add
<1> DEFINE A == {} \cup {i}
           B == A \cup {j}
           C == B \cup {k}
<1>one. IsFiniteSet(A) /\ Cardinality(A) <= 1
  <2>set. A = {i}
    OBVIOUS
  <2>one. IsFiniteSet({i}) /\ Cardinality({i}) = 1
    BY FS_Singleton, Zenon
  <2> QED
    BY <2>set, <2>one
<1>all. {i, j, k} = C
  OBVIOUS
<1> HIDE DEF A
<1>two. IsFiniteSet(B) /\ Cardinality(A) \in Nat /\ Cardinality(B) <= Cardinality(A) + 1
  BY <1>one, <1>grows
<1> HIDE DEF B
<1>last. IsFiniteSet(C) /\ Cardinality(B) \in Nat /\ Cardinality(C) <= Cardinality(B) + 1
  BY <1>two, <1>grows
<1>type. Cardinality(C) \in Nat
  BY <1>last, FS_CardinalityType
<1>three. IsFiniteSet({i, j, k}) /\ Cardinality({i, j, k}) <= 3
  BY <1>one, <1>two, <1>last, <1>type, <1>all
<1>part. IsFiniteSet(S) /\ Cardinality(S) <= Cardinality({i, j, k})
  BY <1>three, FS_Subset
<1> QED
  BY <1>three, <1>part, FS_CardinalityType

LEMMA FreeIsNotHeld ==
  ASSUME TypeOK, PoolInv, NEW f \in free
  PROVE  f.img # slot.img /\ f.img # encoder.img
<1>image. f.img \in Images /\ f.img # "none"
  BY CaptureAssumption DEF TypeOK, Pooled
<1>free. f.img \in Free
  BY DEF Free
<1>held. f.img \notin Held
  BY <1>free DEF PoolInv
<1> QED
  BY <1>image, <1>held DEF Held

\* An image is taken that nobody has, and the one it replaces goes back.
LEMMA SendPool ==
  ASSUME TypeOK, PoolInv, UNCHANGED encoder,
         NEW new \in Jobs, NEW pool \in SUBSET free, Send(new, pool),
         \/ new.img = "none" /\ pool = free
         \/ <<new.img, pool>> \in Takeable(frame'.mode)
  PROVE  PoolInv'
<1>typed. slot \in Jobs /\ encoder \in Encoders /\ free \subseteq Pooled
  BY DEF TypeOK
<1>repeat. CASE new.img = "none" /\ pool = free
  <2>slot. slot'.img = slot.img /\ free' = free
    BY <1>repeat, <1>typed, NoJobShape DEF Send, Merged, Job
  <2> QED
    BY <2>slot DEF PoolInv, Free, Held
<1>image. CASE <<new.img, pool>> \in Takeable(frame'.mode)
  <2>taken. \/ \E f \in free : new.img = f.img /\ f \notin pool
            \/ new.img \in Images \ Held /\ pool = {}
    BY <1>image, TakeableShape
  <2>image. new.img \in Images
    BY <2>taken, <1>typed DEF Pooled
  <2>real. new.img \in Images /\ new.img # "none" /\ new.img \notin Held
    BY <2>taken, <2>image, FreeIsNotHeld, CaptureAssumption DEF Held
  <2>out. \A f \in pool : f.img # new.img
    BY <2>taken DEF PoolInv
  <2>slot. slot'.img = new.img
    BY <2>real, <1>typed DEF Send, Merged, Job
  <2>back. \/ free' = pool
           \/ slot.img # "none" /\ free' = pool \cup {[img |-> slot.img, mode |-> slot.mode]}
    BY <2>real, RecycledShape DEF Send
  <2>others. \A f \in pool : f.img # slot.img /\ f.img # encoder.img
    BY FreeIsNotHeld
  <2>exclusive. slot'.img # encoder'.img
    BY <2>slot, <2>real DEF Held
  <2>apart. Free' \cap Held' = {}
    BY <2>slot, <2>real, <2>back, <2>out, <2>others DEF PoolInv, Free, Held
  <2>unique. \A f, g \in free' : f.img = g.img => f = g
    BY <2>back, <2>others DEF PoolInv
  <2>three. \E i, j, k \in Images \cup {"none"} : Free' \cup Held' \subseteq {i, j, k}
    <3>old. CASE \E f \in free : new.img = f.img /\ f \notin pool
      <4>within. Free' \cup Held' \subseteq Free \cup Held
        BY <3>old, <2>back, <2>slot DEF Free, Held
      <4> QED
        BY <4>within DEF PoolInv
    <3>made. CASE pool = {}
      <4>within. Free' \cup Held' \subseteq {new.img, slot.img, encoder.img}
        BY <3>made, <2>back, <2>slot DEF Free, Held
      <4> QED
        BY <4>within, <1>typed DEF Jobs, Encoders
    <3> QED
      BY <2>taken, <3>old, <3>made
  <2> QED
    BY <2>exclusive, <2>apart, <2>unique, <2>three, <2>real, <2>slot DEF PoolInv
<1> QED
  BY <1>repeat, <1>image

\* What the pool is about has not changed.
LEMMA PoolStays ==
  ASSUME PoolInv, UNCHANGED free, slot'.img = slot.img, encoder'.img \in {encoder.img, "none"}
  PROVE  PoolInv'
<1>fewer. Free' = Free /\ Held' \subseteq Held
  BY DEF Free, Held
<1>apart. slot'.img = encoder'.img => slot'.img = "none"
  BY DEF PoolInv
<1> QED
  BY <1>fewer, <1>apart DEF PoolInv

LEMMA EncodePool == ASSUME TypeOK, PoolInv, Encode PROVE PoolInv'
<1>typed. slot \in Jobs /\ encoder \in Encoders /\ free \subseteq Pooled
  BY DEF TypeOK
<1>pick. PICK k \in BOOLEAN :
           LET img == IF slot.img = "none" THEN encoder ELSE slot
           IN  encoder' = IF img.img = "none" THEN encoder ELSE Encoding(img, "deliver", k)
  BY DEF Encode
<1>empty. slot'.img = "none"
  BY NoJobShape DEF Encode
<1>repeat. CASE slot.img = "none"
  <2>same. encoder'.img = encoder.img /\ UNCHANGED free
    BY <1>repeat, <1>pick DEF Encode, Encoding
  <2> QED
    BY <1>repeat, <1>empty, <2>same, PoolStays
<1>image. CASE slot.img # "none"
  <2>moves. encoder'.img = slot.img
    BY <1>image, <1>pick DEF Encoding
  <2>back. \/ free' = free
           \/ /\ encoder.img # "none"
              /\ free' = free \cup {[img |-> encoder.img, mode |-> encoder.mode]}
    BY <1>image, RecycledShape DEF Encode
  <2>others. \A f \in free : f.img # slot.img /\ f.img # encoder.img
    BY <1>typed, FreeIsNotHeld
  <2>apart. Free' \cap Held' = {}
    BY <1>image, <1>empty, <2>moves, <2>back, <2>others DEF PoolInv, Free, Held
  <2>unique. \A f, g \in free' : f.img = g.img => f = g
    BY <2>back, <2>others DEF PoolInv
  <2>within. Free' \cup Held' \subseteq Free \cup Held
    BY <1>image, <1>empty, <2>moves, <2>back DEF Free, Held
  <2> QED
    BY <1>image, <1>empty, <2>moves, <2>apart, <2>unique, <2>within DEF PoolInv
<1> QED
  BY <1>repeat, <1>image

LEMMA PoolStep == ASSUME TypeOK, PoolInv, [Next]_vars PROVE PoolInv'
<1>tick. CASE Tick
  <2>encoder. UNCHANGED encoder
    BY <1>tick DEF Tick
  <2>quiet. CASE TickPauses \/ TickFails
    BY <2>quiet, <2>encoder, PoolStays DEF TickPauses, TickFails
  <2>sends. ASSUME NEW word, TickSends(word) PROVE PoolInv'
    <3>still. CASE UNCHANGED <<slot, free, owed>>
      BY <3>still, <2>encoder, PoolStays
    <3> QED
      BY <2>sends, <2>encoder, <3>still, TickShape, SendPool
  <2> QED
    BY <1>tick, <2>quiet, <2>sends DEF Tick
<1>encodes. CASE Encode
  BY <1>encodes, EncodePool
<1>dies. CASE EncoderEnds
  BY <1>dies, IdleShape, PoolStays DEF EncoderEnds
<1>starts. CASE StreamStarts
  <2>new. CASE free' = {} /\ slot' = NoJob /\ encoder' = [Idle EXCEPT !.at = "wait"]
    <3>nothing. slot'.img = "none" /\ encoder'.img = "none" /\ Free' = {} /\ Held' = {}
      BY <2>new, NoJobShape, IdleShape DEF Free, Held
    <3> QED
      BY <2>new, <3>nothing DEF PoolInv
  <2>same. CASE UNCHANGED <<slot, free, encoder>>
    BY <2>same, PoolStays
  <2> QED
    BY <1>starts, <2>new, <2>same DEF StreamStarts, Started
<1>pumps. CASE Pump \/ PumpFails
  <2>waits. encoder' = [encoder EXCEPT !.at = "wait", !.key = FALSE] /\ UNCHANGED <<slot, free>>
    BY <1>pumps DEF Pump, PumpFails
  <2>same. encoder'.img = encoder.img
    BY <2>waits DEF TypeOK, Encoders
  <2> QED
    BY <2>waits, <2>same, PoolStays
<1>others. CASE \/ Reopen \/ CaptureEnds \/ FramesEnd \/ BackoffElapses \/ SessionEnds
                \/ PictureLost \/ Elsewhere \/ UNCHANGED vars
  <2> UNCHANGED <<slot, free, encoder>>
    BY <1>others DEF Reopen, CaptureEnds, FramesEnd, BackoffElapses, SessionEnds, PictureLost,
         Elsewhere, vars
  <2> QED
    BY PoolStays
<1> QED
  BY <1>tick, <1>encodes, <1>dies, <1>starts, <1>pumps, <1>others
     DEF Next, CaptureStops, CaptureBreaks, EncoderStops, EncoderBreaks, Streaming

\* takeImage, send, recycle: the picture being encoded is never the one being
\* written, and the pool does not grow.
THEOREM ImagesHaveOneHolder == Spec => []ImagesExclusive
<1>starts. Init => PoolInv
  <2> SUFFICES ASSUME Init PROVE PoolInv
    OBVIOUS
  <2>nothing. slot.img = "none" /\ encoder.img = "none" /\ free = {}
    BY NoJobShape, IdleShape DEF Init
  <2>sets. Free = {} /\ Held = {}
    BY <2>nothing DEF Free, Held
  <2> QED
    BY <2>nothing, <2>sets DEF PoolInv
<1>keeps. TypeOK /\ PoolInv /\ [Next]_vars => PoolInv'
  BY PoolStep
<1>shows. PoolInv => ImagesExclusive
  BY ThreeAtMost DEF PoolInv, ImagesExclusive
<1> QED
  BY <1>starts, <1>keeps, <1>shows, TypeCorrect, PTL DEF Spec

-----------------------------------------------------------------------------
\* The goroutines of a capture nobody reads.

\* The capture of a session that reads no frames has been told to stop, or is over.
StrayCaptureStops == stream # "pump" => stopped \/ capture \in {"off", "ended"}

\* An encoder that has ended has ended the context it shares with the capture.
StrayInv == StrayCaptureStops /\ (encoder.at = "ended" => stopped)

LEMMA StrayStep == ASSUME TypeOK, StrayInv, [Next]_vars PROVE StrayInv'
<1> USE DEF StrayInv, StrayCaptureStops
<1>typed. encoder \in Encoders
  BY DEF TypeOK
<1>tick. CASE Tick \/ Reopen \/ CaptureEnds
  BY <1>tick DEF Tick, TickPauses, TickFails, TickSends, Reopen, CaptureEnds, streamVars
<1>encodes. CASE Encode
  <2>at. encoder'.at # "ended"
    BY <1>encodes DEF Encode, Encoding
  <2>same. UNCHANGED <<stream, stopped, capture>>
    BY <1>encodes DEF Encode, captureVars, streamVars
  <2> QED
    BY <2>at, <2>same
<1>dies. CASE EncoderEnds
  BY <1>dies DEF EncoderEnds
<1>starts. CASE StreamStarts
  <2>failed. CASE UNCHANGED <<capture, encoder, stopped>> /\ stream # "pump"
    BY <2>failed
  <2>opened. CASE stream' = "pump" /\ encoder' = [Idle EXCEPT !.at = "wait"]
    BY <2>opened, IdleShape
  <2> QED
    BY <1>starts, <2>failed, <2>opened DEF StreamStarts, Started, captureVars
<1>pumps. CASE Pump \/ PumpFails
  <2>at. encoder' = [encoder EXCEPT !.at = "wait", !.key = FALSE]
    BY <1>pumps DEF Pump, PumpFails
  <2>waits. encoder'.at = "wait"
    BY <2>at, <1>typed DEF Encoders
  <2>same. UNCHANGED <<stream, stopped, capture>> \/ stopped'
    BY <1>pumps DEF Pump, PumpFails, captureVars, streamVars
  <2> QED
    BY <2>waits, <2>same
<1>others. CASE \/ FramesEnd \/ BackoffElapses \/ SessionEnds \/ PictureLost \/ Elsewhere
                \/ UNCHANGED vars
  BY <1>others DEF FramesEnd, BackoffElapses, SessionEnds, PictureLost, Elsewhere, captureVars,
                   streamVars, vars
<1> QED
  BY <1>tick, <1>encodes, <1>dies, <1>starts, <1>pumps, <1>others
     DEF Next, CaptureStops, CaptureBreaks, EncoderStops, EncoderBreaks, Streaming

\* streamScreen: no capture is left grabbing for a session that reads nothing, so that
\* UnreadCaptureEnds only needs its loop to look at its context.
THEOREM StrayCaptureIsStopped == Spec => []StrayCaptureStops
<1>starts. Init => StrayInv
  BY IdleShape DEF Init, StrayInv, StrayCaptureStops, Idle, Encoding
<1>keeps. TypeOK /\ StrayInv /\ [Next]_vars => StrayInv'
  BY StrayStep
<1>shows. StrayInv => StrayCaptureStops
  BY DEF StrayInv
<1> QED
  BY <1>starts, <1>keeps, <1>shows, TypeCorrect, PTL DEF Spec

-----------------------------------------------------------------------------
\* A lost picture is on its way to a keyframe.

\* The request is still pending, or with the job that waits, or its keyframe is at the
\* encoder; or a restart stands for it: one that is ordered, a capture that has sent
\* nothing yet, or an encoder that has ended, after which there is another capture.
Repairing ==
  \/ want \/ slot.keyframe \/ slot.restart
  \/ encoder.at = "deliver" /\ encoder.key
  \/ conv = "none" \/ encoder.at = "ended"

LossIsOwed == ~whole /\ stream = "pump" => Repairing

\* A capture that has sent a job has an image to encode, so the encoder skips none of them.
RepairInv ==
  /\ LossIsOwed
  /\ frame.mode = "none" => frame = NoFrame
  /\ slot # NoJob => conv # "none"
  /\ conv # "none" /\ encoder.at # "ended" => slot.img # "none" \/ encoder.img # "none"

LEMMA FrameStep ==
  ASSUME TypeOK, frame.mode = "none" => frame = NoFrame, NEW word, Promise(word)
  PROVE  /\ frame'.mode = "none" => frame' = NoFrame
         /\ word \in {"changed", "same"} => frame'.mode # "none"
<1>mode. screen.mode # "none"
  BY ScreenAssumption DEF TypeOK, ScreenTypeOK
<1>empty. Empty(screen.mode).mode = screen.mode /\ Shot.mode = screen.mode
  BY DEF Empty, Shot
<1> QED
  BY <1>mode, <1>empty DEF Promise

\* A request is taken by a job with a keyframe, or by one that restarts the encoder.
LEMMA RequestShape ==
  ASSUME TypeOK, NEW word, TickSends(word)
  PROVE  \E force \in BOOLEAN, fresh \in BOOLEAN :
           /\ conv' = frame'.mode /\ want' = (want /\ ~fresh /\ ~force)
           /\ conv # frame'.mode => fresh
           /\ \/ UNCHANGED slot /\ ~fresh /\ ~force
              \/ \E new \in Jobs, pool \in SUBSET free :
                   /\ Send(new, pool) /\ new.restart = fresh /\ new.keyframe = force
                   /\ fresh => new.img # "none"
<1>pick. PICK force \in {FALSE, want}, make \in {"image", "repeat", "nothing"} :
           LET f == frame'
               fresh == NeedsEncoder(f)
           IN  /\ conv' = f.mode /\ want' = (want /\ ~fresh /\ ~force)
               /\ fresh => make = "image"
               /\ force => make # "nothing"
               /\ CASE make = "image" ->
                        \E t \in Takeable(f.mode) :
                           Send(Job([img |-> t[1], pic |-> f.pic, mode |-> f.mode], fresh, force), t[2])
                    [] make = "repeat" -> Send(Job(NoImage, fresh, force), free)
                    [] make = "nothing" -> UNCHANGED <<slot, free>>
  BY DEF TickSends
<1>flags. NeedsEncoder(frame') \in BOOLEAN /\ force \in BOOLEAN
  BY DEF NeedsEncoder, Resized, TypeOK
<1>resized. conv # frame'.mode => NeedsEncoder(frame')
  BY DEF NeedsEncoder, Resized
<1>sent. \/ UNCHANGED slot /\ ~NeedsEncoder(frame') /\ ~force
         \/ \E new \in Jobs, pool \in SUBSET free :
              /\ Send(new, pool) /\ new.restart = NeedsEncoder(frame') /\ new.keyframe = force
              /\ NeedsEncoder(frame') => new.img # "none"
  <2>image. CASE make = "image"
    <3>take. PICK t \in Takeable(frame'.mode) :
               Send(Job([img |-> t[1], pic |-> frame'.pic, mode |-> frame'.mode],
                        NeedsEncoder(frame'), force), t[2])
      BY <1>pick, <2>image
    <3> DEFINE h == [img |-> t[1], pic |-> frame'.pic, mode |-> frame'.mode]
               new == Job(h, NeedsEncoder(frame'), force)
    <3>frame. frame' \in Frames
      <4> Promise(word)
        BY DEF TickSends
      <4> QED
        BY PromiseShape DEF TypeOK
    <3>img. t[1] \in Images /\ t[2] \in SUBSET free
      BY <3>take, TakeableShape DEF TypeOK, Pooled
    <3>holds. h.img = t[1] /\ h.img \in Images \cup {"none"} /\ h.pic \in Blank..MaxPicture
              /\ h.mode \in Modes \cup {"none"}
      BY <3>img, <3>frame DEF Frames
    <3>job. new \in Jobs /\ new.img = t[1] /\ new.restart = NeedsEncoder(frame')
      <4> HIDE DEF h
      <4> QED
        BY <3>holds, <1>flags, JobShape
    <3>key. new.keyframe = force
      BY DEF Job
    <3>some. new.img # "none"
      BY <3>job, <3>img, CaptureAssumption
    <3> QED
      BY <3>take, <3>img, <3>job, <3>key, <3>some
  <2>repeat. CASE make = "repeat"
    <3>calm. ~NeedsEncoder(frame')
      BY <1>pick, <2>repeat
    <3>job. /\ Job(NoImage, FALSE, force) \in Jobs
            /\ Job(NoImage, FALSE, force).restart = FALSE
            /\ Job(NoImage, FALSE, force).keyframe = force
      BY <1>flags, ScreenAssumption DEF Job, Jobs, NoImage, Blank
    <3>sent. Send(Job(NoImage, FALSE, force), free)
      BY <1>pick, <2>repeat, <3>calm, <1>flags
    <3>plain. NeedsEncoder(frame') = FALSE /\ free \in SUBSET free
      BY <3>calm, <1>flags
    <3> QED
      BY <3>plain, <3>job, <3>sent
  <2>nothing. CASE make = "nothing"
    BY <1>pick, <2>nothing
  <2> QED
    BY <1>pick, <2>image, <2>repeat, <2>nothing
<1> QED
  BY <1>pick, <1>flags, <1>resized, <1>sent

\* A merged job stands for both.
LEMMA SendShape ==
  ASSUME slot \in Jobs, NEW new \in Jobs, NEW pool, Send(new, pool)
  PROVE  /\ slot'.restart = (new.restart \/ slot.restart)
         /\ slot'.keyframe = (new.keyframe \/ slot.keyframe)
         /\ new.img # "none" \/ slot.img # "none" => slot'.img # "none"
<1>none. NoJob.restart = FALSE /\ NoJob.keyframe = FALSE /\ NoJob.img = "none"
  BY DEF NoJob, Job, NoImage
<1> QED
  BY <1>none DEF Send, Merged, Job, Jobs

LEMMA RepairStep == ASSUME TypeOK, RepairInv, [Next]_vars PROVE RepairInv'
<1>typed. /\ slot \in Jobs /\ encoder \in Encoders
          /\ {want, whole} \subseteq BOOLEAN
  BY DEF TypeOK
<1>frame. \A word : Promise(word) => (frame'.mode = "none" => frame' = NoFrame)
  BY FrameStep DEF RepairInv
<1>tick. CASE Tick
  <2>same. UNCHANGED <<encoder, stream, whole>>
    BY <1>tick DEF Tick, streamVars
  <2>quiet. CASE TickPauses \/ TickFails
    <3> UNCHANGED <<conv, slot, want>>
      BY <2>quiet DEF TickPauses, TickFails
    <3>kept. frame'.mode = "none" => frame' = NoFrame
      BY <1>frame, <2>quiet DEF TickPauses, TickFails
    <3> QED
      BY <2>same, <3>kept DEF RepairInv, LossIsOwed, Repairing
  <2>sends. ASSUME NEW word \in {"changed", "same"}, TickSends(word) PROVE RepairInv'
    <3>kept. (frame'.mode = "none" => frame' = NoFrame) /\ frame'.mode # "none"
      <4> Promise(word)
        BY <2>sends DEF TickSends
      <4> QED
        BY FrameStep DEF RepairInv
    <3>pick. PICK force \in BOOLEAN, fresh \in BOOLEAN :
               /\ conv' = frame'.mode /\ want' = (want /\ ~fresh /\ ~force)
               /\ conv # frame'.mode => fresh
               /\ \/ UNCHANGED slot /\ ~fresh /\ ~force
                  \/ \E new \in Jobs, pool \in SUBSET free :
                       /\ Send(new, pool) /\ new.restart = fresh /\ new.keyframe = force
                       /\ fresh => new.img # "none"
      BY <2>sends, RequestShape
    <3>slot. /\ slot'.restart = (fresh \/ slot.restart)
             /\ slot'.keyframe = (force \/ slot.keyframe)
             /\ fresh \/ slot.img # "none" => slot'.img # "none"
      BY <3>pick, <1>typed, SendShape DEF Jobs
    <3>new. conv = "none" => fresh
      BY <3>pick, <3>kept
    <3>owed. LossIsOwed'
      BY <3>pick, <3>slot, <3>new, <2>same, <1>typed DEF RepairInv, LossIsOwed, Repairing
    <3>image. slot'.img # "none" \/ encoder'.img # "none" \/ encoder'.at = "ended"
      BY <3>slot, <3>new, <2>same DEF RepairInv
    <3> QED
      BY <3>kept, <3>pick, <3>owed, <3>image DEF RepairInv
  <2> QED
    BY <1>tick, <2>quiet, <2>sends DEF Tick
<1>reopens. CASE Reopen \/ CaptureEnds
  <2>same. UNCHANGED <<conv, slot, encoder, want, stream, whole>>
    BY <1>reopens DEF Reopen, CaptureEnds, streamVars
  <2>kept. frame'.mode = "none" => frame' = NoFrame
    BY <1>frame, <1>reopens DEF Reopen, CaptureEnds
  <2> QED
    BY <2>same, <2>kept DEF RepairInv, LossIsOwed, Repairing
<1>encodes. CASE Encode
  <2>same. UNCHANGED <<frame, conv, want, stream, whole>> /\ slot' = NoJob
    BY <1>encodes DEF Encode, screenVars, captureVars, streamVars
  <2> DEFINE img == IF slot.img = "none" THEN encoder ELSE slot
  <2>some. encoder.at = "wait" /\ img.img # "none"
    BY <1>encodes DEF Encode, RepairInv
  <2>pick. PICK k \in BOOLEAN : /\ slot.restart \/ slot.keyframe => k
                                /\ encoder' = Encoding(img, "deliver", k)
    BY <1>encodes, <2>some DEF Encode
  <2>becomes. encoder'.at = "deliver" /\ encoder'.img # "none" /\ encoder'.key = k
    BY <2>pick, <2>some DEF Encoding
  <2> QED
    BY <2>same, <2>some, <2>pick, <2>becomes DEF RepairInv, LossIsOwed, Repairing
<1>dies. CASE EncoderEnds
  <2>same. UNCHANGED <<frame, conv, slot>> /\ encoder'.at = "ended"
    BY <1>dies, IdleShape DEF EncoderEnds, captureVars
  <2> QED
    BY <2>same DEF RepairInv, LossIsOwed, Repairing
<1>starts. CASE StreamStarts
  <2>kept. frame'.mode = "none" => frame' = NoFrame
    BY <1>frame, <1>starts DEF StreamStarts
  <2>failed. CASE UNCHANGED <<conv, slot, encoder>> /\ stream' # "pump"
    BY <2>failed, <2>kept DEF RepairInv, LossIsOwed
  <2>opened. CASE conv' = "none" /\ slot' = NoJob
    BY <2>opened, <2>kept DEF RepairInv, LossIsOwed, Repairing
  <2> QED
    BY <1>starts, <2>failed, <2>opened DEF StreamStarts, Started, captureVars
<1>pumps. CASE Pump \/ PumpFails
  <2>same. UNCHANGED <<frame, conv, slot, want>>
    BY <1>pumps DEF Pump, PumpFails, screenVars, captureVars
  <2>sent. /\ encoder.at = "deliver" /\ encoder' = [encoder EXCEPT !.at = "wait", !.key = FALSE]
           /\ \/ whole' = (whole \/ encoder.key) /\ UNCHANGED stream
              \/ stream' = "off"
    BY <1>pumps DEF Pump, PumpFails, streamVars
  <2>becomes. encoder'.at = "wait" /\ encoder'.img = encoder.img
    BY <2>sent, <1>typed DEF Encoders
  <2> QED
    BY <2>same, <2>sent, <2>becomes DEF RepairInv, LossIsOwed, Repairing
<1>others. CASE \/ FramesEnd \/ BackoffElapses \/ SessionEnds \/ PictureLost \/ Elsewhere
                \/ UNCHANGED vars
  <2>same. UNCHANGED <<frame, conv, slot, encoder>>
    BY <1>others DEF FramesEnd, BackoffElapses, SessionEnds, PictureLost, Elsewhere, Desk,
                     DesktopChanges, Lock, Unlock, ModeChanges, screenVars, captureVars, vars
  <2>asked. \/ stream' # "pump"
            \/ want'
            \/ UNCHANGED <<want, stream, whole>>
    BY <1>others DEF FramesEnd, BackoffElapses, SessionEnds, PictureLost, Elsewhere, streamVars,
                     vars
  <2> QED
    BY <2>same, <2>asked DEF RepairInv, LossIsOwed, Repairing
<1> QED
  BY <1>tick, <1>reopens, <1>encodes, <1>dies, <1>starts, <1>pumps, <1>others
     DEF Next, CaptureStops, CaptureBreaks, EncoderStops, EncoderBreaks, Streaming

\* KeyframeRequest: a reported loss is never forgotten, neither by the rate limit, nor when
\* a waiting job is replaced or skipped, nor with a capture that ends: until the viewer's
\* stream is whole again, something that brings a keyframe is pending.
THEOREM LossIsNotForgotten == Spec => []LossIsOwed
<1>starts. Init => RepairInv
  BY DEF Init, ScreenInit, RepairInv, LossIsOwed
<1>keeps. TypeOK /\ RepairInv /\ [Next]_vars => RepairInv'
  BY RepairStep
<1>shows. RepairInv => LossIsOwed
  BY DEF RepairInv
<1> QED
  BY <1>starts, <1>keeps, <1>shows, TypeCorrect, PTL DEF Spec

-----------------------------------------------------------------------------
\* An outcome of a call that keeps the promise.
Kept(o) ==
  \/ o.said = "changed" /\ screen.readable /\ o.frame = Shot
  \/ o.said = "same" /\ o.frame \in {frame, Empty(screen.mode)} /\ o.frame.mode # "none"
  \/ o.said = "same" /\ o.frame = frame /\ frame.pic # Blank
  \/ o.said = "unavailable" /\ o.frame \in {frame, Empty(screen.mode)}
  \/ o.said = "opened" /\ o.frame \in {NoFrame, Empty(screen.mode)}
  \/ o.said = "failed" /\ o.frame = NoFrame

LEMMA OutcomeShape ==
  ASSUME NEW w, NEW s, NEW f, NEW pr, NEW cost
  PROVE  Outcome(w, s, f, pr, cost).said = w /\ Outcome(w, s, f, pr, cost).frame = f
  BY DEF Outcome

LEMMA SeededKeeps ==
  ASSUME screen.readable, NEW s, NEW f \in {frame, Empty(screen.mode)}, f.mode # "none", NEW pr,
         NEW o \in Seeded(s, f, pr)
  PROVE  Kept(o)
  BY OutcomeShape DEF Seeded, Kept

\* AcquireNextFrame, into a frame of the mode there is now.
LEMMA AcquiredKeeps ==
  ASSUME screen.mode # "none", NEW s, NEW f \in {frame, Empty(screen.mode)}, NEW fresh \in BOOLEAN,
         fresh => screen.readable, NEW pr, NEW o \in Acquired(s, f, fresh, pr)
  PROVE  Kept(o)
<1> DEFINE gone == Outcome("unavailable", Lose(s), f, pr, 0)
<1>paused. ASSUME NEW t, NEW q PROVE Kept(Outcome("unavailable", t, f, q, 0))
  BY OutcomeShape DEF Kept
<1>failed. Kept(Outcome("failed", Closed, NoFrame, pr, 1))
  BY OutcomeShape DEF Kept
<1>same. ASSUME f.mode = screen.mode, NEW t, NEW q PROVE Kept(Outcome("same", t, f, q, 0))
  BY <1>same, OutcomeShape DEF Kept
<1>changed. ASSUME screen.readable, NEW t, NEW q PROVE Kept(Outcome("changed", t, Shot, q, 0))
  BY <1>changed, OutcomeShape DEF Kept
<1>ways. \/ \E t, q : o = Outcome("unavailable", t, f, q, 0)
         \/ o = Outcome("failed", Closed, NoFrame, pr, 1)
         \/ f.mode = screen.mode /\ \E t, q : o = Outcome("same", t, f, q, 0)
         \/ screen.readable /\ \E t, q : o = Outcome("changed", t, Shot, q, 0)
         \/ screen.readable /\ f.mode = screen.mode /\ o \in Seeded(s, f, pr)
  BY DEF Acquired
<1> QED
  BY <1>paused, <1>failed, <1>same, <1>changed, <1>ways, SeededKeeps

\* The same for what else a call can come to.
LEMMA OthersKeep ==
  /\ \A t, q, c : \A f \in {frame, Empty(screen.mode)} : Kept(Outcome("unavailable", t, f, q, c))
  /\ \A q, c : Kept(Outcome("failed", Closed, NoFrame, q, c))
  /\ screen.readable => \A t, q, c : Kept(Outcome("changed", t, Shot, q, c))
  /\ frame.pic # Blank => \A t, q, c : Kept(Outcome("same", t, frame, q, c))
  /\ \A t, q, c : \A f \in {NoFrame, Empty(screen.mode)} : Kept(Outcome("opened", t, f, q, c))
  BY OutcomeShape DEF Kept

LEMMA DxgiKeeps ==
  ASSUME screen.mode # "none", NEW o \in GrabDxgi(source)
  PROVE  Kept(o)
<1> DEFINE w == [source EXCEPT !.waiting = TRUE]
<1>fitted. Fitted \in {frame, Empty(screen.mode)}
  BY DEF Fitted
<1>ways. \/ o \in Acquired(source, frame, FALSE, probe)
         \/ \E t, q : o = Outcome("unavailable", t, frame, q, 0)
         \/ o = Outcome("failed", Closed, NoFrame, Answer, 1)
         \/ /\ screen.readable
            /\ \E n \in BOOLEAN :
                 o \in Acquired([w EXCEPT !.dup = TRUE, !.news = n], Fitted, TRUE, Answer)
  BY DEF GrabDxgi, Refused
<1> QED
  BY <1>fitted, <1>ways, AcquiredKeeps, OthersKeep

LEMMA GdiKeeps ==
  ASSUME NEW o \in GrabGdi(source)
  PROVE  Kept(o)
<1>fitted. Fitted \in {frame, Empty(screen.mode)}
  BY DEF Fitted
<1>ways. \/ \E t, q, c : \E f \in {frame, Fitted} : o = Outcome("unavailable", t, f, q, c)
         \/ screen.readable /\ \E t, q : o = Outcome("changed", t, Shot, q, 0)
         \/ o = Outcome("failed", Closed, NoFrame, Answer, 1)
  BY DEF GrabGdi
<1> QED
  BY <1>fitted, <1>ways, OthersKeep

LEMMA SckKeeps ==
  ASSUME NEW o \in GrabSck(source)
  PROVE  Kept(o)
<1>ways. \/ \E t, q, c : o = Outcome("unavailable", t, frame, q, c)
         \/ screen.readable /\ \E t, q : o = Outcome("changed", t, Shot, q, 0)
         \/ frame.pic # Blank /\ \E t, q : o = Outcome("same", t, frame, q, 0)
         \/ \E q, c : o = Outcome("failed", Closed, NoFrame, q, c)
  BY DEF GrabSck
<1> QED
  BY <1>ways, OthersKeep

LEMMA OpensKeep ==
  ASSUME NEW o \in Opens
  PROVE  Kept(o)
<1>empty. Empty(screen.mode) \in {NoFrame, Empty(screen.mode)} /\ NoFrame \in {NoFrame, Empty(screen.mode)}
  OBVIOUS
<1>ways. \/ o = Outcome("failed", Closed, NoFrame, "old", 1)
         \/ \E t : \E f \in {NoFrame, Empty(screen.mode)} : o = Outcome("opened", t, f, "old", 0)
         \/ \E t : o = [Outcome("opened", t, Empty(screen.mode), "old", 0) EXCEPT !.cost = 1]
  BY <1>empty DEF Opens, Streams
<1>dearer. \A t : [Outcome("opened", t, Empty(screen.mode), "old", 0) EXCEPT !.cost = 1]
                  = Outcome("opened", t, Empty(screen.mode), "old", 1)
  BY DEF Outcome
<1> QED
  BY <1>empty, <1>ways, <1>dearer, OthersKeep

\* What a source needs to know of the monitor.
KnownMode == screen \in [picture : Int, mode : Modes, readable : BOOLEAN]

LEMMA KeptIsPromised ==
  ASSUME NEW o, Kept(o), KnownMode, frame' = o.frame
  PROVE  Promise(o.said)
<1>modes. screen.mode # "none"
  BY ScreenAssumption DEF KnownMode
<1>frames. NoFrame.mode = "none" /\ NoFrame.pic = Blank
  BY DEF NoFrame
<1> QED
  BY <1>modes, <1>frames DEF Kept, Promise

\* source.grab and openSource: desktop duplication, the GDI copy and the stream of
\* macOS all keep what the pipeline relies on, whatever the system answers.
THEOREM SourcesKeepTheirPromise == DesktopSpec => KeepsPromise
<1>starts. DesktopInit => KnownMode
  <2>mode. (CHOOSE m \in Modes : TRUE) \in Modes
    BY ScreenAssumption
  <2> QED
    BY <2>mode DEF DesktopInit, ScreenInit, KnownMode
<1>keeps. KnownMode /\ [SourceNext]_dsVars => KnownMode'
  <2> SUFFICES ASSUME KnownMode, [SourceNext]_dsVars PROVE KnownMode'
    OBVIOUS
  <2>shows. ASSUME NEW new, screen' = [screen EXCEPT !.picture = new], new \in Int PROVE KnownMode'
    BY <2>shows DEF KnownMode
  <2>locks. ASSUME NEW new \in BOOLEAN, screen' = [screen EXCEPT !.readable = new] PROVE KnownMode'
    BY <2>locks DEF KnownMode
  <2>resized. ASSUME NEW new \in Modes, screen' = [screen EXCEPT !.mode = new] PROVE KnownMode'
    BY <2>resized DEF KnownMode
  <2>next. screen.picture + 1 \in Int
    BY DEF KnownMode
  <2>desk. Desk => KnownMode'
    BY <2>shows, <2>locks, <2>resized, <2>next DEF Desk, DesktopChanges, Lock, Unlock,
                                                   ModeChanges
  <2>others. Desk \/ UNCHANGED screen
    BY DEF SourceNext, Grab, Open, Apply, Changes, FirstImage, PointerMoves, ProbeAges,
           RetryDue, dsVars, screenVars
  <2> QED
    BY <2>desk, <2>others DEF KnownMode
<1>promises. KnownMode /\ [SourceNext]_dsVars => [Grab \/ Open => Promise(said')]_dsVars
  <2> SUFFICES ASSUME KnownMode, Grab \/ Open PROVE Promise(said')
    OBVIOUS
  <2>mode. screen.mode # "none"
    BY ScreenAssumption DEF KnownMode
  <2>grabs. \A o \in Grabs : Kept(o)
    BY <2>mode, DxgiKeeps, GdiKeeps, SckKeeps DEF Grabs
  <2>pick. \E o : Kept(o) /\ frame' = o.frame /\ said' = o.said
    BY <2>grabs, OpensKeep DEF Grab, Open, Apply
  <2> QED
    BY <2>pick, KeptIsPromised
<1> QED
  BY <1>starts, <1>keeps, <1>promises, PTL DEF DesktopSpec, KeepsPromise

-----------------------------------------------------------------------------
\* While the painter's bitmap is the source's, it knows what is drawn in it, and on
\* macOS, where the stream draws the pointer, nothing ever is.
Places == Spots \cup {"hidden"}
Bitmaps == [marks : SUBSET (Places \cup {"smear"}), seen : BOOLEAN]

PointerInv ==
  /\ painter \in [valid : BOOLEAN, drawn : BOOLEAN, last : Places]
  /\ bitmap \in Bitmaps /\ pointer \in Places
  /\ bitmap.marks = IF bitmap.seen /\ painter.drawn THEN {painter.last} ELSE {}
  /\ platform = "macos" => ~painter.drawn

\* What paint() is given: the bitmap as it was, copied over, or another one.
LEMMA PaintStep ==
  ASSUME PointerInv, NEW b \in Bitmaps, NEW fresh \in BOOLEAN, Paint(b, fresh),
         UNCHANGED <<platform, pointer>>,
         \/ b = bitmap /\ ~fresh
         \/ b.marks = {} /\ ~b.seen
         \/ b.marks = {} /\ fresh
  PROVE  PointerInv'
<1> DEFINE p == Notes(b)
           cleared == IF ~fresh /\ p.drawn THEN Restored(b.marks, p) ELSE b.marks
           kept == platform = "macos" \/ (~fresh /\ p.valid /\ pointer = p.last)
<1>knows. /\ p \in [valid : BOOLEAN, drawn : BOOLEAN, last : Places] /\ p.last = painter.last
          /\ p.drawn = (b.seen /\ painter.drawn) /\ (p.valid => b.seen)
  BY DEF Notes, PointerInv, Bitmaps
<1>over. fresh => b.marks = {}
  OBVIOUS
<1>held. ~fresh => b.marks = IF p.drawn THEN {p.last} ELSE {}
  BY <1>knows DEF PointerInv
<1>paints. /\ bitmap' = [seen |-> TRUE,
                         marks |-> IF kept THEN b.marks
                                   ELSE IF pointer = "hidden" THEN cleared ELSE cleared \cup {pointer}]
           /\ painter' = IF kept THEN p
                         ELSE [valid |-> TRUE, drawn |-> pointer # "hidden", last |-> pointer]
  BY DEF Paint, Draw
<1>mac. platform = "macos" => ~p.drawn
  BY <1>knows DEF PointerInv
<1>clear. ~kept => cleared = {}
  BY <1>held, <1>over, <1>mac DEF Restored
<1> HIDE DEF p, cleared
<1>kept. CASE kept
  <2>same. painter' = p /\ bitmap' = [seen |-> TRUE, marks |-> b.marks]
    BY <1>kept, <1>paints
  <2>agree. b.marks = IF p.drawn THEN {p.last} ELSE {}
    BY <1>kept, <1>held, <1>over, <1>mac
  <2> QED
    BY <2>same, <2>agree, <1>knows, <1>mac DEF PointerInv, Bitmaps
<1>drawn. CASE ~kept
  <2>new. /\ painter' = [valid |-> TRUE, drawn |-> pointer # "hidden", last |-> pointer]
          /\ bitmap' = [seen |-> TRUE, marks |-> IF pointer = "hidden" THEN {} ELSE {pointer}]
    BY <1>drawn, <1>paints, <1>clear
  <2> QED
    BY <2>new, <1>drawn DEF PointerInv, Bitmaps
<1> QED
  BY <1>kept, <1>drawn

LEMMA PointerStep == ASSUME PointerInv, [SourceNext]_dsVars PROVE PointerInv'
<1> DEFINE Another == [marks |-> {}, seen |-> FALSE]
<1>other. Another \in Bitmaps
  BY DEF Bitmaps
<1>grabs. CASE Grab
  <2>pick. PICK o \in Grabs :
             /\ Apply(o)
             /\ IF o.said \in {"changed", "same"} THEN Paint(Bitmap(o), o.said = "changed")
                ELSE bitmap' = Bitmap(o) /\ UNCHANGED painter
    BY <1>grabs DEF Grab
  <2>still. UNCHANGED <<platform, pointer>>
    BY <2>pick DEF Apply
  <2>bitmap. /\ Bitmap(o) \in Bitmaps
             /\ \/ Bitmap(o) = bitmap /\ o.said # "changed"
                \/ Bitmap(o).marks = {} /\ ~Bitmap(o).seen
                \/ Bitmap(o).marks = {} /\ o.said = "changed"
    BY DEF Bitmap, Bitmaps, PointerInv
  <2>painted. CASE o.said \in {"changed", "same"}
    BY <2>pick, <2>still, <2>bitmap, <2>painted, PaintStep
  <2>not. CASE o.said \notin {"changed", "same"}
    <3>after. bitmap' = Bitmap(o) /\ UNCHANGED <<painter, platform, pointer>>
      BY <2>pick, <2>still, <2>not
    <3> QED
      BY <3>after, <2>bitmap, <2>not DEF PointerInv, Bitmaps
  <2> QED
    BY <2>painted, <2>not
<1>opens. CASE Open
  <2>new. bitmap' = Another /\ UNCHANGED <<painter, platform, pointer>>
    BY <1>opens DEF Open, Apply
  <2> QED
    BY <2>new, <1>other DEF PointerInv
<1>moves. CASE PointerMoves
  BY <1>moves DEF PointerMoves, PointerInv, Places
<1>others. CASE Changes \/ FirstImage \/ ProbeAges \/ RetryDue \/ UNCHANGED dsVars
  <2> UNCHANGED <<platform, pointer, bitmap, painter>>
    BY <1>others DEF Changes, FirstImage, ProbeAges, RetryDue, dsVars, sourceVars
  <2> QED
    BY DEF PointerInv, Bitmaps
<1> QED
  BY <1>grabs, <1>opens, <1>moves, <1>others DEF SourceNext

\* cursorPainter: one pointer in the picture at most, through every way a source
\* keeps, overwrites or replaces its bitmap.
THEOREM PointerLeavesNoTrace == DesktopSpec => []OnePointer
<1>starts. DesktopInit => PointerInv
  BY DEF DesktopInit, SourceInit, PointerInv, Places, Bitmaps
<1>keeps. PointerInv /\ [SourceNext]_dsVars => PointerInv'
  BY PointerStep
<1>shows. PointerInv => OnePointer
  BY DEF PointerInv, OnePointer
<1> QED
  BY <1>starts, <1>keeps, <1>shows, PTL DEF DesktopSpec
=============================================================================
