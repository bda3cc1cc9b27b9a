----------------------------- MODULE AudioClock -----------------------------
(***************************************************************************)
(* The timestamps of recorded sound: what on_process() of pipewires.c does *)
(* to a chunk of samples for every recording, until it is a frame of the   *)
(* encoder.  Samples are numbered in the order in which PipeWire takes     *)
(* them; sample i is presented at i / SampleRate seconds.  All that fails  *)
(* on the way is the subject of Recording.                                 *)
(***************************************************************************)
EXTENDS Integers, Sequences, SequencesExt

CONSTANTS
  Outputs,
  SampleRate,    \* SCRAN_PIPEWIRE_SAMPLE_RATE
  NsecPerSec,    \* NSEC_PER_SEC: how fine the clock is
  FrameSize,     \* samples in a frame of the encoder
  MaxChunk,      \* bound: samples in a chunk
  MaxSamples,    \* bound: samples altogether
  MaxDelay       \* bound: how long before its arrival a sample was presented

ClockIsFinerThanSamples ==
  /\ {SampleRate, NsecPerSec, FrameSize, MaxChunk, MaxSamples, MaxDelay} \subseteq Nat \ {0}
  /\ NsecPerSec > SampleRate

\* As many roundings as there are in the timestamps of two chunks are shorter than a frame.
RoundingsAreSmall ==
  2 * FrameSize * NsecPerSec > SampleRate * (6 + MaxChunk \div FrameSize)

VARIABLES
  next,      \* the next sample that PipeWire has
  dropped,   \* the samples it had no buffer for
  sound      \* sound[o]: what output o's recording has of it

vars == <<next, dropped, sound>>

\* av_rescale() of a count that is not negative: to the nearest.
Rescale(a, b, c) == (2 * a * b + c) \div (2 * c)

\* av_rescale_rnd() with AV_ROUND_UP.
RescaleUp(a, b, c) == (a * b + c - 1) \div c

ToNsec(samples) == Rescale(samples, NsecPerSec, SampleRate)

Silence == [recording |-> FALSE, start |-> 0, fifo |-> <<>>, frames |-> <<>>]

Init ==
  /\ next = 0
  /\ dropped = {}
  /\ sound = [o \in Outputs |-> Silence]

\* capture_video_start(): the video starts now, some samples that were presented
\* before are still to come.
Start(o, delay) ==
  /\ ~sound[o].recording
  /\ sound' = [sound EXCEPT ![o] = [Silence EXCEPT !.recording = TRUE,
                                                   !.start = ToNsec(next) + delay]]
  /\ UNCHANGED <<next, dropped>>

\* capture_video_finish(): samples that are no frame yet are not encoded.
Finish(o) ==
  /\ sound[o].recording
  /\ sound' = [sound EXCEPT ![o] = Silence]
  /\ UNCHANGED <<next, dropped>>

\* The samples of the chunk at pts that were presented before the video started.
SamplesToSkip(r, pts) ==
  IF pts < r.start THEN RescaleUp(r.start - pts, SampleRate, NsecPerSec) ELSE 0

\* The timestamp of the first sample in the FIFO, counted back from the chunk.
PtsFifoStart(r, pts) ==
  pts + ToNsec(SamplesToSkip(r, pts)) - r.start - ToNsec(Len(r.fifo))

\* Mutant: every frame of a chunk gets the timestamp of the first.
FramePts_Constant(start, k) == start

\* Frame k of those that a chunk completes.
FramePts(start, k) == start + (k - 1) * ToNsec(FrameSize)

Leftover(fifo) == SubSeq(fifo, ((Len(fifo) \div FrameSize) * FrameSize) + 1, Len(fifo))

\* The frames in the FIFO.
FramesOf(fifo, start) ==
  [k \in 1..(Len(fifo) \div FrameSize) |->
     [pts |-> FramePts(start, k),
      samples |-> SubSeq(fifo, (k - 1) * FrameSize + 1, k * FrameSize)]]

\* Of the frames only the last before the chunk and those after it are kept.
LastFrame(frames) == IF frames = <<>> THEN <<>> ELSE <<Last(frames)>>

\* What a recording does with the chunk of n samples that starts with sample first.
Take(r, first, n) ==
  LET pts == ToNsec(first)
      skip == SamplesToSkip(r, pts)
      fifo == r.fifo \o [i \in 1..(n - skip) |-> first + skip + i - 1]
  IN IF ~r.recording \/ n < skip THEN r
     ELSE [r EXCEPT !.fifo = Leftover(fifo),
                    !.frames = LastFrame(@) \o FramesOf(fifo, PtsFifoStart(r, pts))]

OnProcess(n) ==
  /\ next + n <= MaxSamples
  /\ sound' = [o \in Outputs |-> Take(sound[o], next, n)]
  /\ next' = next + n
  /\ UNCHANGED dropped

\* External: PipeWire has no buffer for a chunk, or the graph halts.
Drop(n) ==
  /\ next + n <= MaxSamples
  /\ next' = next + n
  /\ dropped' = dropped \cup next..(next + n - 1)
  /\ UNCHANGED sound

Done == next = MaxSamples /\ UNCHANGED vars

Next ==
  \/ \E o \in Outputs :
       \/ \E delay \in -1..MaxDelay : Start(o, delay)
       \/ Finish(o)
  \/ \E n \in 1..MaxChunk : OnProcess(n) \/ Drop(n)
  \/ Done

Spec == Init /\ [][Next]_vars

-----------------------------------------------------------------------------
(* What must hold                                                          *)

TypeOK ==
  /\ next \in 0..MaxSamples
  /\ dropped \subseteq 0..MaxSamples
  /\ \A o \in Outputs : Len(sound[o].fifo) < FrameSize

(***************************************************************************)
(* The encoder's frames never go back in time nor stand still: neither     *)
(* within a chunk, nor from one chunk to the next, where the samples left  *)
(* over from the one get their time from the other.                        *)
(***************************************************************************)
PtsIncrease ==
  \A o \in Outputs : \A k \in 2..Len(sound[o].frames) :
    sound[o].frames[k - 1].pts < sound[o].frames[k].pts

(***************************************************************************)
(* Sound and picture stay together: the last sample of a frame is heard    *)
(* when it was presented, up to half a nanosecond for each of the          *)
(* roundings, and this however much was dropped before, for the samples    *)
(* that were left over give way.                                           *)
(***************************************************************************)
Roundings == 3 + MaxChunk \div FrameSize

Error(r, frame) ==
  (frame.pts + r.start) * SampleRate
    - (Last(frame.samples) - FrameSize + 1) * NsecPerSec

NewestSampleIsOnTime ==
  \A o \in Outputs : \A k \in 1..Len(sound[o].frames) :
    LET error == Error(sound[o], sound[o].frames[k])
    IN 2 * error \in (-(SampleRate * Roundings))..(SampleRate * Roundings)

(***************************************************************************)
(* A recording has no sound from before its start: no frame is earlier, by *)
(* more than a rounding, and no sample is.                                 *)
(***************************************************************************)
SoundStartsWithTheVideo ==
  \A o \in Outputs : \A k \in 1..Len(sound[o].frames) :
    /\ sound[o].frames[k].pts >= -1
    /\ \A s \in ToSet(sound[o].frames[k].samples) : ToNsec(s) >= sound[o].start - 1

(***************************************************************************)
(* Of what PipeWire hands over nothing is lost or doubled between chunks,  *)
(* and what one recording skips the other still gets.                      *)
(***************************************************************************)
NextHeard(s, t) == s < t /\ (s + 1)..(t - 1) \subseteq dropped

Consecutive(samples) == \A i \in 2..Len(samples) : NextHeard(samples[i - 1], samples[i])
Joined(s, t) == s # <<>> /\ t # <<>> => NextHeard(Last(s), Head(t))

SamplesAreConsecutive ==
  \A o \in Outputs :
    LET frames == sound[o].frames
        fifo == sound[o].fifo
    IN /\ Consecutive(fifo) /\ \A k \in 1..Len(frames) : Consecutive(frames[k].samples)
       /\ \A k \in 2..Len(frames) : Joined(frames[k - 1].samples, frames[k].samples)
       /\ frames # <<>> => Joined(Last(frames).samples, fifo)
=============================================================================
