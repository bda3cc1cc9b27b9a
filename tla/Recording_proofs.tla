-------------------------- MODULE Recording_proofs --------------------------
(***************************************************************************)
(* Whatever calls of libav and PipeWire fail, and in whichever order       *)
(* recordings begin and end: they share the audio stream as SharedStream   *)
(* says (UsersInv), and none leaks, leaves a file behind or is reported    *)
(* wrongly (LifeInv).  For every set of outputs and of faults.             *)
(*                                                                         *)
(* A recording in progress is Whole and any other is Over.  Whole says     *)
(* more than the properties ask: that what failed is in the failure mask,  *)
(* and that no encoder but a recording's own holds anything back, for the  *)
(* end of the recording is told by these.                                  *)
(*                                                                         *)
(* And what is recorded of the stream is in time: the theorem about the    *)
(* audio clock is the last.                                                *)
(***************************************************************************)
EXTENDS Recording, SequenceTheorems, TLAPS

CONSTANTS SampleRate, NsecPerSec, FrameSize, MaxChunk, MaxSamples, MaxDelay   \* of AudioClock
VARIABLES next, dropped, sound

Clock == INSTANCE AudioClock

-----------------------------------------------------------------------------
(* The inductive invariant                                                 *)

\* The users of the stream are the recordings with audio, all of them live, and it is open while there is one.
UsersInv ==
  /\ pw \in Pipewire
  /\ rec \in [Outputs -> Recordings]
  /\ \A o \in Outputs :
       /\ rec[o].audio_active <=> o \in pw.active
       /\ rec[o].audio_active => IsLive(rec[o])
  /\ pw.started <=> pw.active # {}

-----------------------------------------------------------------------------
(* The stream                                                              *)

LEMMA PipewireStartResult ==
  ASSUME NEW p \in Pipewire, NEW failed
  PROVE  /\ PipewireStart(p, failed) \in Pipewire
         /\ PipewireStart(p, failed).active = p.active
         /\ PipewireStart(p, failed).started <=> Attaches(p, failed)
<1> DEFINE built == [p EXCEPT !.inited = TRUE,
                              !.parts = @ \cup Acquired(PipewireSteps, failed, PipewireParts)]
<1>1. Acquired(PipewireSteps, failed, PipewireParts) \subseteq PipewireParts
  BY DEF Acquired
<1>2. built \in Pipewire /\ built.active = p.active
  BY <1>1 DEF Pipewire
<1>3. CASE p.started
  BY <1>3 DEF PipewireStart, Attaches
<1>4. CASE ~p.started /\ failed \in ToSet(PipewireSteps)
  <2>1. PipewireStart(p, failed) = Reset(built)
    BY <1>4 DEF PipewireStart
  <2> HIDE DEF built
  <2> QED BY <1>2, <1>4, <2>1 DEF Reset, Pipewire, Attaches
<1>5. CASE ~p.started /\ failed \notin ToSet(PipewireSteps)
  <2>1. PipewireStart(p, failed) = [built EXCEPT !.started = TRUE]
    BY <1>5 DEF PipewireStart
  <2> HIDE DEF built
  <2> QED BY <1>2, <1>5, <2>1 DEF Pipewire, Attaches
<1> QED BY <1>3, <1>4, <1>5

LEMMA AttachResult ==
  ASSUME NEW p \in Pipewire, NEW o \in Outputs, NEW failed
  PROVE  /\ Attach(p, o, failed) \in Pipewire
         /\ Attach(p, o, failed).active = IF Attaches(p, failed) THEN p.active \cup {o} ELSE p.active
         /\ Attach(p, o, failed).started <=> Attaches(p, failed)
<1> DEFINE q == PipewireStart(p, failed)
<1>1. q \in Pipewire /\ q.active = p.active /\ (q.started <=> Attaches(p, failed))
  BY PipewireStartResult
<1>2. Attach(p, o, failed) = IF q.started THEN [q EXCEPT !.active = @ \cup {o}] ELSE q
  BY DEF Attach
<1> HIDE DEF q
<1>3. CASE q.started
  BY <1>1, <1>2, <1>3 DEF Pipewire
<1>4. CASE ~q.started
  BY <1>1, <1>2, <1>4
<1> QED BY <1>3, <1>4

LEMMA DetachResult ==
  ASSUME NEW p \in Pipewire, NEW o \in Outputs
  PROVE  /\ Detach(p, o) \in Pipewire
         /\ Detach(p, o).active = p.active \ {o}
         /\ Detach(p, o).started <=> p.started /\ p.active \ {o} # {}
<1> DEFINE q == [p EXCEPT !.active = @ \ {o}]
<1>1. q \in Pipewire /\ q.active = p.active \ {o} /\ (q.started <=> p.started)
  BY DEF Pipewire
<1>2. Detach(p, o) = IF q.active = {} THEN Reset(q) ELSE q
  BY DEF Detach
<1> HIDE DEF q
<1>3. Reset(q) \in Pipewire /\ Reset(q).active = q.active /\ ~Reset(q).started
  BY <1>1 DEF Reset, Pipewire
<1> QED BY <1>1, <1>2, <1>3

-----------------------------------------------------------------------------
(* The recordings                                                          *)

\* t is a recording again, of which neither the stage nor the audio is another.
SameUse(r, t) == t \in Recordings /\ t.stage = r.stage /\ (t.audio_active <=> r.audio_active)

LEMMA SameUseTransitive ==
  ASSUME NEW r, NEW s, NEW t, SameUse(r, s), SameUse(s, t)
  PROVE  SameUse(r, t)
  BY DEF SameUse

LEMMA DestroyedUse ==
  ASSUME NEW r \in Recordings
  PROVE  SameUse(r, DestroyAudioWriter(r)) /\ SameUse(r, DestroyVideoWriter(r))
  BY DEF SameUse, DestroyAudioWriter, DestroyVideoWriter, Recordings

LEMMA FailureUse ==
  ASSUME NEW r \in Recordings, NEW failure \in Failures
  PROVE  SameUse(r, WriteFails(r)) /\ SameUse(r, StreamFails(r, failure))
  BY DEF SameUse, WriteFails, StreamFails, Recordings, Failures

LEMMA RequestStopUse ==
  ASSUME NEW r \in Recordings
  PROVE  /\ RequestStop(r) \in Recordings
         /\ RequestStop(r).audio_active <=> r.audio_active
         /\ IsLive(RequestStop(r))
  BY DEF RequestStop, Recordings, IsLive

LEMMA EncodeUse ==
  ASSUME NEW r \in Recordings, NEW s \in Streams, NEW failure \in Failures, NEW outcome \in EncodeOutcomes(s)
  PROVE  SameUse(r, Encode(r, s, failure, outcome))
<1>1. SameUse(r, [r EXCEPT !.pending = @ \cup {s}])
  BY DEF SameUse, Recordings
<1>2. SameUse(r, [r EXCEPT !.pending = @ \cup {s}, !.queued = @ \cup {s}])
  BY DEF SameUse, Recordings
<1>3. SameUse(r, [r EXCEPT !.pending = @ \cup {s}, !.in_file = @ \cup {s}])
  BY DEF SameUse, Recordings
<1>4. SameUse(r, StreamFails(r, failure)) /\ SameUse(r, WriteFails(r))
  BY FailureUse
<1>5. outcome \in {"kept", "queued", "written", EncodeFault[s], WriteFault[s]}
  BY DEF EncodeOutcomes
<1>6. /\ EncodeFault[s] \in {"encode_video", "encode_audio"}
      /\ WriteFault[s] \in {"write_video", "write_audio"}
  BY DEF Streams, EncodeFault, WriteFault
<1> QED BY <1>1, <1>2, <1>3, <1>4, <1>5, <1>6 DEF Encode

LEMMA DrainUse ==
  ASSUME NEW r \in Recordings, NEW s \in Streams, NEW faults
  PROVE  SameUse(r, DrainCodec(r, s, faults))
<1>1. SameUse(r, [r EXCEPT !.queued = @ \cup (r.pending \cap {s}), !.pending = @ \ {s}])
  BY DEF SameUse, Recordings
<1>2. SameUse(r, [r EXCEPT !.harmed = TRUE])
  BY DEF SameUse, Recordings
<1>3. SameUse(r, WriteFails(r))
  BY FailureUse DEF Failures
<1> QED BY <1>1, <1>2, <1>3 DEF DrainCodec

LEMMA DrainQueueUse ==
  ASSUME NEW r \in Recordings, NEW faults
  PROVE  SameUse(r, DrainWriteQueue(r, faults))
<1>1. SameUse(r, [r EXCEPT !.in_file = @ \cup r.queued, !.queued = {}])
  BY DEF SameUse, Recordings
<1>2. SameUse(r, WriteFails(r))
  BY FailureUse DEF Failures
<1> QED BY <1>1, <1>2 DEF DrainWriteQueue

LEMMA DrainedUse ==
  ASSUME NEW r \in Recordings, NEW faults
  PROVE  SameUse(r, Drained(r, faults))
<1> DEFINE audio == IF r.audio_active THEN DrainCodec(r, "audio", faults) ELSE r
           video == DrainCodec(audio, "video", faults)
<1>1. SameUse(r, audio)
  BY DrainUse DEF SameUse, Streams
<1>2. SameUse(audio, video)
  BY <1>1, DrainUse DEF SameUse, Streams
<1>3. SameUse(video, DrainWriteQueue(video, faults))
  BY <1>2, DrainQueueUse DEF SameUse
<1>4. Drained(r, faults) = DrainWriteQueue(video, faults)
  BY DEF Drained
<1> HIDE DEF audio, video
<1> QED BY <1>1, <1>2, <1>3, <1>4, SameUseTransitive

\* A recording that is finished is over, and has no audio.
LEMMA FinishedUse ==
  ASSUME NEW r \in Recordings, NEW faults
  PROVE  Finished(r, faults) \in Recordings /\ ~Finished(r, faults).audio_active
<1> DEFINE drained == Drained(r, faults)
           ended == [drained EXCEPT !.harmed = @ \/ "trailer" \in faults]
           done == Reported(ended, FinishIncomplete(r, faults))
           silent == [DestroyAudioWriter(done) EXCEPT !.audio_active = FALSE]
<1>1. drained \in Recordings
  BY DrainedUse DEF SameUse
<1>2. ended \in Recordings
  BY <1>1 DEF Recordings
<1>3. Finished(r, faults) = [DestroyVideoWriter(silent) EXCEPT !.stage = "NONE"]
  BY DEF Finished
<1> HIDE DEF drained, ended
<1>4. done \in Recordings
  BY <1>2 DEF Reported, Recordings
<1> HIDE DEF done
<1>5. DestroyAudioWriter(done) \in Recordings
  BY <1>4, DestroyedUse DEF SameUse
<1>6. silent \in Recordings /\ ~silent.audio_active
  BY <1>5 DEF Recordings
<1> HIDE DEF silent
<1>7. DestroyVideoWriter(silent) \in Recordings /\ ~DestroyVideoWriter(silent).audio_active
  BY <1>6, DestroyedUse DEF SameUse
<1> QED BY <1>3, <1>7 DEF Recordings

-----------------------------------------------------------------------------
(* The start of a recording                                                *)

\* Whether a start comes to the audio at all.
ReachesAudio(wants_audio, video) == wants_audio /\ video \notin BeforeAudio

\* What is undone leaves the users as they were, and takes a stream down that has none.
LEMMA InitAudioPipewireResult ==
  ASSUME NEW p \in Pipewire, NEW o \in Outputs, NEW audio,
         o \notin p.active, p.started <=> p.active # {}
  PROVE  LET q == InitAudioPipewire(p, o, audio)
         IN /\ q \in Pipewire
            /\ q.active = IF AudioStarts(p, audio) THEN p.active \cup {o} ELSE p.active
            /\ q.started <=> q.active # {}
<1> DEFINE q == Attach(p, o, audio)
<1>1. /\ q \in Pipewire
      /\ q.active = IF Attaches(p, audio) THEN p.active \cup {o} ELSE p.active
      /\ q.started <=> Attaches(p, audio)
  BY AttachResult
<1>2. /\ Detach(q, o) \in Pipewire
      /\ Detach(q, o).active = q.active \ {o}
      /\ Detach(q, o).started <=> q.started /\ q.active \ {o} # {}
  BY <1>1, DetachResult
<1>3. AudioStarts(p, audio) => Attaches(p, audio)
  BY DEF AudioStarts
<1>4. p.started => Attaches(p, audio)
  BY DEF Attaches
<1>5. InitAudioPipewire(p, o, audio) =
        IF Attaches(p, audio) /\ ~AudioStarts(p, audio) THEN Detach(q, o) ELSE q
  BY DEF InitAudioPipewire
<1> HIDE DEF q
<1> QED BY <1>1, <1>2, <1>3, <1>4, <1>5

LEMMA InitAudioWriterUse ==
  ASSUME NEW r \in Recordings, ~r.audio_active, NEW p, NEW audio
  PROVE  LET t == InitAudioWriter(p, r, audio)
         IN /\ t \in Recordings
            /\ t.stage = r.stage
            /\ t.audio_active <=> AudioStarts(p, audio)
<1> DEFINE some == IF Attaches(p, audio) THEN Acquired(AudioSteps, audio, AudioParts) ELSE {}
           tried == [r EXCEPT !.held = @ \cup some]
           full == [r EXCEPT !.held = @ \cup AudioParts, !.audio_active = TRUE]
<1>1. some \subseteq AudioParts
  BY DEF Acquired
<1> HIDE DEF some
<1>2. SameUse(r, tried)
  BY <1>1 DEF SameUse, Recordings
<1>3. SameUse(r, DestroyAudioWriter(tried))
  BY <1>2, DestroyedUse, SameUseTransitive DEF SameUse
<1>4. InitAudioWriter(p, r, audio) =
        IF AudioStarts(p, audio) THEN full ELSE DestroyAudioWriter(tried)
  BY DEF InitAudioWriter, some
<1> HIDE DEF tried
<1>5. CASE AudioStarts(p, audio)
  <2>1. full \in Recordings /\ full.stage = r.stage /\ full.audio_active
    BY DEF Recordings
  <2> HIDE DEF full
  <2> QED BY <1>4, <1>5, <2>1
<1>6. CASE ~AudioStarts(p, audio)
  BY <1>3, <1>4, <1>6 DEF SameUse
<1> QED BY <1>5, <1>6

LEMMA InitialisedUse ==
  ASSUME NEW r \in Recordings, ~r.audio_active, NEW p, NEW wants_audio, NEW audio, NEW video
  PROVE  LET t == Initialised(p, r, wants_audio, audio, video)
         IN /\ t \in Recordings
            /\ t.stage = r.stage
            /\ t.audio_active <=> ReachesAudio(wants_audio, video) /\ AudioStarts(p, audio)
<1> DEFINE some == Acquired(VideoSteps, video, VideoParts)
           begun == [r EXCEPT !.failures = {}, !.harmed = FALSE, !.reported = "none", !.in_file = {},
                              !.pending = {}, !.queued = {}, !.file = "none", !.held = @ \cup some]
           opened == IF "io" \in begun.held THEN [begun EXCEPT !.file = "open"] ELSE begun
<1>1. some \subseteq VideoParts
  BY DEF Acquired
<1>2. Initialised(p, r, wants_audio, audio, video) =
        IF ReachesAudio(wants_audio, video) THEN InitAudioWriter(p, opened, audio) ELSE opened
  BY DEF Initialised, ReachesAudio
<1> HIDE DEF some
<1>3. begun \in Recordings /\ begun.stage = r.stage /\ begun.audio_active = r.audio_active
  BY <1>1 DEF Recordings
<1> HIDE DEF begun
<1>4. opened \in Recordings /\ opened.stage = r.stage /\ opened.audio_active = r.audio_active
  BY <1>3 DEF Recordings
<1> HIDE DEF opened
<1>5. CASE ReachesAudio(wants_audio, video)
  BY <1>2, <1>4, <1>5, InitAudioWriterUse
<1>6. CASE ~ReachesAudio(wants_audio, video)
  BY <1>2, <1>4, <1>6
<1> QED BY <1>5, <1>6

LEMMA InitFailedUse ==
  ASSUME NEW r \in Recordings
  PROVE  /\ InitFailed(r) \in Recordings
         /\ InitFailed(r).stage = r.stage
         /\ ~InitFailed(r).audio_active
<1> DEFINE closed == IF {"format", "io"} \subseteq r.held
                       THEN [r EXCEPT !.file = "unlinked", !.held = @ \ {"io"}] ELSE r
           silent == IF r.audio_active
                       THEN [DestroyAudioWriter(closed) EXCEPT !.audio_active = FALSE] ELSE closed
<1>1. InitFailed(r) = DestroyVideoWriter(silent)
  BY DEF InitFailed
<1>2. SameUse(r, closed)
  BY DEF SameUse, Recordings
<1> HIDE DEF closed
<1>3. SameUse(r, DestroyAudioWriter(closed))
  BY <1>2, DestroyedUse, SameUseTransitive DEF SameUse
<1>4. silent \in Recordings /\ silent.stage = r.stage /\ ~silent.audio_active
  BY <1>2, <1>3 DEF SameUse, Recordings
<1> HIDE DEF silent
<1> QED BY <1>1, <1>4, DestroyedUse DEF SameUse

-----------------------------------------------------------------------------
(* The steps                                                               *)

LEMMA InitUsers == Init => UsersInv
  BY DEF Init, UsersInv, Pipewire, Recordings, IdleRecording, PipewireParts, IsLive

SharesOrStutters == [Stream!Next]_<<pw.active, pw.started>>

\* A step that gives a recording another state, and the stream its users accordingly.
LEMMA OneRecording ==
  ASSUME UsersInv, NEW o \in Outputs, NEW t \in Recordings, NEW q \in Pipewire,
         rec' = [rec EXCEPT ![o] = t], pw' = q,
         t.audio_active => IsLive(t),
         q.active = IF t.audio_active THEN pw.active \cup {o} ELSE pw.active \ {o},
         q.started <=> q.active # {}
  PROVE  UsersInv' /\ SharesOrStutters
<1>1. /\ pw \in Pipewire /\ pw.active \subseteq Outputs
      /\ pw.started \in BOOLEAN /\ q.started \in BOOLEAN
      /\ pw.started <=> pw.active # {}
  BY DEF UsersInv, Pipewire
<1>2. UsersInv'
  <2>1. pw' \in Pipewire /\ (pw'.started <=> pw'.active # {})
    OBVIOUS
  <2>2. rec' \in [Outputs -> Recordings]
    BY DEF UsersInv
  <2>3. ASSUME NEW x \in Outputs
        PROVE  /\ rec'[x].audio_active <=> x \in pw'.active
               /\ rec'[x].audio_active => IsLive(rec'[x])
    <3>1. CASE x = o
      BY <3>1 DEF UsersInv
    <3>2. CASE x # o
      BY <3>2 DEF UsersInv
    <3> QED BY <3>1, <3>2
  <2> QED BY <2>1, <2>2, <2>3 DEF UsersInv
<1>3. CASE (t.audio_active <=> o \in pw.active)
  <2>1. q.active = pw.active
    BY <1>3
  <2>2. q.started = pw.started
    BY <1>1, <2>1
  <2> QED BY <1>2, <2>1, <2>2 DEF SharesOrStutters
<1>4. CASE t.audio_active /\ o \notin pw.active
  <2>1. q.active = pw.active \cup {o} /\ q.started = TRUE
    BY <1>1, <1>4
  <2>2. Stream!Attach(o)
    BY <1>4, <2>1 DEF Stream!Attach
  <2> QED BY <1>2, <2>2 DEF SharesOrStutters, Stream!Next
<1>5. CASE ~t.audio_active /\ o \in pw.active
  <2>1. q.active = pw.active \ {o} /\ q.started = (q.active # {})
    BY <1>1, <1>5
  <2>2. Stream!Detach(o)
    BY <1>5, <2>1 DEF Stream!Detach
  <2> QED BY <1>2, <2>2 DEF SharesOrStutters, Stream!Next
<1> QED BY <1>3, <1>4, <1>5

\* A step that leaves the stream alone, and to every recording the audio it has.
LEMMA SameUsers ==
  ASSUME UsersInv, UNCHANGED pw,
         rec' \in [Outputs -> Recordings],
         \A o \in Outputs : /\ rec'[o].audio_active <=> rec[o].audio_active
                            /\ IsLive(rec[o]) => IsLive(rec'[o])
  PROVE  UsersInv' /\ SharesOrStutters
<1>1. SharesOrStutters
  BY DEF SharesOrStutters
<1>2. UsersInv'
  BY DEF UsersInv
<1> QED BY <1>1, <1>2

LEMMA FinishShares ==
  ASSUME UsersInv, NEW o \in Outputs, NEW r \in Recordings, NEW faults,
         r.audio_active <=> rec[o].audio_active, Finish(o, r, faults)
  PROVE  UsersInv' /\ SharesOrStutters
<1>1. Finished(r, faults) \in Recordings /\ ~Finished(r, faults).audio_active
  BY FinishedUse
<1> DEFINE q == IF r.audio_active THEN Detach(pw, o) ELSE pw
<1>2. q \in Pipewire /\ q.active = pw.active \ {o} /\ (q.started <=> q.active # {})
  <2>1. CASE r.audio_active
    BY <2>1, DetachResult DEF UsersInv
  <2>2. CASE ~r.audio_active
    BY <2>2 DEF UsersInv
  <2> QED BY <2>1, <2>2
<1>3. rec' = [rec EXCEPT ![o] = Finished(r, faults)] /\ pw' = q
  BY DEF Finish
<1> HIDE DEF q
<1> QED BY <1>1, <1>2, <1>3, OneRecording

\* Whether a start succeeds with audio or without, or fails anywhere on the way.
LEMMA StartShares ==
  ASSUME UsersInv, NEW o \in Outputs, NEW wants_audio, NEW audio, NEW video,
         VideoStart(o, wants_audio, audio, video)
  PROVE  UsersInv' /\ SharesOrStutters
<1> DEFINE with_audio == wants_audio /\ ~DisableAudio
           reaches == ReachesAudio(with_audio, video)
           r == Initialised(pw, rec[o], with_audio, audio, video)
           p == IF reaches THEN InitAudioPipewire(pw, o, audio) ELSE pw
<1>1. /\ rec[o] \in Recordings /\ ~rec[o].audio_active
      /\ pw \in Pipewire /\ pw.active \subseteq Outputs
      /\ o \notin pw.active
      /\ pw.started <=> pw.active # {}
  BY DEF UsersInv, VideoStart, Pipewire
<1>2. /\ r \in Recordings
      /\ r.audio_active <=> reaches /\ AudioStarts(pw, audio)
  BY <1>1, InitialisedUse
<1>3. /\ p \in Pipewire
      /\ p.active = IF r.audio_active THEN pw.active \cup {o} ELSE pw.active
      /\ p.started <=> p.active # {}
  <2>1. CASE reaches
    BY <1>1, <1>2, <2>1, InitAudioPipewireResult
  <2>2. CASE ~reaches
    BY <1>1, <1>2, <2>2
  <2> QED BY <2>1, <2>2
<1>4. IF video = "none"
        THEN rec' = [rec EXCEPT ![o] = [r EXCEPT !.stage = "CAPTURING"]] /\ pw' = p
        ELSE rec' = [rec EXCEPT ![o] = InitFailed(r)] /\ pw' = InitFailedPipewire(p, r, o)
  BY DEF VideoStart, ReachesAudio
<1> HIDE DEF r, p, reaches
<1>5. CASE video = "none"
  <2> DEFINE t == [r EXCEPT !.stage = "CAPTURING"]
  <2>1. t \in Recordings /\ (t.audio_active <=> r.audio_active) /\ IsLive(t)
    BY <1>2 DEF Recordings, IsLive
  <2>2. rec' = [rec EXCEPT ![o] = t]
    BY <1>4, <1>5
  <2> HIDE DEF t
  <2>3. p.active = IF t.audio_active THEN pw.active \cup {o} ELSE pw.active \ {o}
    BY <1>1, <1>3, <2>1
  <2> QED BY <1>3, <1>4, <1>5, <2>1, <2>2, <2>3, OneRecording
<1>6. CASE video # "none"
  <2> DEFINE t == InitFailed(r)
             q == InitFailedPipewire(p, r, o)
  <2>1. t \in Recordings /\ ~t.audio_active
    BY <1>2, InitFailedUse
  <2>2. q \in Pipewire /\ q.active = pw.active \ {o} /\ (q.started <=> q.active # {})
    <3>1. CASE r.audio_active
      <4>1. /\ Detach(p, o) \in Pipewire
            /\ Detach(p, o).active = p.active \ {o}
            /\ Detach(p, o).started <=> p.started /\ p.active \ {o} # {}
        BY <1>3, DetachResult
      <4>2. q = Detach(p, o)
        BY <3>1 DEF InitFailedPipewire
      <4> HIDE DEF q
      <4> QED BY <1>1, <1>3, <3>1, <4>1, <4>2
    <3>2. CASE ~r.audio_active
      BY <1>1, <1>3, <3>2 DEF InitFailedPipewire
    <3> QED BY <3>1, <3>2
  <2>3. rec' = [rec EXCEPT ![o] = t] /\ pw' = q
    BY <1>4, <1>6
  <2> HIDE DEF t, q
  <2> QED BY <2>1, <2>2, <2>3, OneRecording
<1> QED BY <1>5, <1>6

LEMMA FrameReadyShares ==
  ASSUME UsersInv, NEW o \in Outputs, NEW damaged \in BOOLEAN,
         NEW outcome \in EncodeOutcomes("video"), NEW faults,
         FrameReady(o, damaged, outcome, faults)
  PROVE  UsersInv' /\ SharesOrStutters
<1> DEFINE encoded == IF damaged THEN Encode(rec[o], "video", "VIDEO_STREAM", outcome) ELSE rec[o]
           r == IF damaged /\ outcome \in {"encode_video", "write_video"}
                  THEN RequestStop(encoded) ELSE encoded
<1>1. rec[o] \in Recordings /\ IsLive(rec[o])
  BY DEF UsersInv, FrameReady
<1>2. SameUse(rec[o], encoded)
  <2>1. SameUse(rec[o], Encode(rec[o], "video", "VIDEO_STREAM", outcome))
    BY <1>1, EncodeUse DEF Streams, Failures
  <2>2. SameUse(rec[o], rec[o])
    BY <1>1 DEF SameUse
  <2> QED BY <2>1, <2>2
<1>3. \/ Finish(o, r, faults)
      \/ rec' = [rec EXCEPT ![o] = r] /\ UNCHANGED pw
  BY DEF FrameReady
<1> HIDE DEF encoded
<1>4. /\ r \in Recordings
      /\ r.audio_active <=> rec[o].audio_active
      /\ IsLive(r)
  BY <1>1, <1>2, RequestStopUse DEF SameUse, IsLive
<1> HIDE DEF r
<1>5. CASE Finish(o, r, faults)
  BY <1>4, <1>5, FinishShares
<1>6. CASE rec' = [rec EXCEPT ![o] = r] /\ UNCHANGED pw
  <2>1. rec \in [Outputs -> Recordings]
    BY DEF UsersInv
  <2> QED BY <1>4, <1>6, <2>1, SameUsers
<1> QED BY <1>3, <1>5, <1>6

LEMMA StepShares ==
  ASSUME UsersInv, Next
  PROVE  UsersInv' /\ SharesOrStutters
<1>1. rec \in [Outputs -> Recordings] /\ pw \in Pipewire
  BY DEF UsersInv
<1>2. ASSUME NEW o \in Outputs, NEW wants_audio \in BOOLEAN,
             NEW audio \in Faults \cup {"none"}, NEW video \in Faults \cup {"none"},
             VideoStart(o, wants_audio, audio, video)
      PROVE  UsersInv' /\ SharesOrStutters
  BY <1>2, StartShares
<1>3. ASSUME NEW o \in Outputs, NEW damaged \in BOOLEAN, NEW outcome \in EncodeOutcomes("video"),
             NEW faults \in SUBSET FinishFaults, FrameReady(o, damaged, outcome, faults)
      PROVE  UsersInv' /\ SharesOrStutters
  BY <1>3, FrameReadyShares
<1>4. ASSUME NEW o \in Outputs, NEW faults \in SUBSET FinishFaults, FrameFailed(o, faults)
      PROVE  UsersInv' /\ SharesOrStutters
  <2>1. SameUse(rec[o], StreamFails(rec[o], "VIDEO_STREAM"))
    BY <1>1, FailureUse DEF Failures
  <2>2. Finish(o, StreamFails(rec[o], "VIDEO_STREAM"), faults)
    BY <1>4 DEF FrameFailed
  <2> QED BY <2>1, <2>2, FinishShares DEF SameUse
<1>5. ASSUME NEW o \in Outputs, UserStops(o)
      PROVE  UsersInv' /\ SharesOrStutters
  <2>1. rec' = [rec EXCEPT ![o] = RequestStop(rec[o])] /\ UNCHANGED pw
    BY <1>5 DEF UserStops
  <2>2. /\ RequestStop(rec[o]) \in Recordings
        /\ RequestStop(rec[o]).audio_active <=> rec[o].audio_active
        /\ IsLive(RequestStop(rec[o]))
    BY <1>1, RequestStopUse
  <2> QED BY <1>1, <2>1, <2>2, SameUsers
<1>6. ASSUME NEW outcome \in [Outputs -> EncodeOutcomes("audio")], OnProcess(outcome)
      PROVE  UsersInv' /\ SharesOrStutters
  <2> DEFINE encoded(o) == Encode(rec[o], "audio", "AUDIO_STREAM", outcome[o])
             after(o) == IF ~TakesSamples(o) THEN rec[o]
                        ELSE IF outcome[o] \in {"encode_audio", "write_audio"}
                          THEN RequestStop(encoded(o)) ELSE encoded(o)
  <2>1. UNCHANGED pw /\ rec' = [o \in Outputs |-> after(o)]
    BY <1>6 DEF OnProcess
  <2>2. ASSUME NEW o \in Outputs
        PROVE  /\ after(o) \in Recordings
               /\ after(o).audio_active <=> rec[o].audio_active
               /\ IsLive(rec[o]) => IsLive(after(o))
    <3>1. SameUse(rec[o], encoded(o))
      BY <1>1, EncodeUse DEF Streams, Failures
    <3> HIDE DEF encoded
    <3>2. /\ RequestStop(encoded(o)) \in Recordings
          /\ RequestStop(encoded(o)).audio_active <=> encoded(o).audio_active
          /\ IsLive(RequestStop(encoded(o)))
      BY <3>1, RequestStopUse DEF SameUse
    <3> QED BY <1>1, <3>1, <3>2 DEF SameUse, IsLive
  <2> HIDE DEF after
  <2> QED BY <2>1, <2>2, SameUsers
<1>7. ASSUME PipewireLoopFails
      PROVE  UsersInv' /\ SharesOrStutters
  <2> DEFINE failed(o) == StreamFails(rec[o], "AUDIO_STREAM")
             after(o) == IF o \in pw.active /\ IsLive(rec[o]) THEN RequestStop(failed(o)) ELSE rec[o]
  <2>1. UNCHANGED pw /\ rec' = [o \in Outputs |-> after(o)]
    BY <1>7 DEF PipewireLoopFails
  <2>2. ASSUME NEW o \in Outputs
        PROVE  /\ after(o) \in Recordings
               /\ after(o).audio_active <=> rec[o].audio_active
               /\ IsLive(rec[o]) => IsLive(after(o))
    <3>1. SameUse(rec[o], failed(o))
      BY <1>1, FailureUse DEF Failures
    <3> HIDE DEF failed
    <3>2. /\ RequestStop(failed(o)) \in Recordings
          /\ RequestStop(failed(o)).audio_active <=> failed(o).audio_active
          /\ IsLive(RequestStop(failed(o)))
      BY <3>1, RequestStopUse DEF SameUse
    <3> QED BY <1>1, <3>1, <3>2 DEF SameUse
  <2> HIDE DEF after
  <2> QED BY <2>1, <2>2, SameUsers
<1>8. ASSUME RequestExit
      PROVE  UsersInv' /\ SharesOrStutters
  <2> DEFINE after(o) == IF rec[o].stage = "CAPTURING" THEN RequestStop(rec[o]) ELSE rec[o]
  <2>1. UNCHANGED pw /\ rec' = [o \in Outputs |-> after(o)]
    BY <1>8 DEF RequestExit
  <2>2. ASSUME NEW o \in Outputs
        PROVE  /\ after(o) \in Recordings
               /\ after(o).audio_active <=> rec[o].audio_active
               /\ IsLive(rec[o]) => IsLive(after(o))
    BY <1>1, RequestStopUse
  <2> HIDE DEF after
  <2> QED BY <2>1, <2>2, SameUsers
<1>9. ASSUME Leave
      PROVE  UsersInv' /\ SharesOrStutters
  <2>1. pw.active \subseteq Outputs
    BY <1>1 DEF Pipewire
  <2>2. pw.active = {} /\ pw.started = FALSE
    BY <1>1, <1>9, <2>1 DEF UsersInv, Leave, Pipewire
  <2>3. /\ Destroy(pw) \in Pipewire
        /\ Destroy(pw).active = pw.active
        /\ Destroy(pw).started = FALSE
    BY <1>1, <2>2 DEF Destroy, Reset, Pipewire
  <2>4. pw' = Destroy(pw) /\ UNCHANGED rec
    BY <1>9 DEF Leave
  <2>5. UsersInv'
    BY <2>2, <2>3, <2>4 DEF UsersInv
  <2>6. SharesOrStutters
    BY <2>2, <2>3, <2>4 DEF SharesOrStutters
  <2> QED BY <2>5, <2>6
<1>10. ASSUME Exited
       PROVE  UsersInv' /\ SharesOrStutters
  BY <1>1, <1>10, SameUsers DEF Exited, vars
<1> QED BY <1>2, <1>3, <1>4, <1>5, <1>6, <1>7, <1>8, <1>9, <1>10 DEF Next

-----------------------------------------------------------------------------
(* The theorem                                                             *)

(***************************************************************************)
(* scran_pipewire_attach() and scran_pipewire_detach() are called as the   *)
(* shared stream asks, whichever calls of libav or PipeWire fail: nobody   *)
(* attaches twice or detaches what is not attached, the stream is opened   *)
(* for the first user, and taken down with the last.                       *)
(***************************************************************************)
THEOREM RecordingsShareTheStream == Spec => StreamIsShared
<1>1. Init => UsersInv
  BY InitUsers
<1>2. Init => Stream!Init
  BY DEF Init, Stream!Init
<1>3. UsersInv /\ [Next]_vars => UsersInv' /\ SharesOrStutters
  <2>1. ASSUME UsersInv, UNCHANGED vars
        PROVE  UsersInv' /\ SharesOrStutters
    BY <2>1 DEF UsersInv, vars, SharesOrStutters
  <2> QED BY <2>1, StepShares
<1> QED BY <1>1, <1>2, <1>3, PTL DEF Spec, StreamIsShared, Stream!Spec, SharesOrStutters

-----------------------------------------------------------------------------
(* What a recording holds                                                  *)

\* A recording in progress: it holds what it needs, and what has failed so far is in its failure mask.
Whole(r) ==
  /\ r \in Recordings
  /\ VideoParts \subseteq r.held
  /\ IF r.audio_active THEN AudioParts \subseteq r.held ELSE AudioParts \cap r.held = {}
  /\ r.file = "open" /\ r.reported = "none"
  /\ r.harmed <=> r.failures # {}
  /\ "audio" \in r.pending => r.audio_active

\* A recording that is over, or never was: what is reported of it is true.
Over(r) ==
  /\ r \in Recordings
  /\ r.held = {} /\ ~r.audio_active
  /\ r.file # "open"
  /\ r.file = "saved" <=> r.reported \in {"complete", "incomplete"}
  /\ r.file = "saved" => r.in_file # {}
  /\ r.reported = "complete" => ~r.harmed /\ r.pending = {} /\ r.queued = {}
  /\ r.reported = "incomplete" => r.harmed

LEMMA FailuresStayWhole ==
  ASSUME NEW r, Whole(r), NEW failure \in Failures
  PROVE  /\ Whole(WriteFails(r)) /\ Whole(StreamFails(r, failure)) /\ Whole(RequestStop(r))
         /\ WriteFails(r).stage = r.stage /\ StreamFails(r, failure).stage = r.stage
<1>1. Whole(WriteFails(r)) /\ WriteFails(r).stage = r.stage
  <2>1. r.failures \cup {"MUX"} \in SUBSET Failures /\ r.failures \cup {"MUX"} # {}
    BY DEF Whole, Recordings, Failures
  <2> QED BY <2>1 DEF Whole, WriteFails, Recordings
<1>2. Whole(StreamFails(r, failure)) /\ StreamFails(r, failure).stage = r.stage
  <2>1. r.failures \cup {failure} \in SUBSET Failures /\ r.failures \cup {failure} # {}
    BY DEF Whole, Recordings
  <2> QED BY <2>1 DEF Whole, StreamFails, Recordings
<1>3. Whole(RequestStop(r))
  BY DEF Whole, RequestStop, Recordings
<1> QED BY <1>1, <1>2, <1>3

LEMMA EncodeStaysWhole ==
  ASSUME NEW r, Whole(r), NEW s \in Streams, NEW failure \in Failures,
         NEW outcome \in EncodeOutcomes(s), s = "audio" => r.audio_active
  PROVE  Whole(Encode(r, s, failure, outcome)) /\ Encode(r, s, failure, outcome).stage = r.stage
<1> DEFINE y == Encode(r, s, failure, outcome)
<1>1. /\ r.pending \cup {s} \in SUBSET Streams
      /\ r.queued \cup {s} \in SUBSET Streams
      /\ r.in_file \cup {s} \in SUBSET Streams
      /\ "audio" \in r.pending \cup {s} => r.audio_active
  BY DEF Whole, Recordings
<1>2. /\ EncodeFault[s] \notin {"kept", "queued", "written"}
      /\ WriteFault[s] \notin {"kept", "queued", "written"}
      /\ WriteFault[s] # EncodeFault[s]
  BY DEF Streams, EncodeFault, WriteFault
<1>3. CASE outcome = "kept"
  <2>1. y = [r EXCEPT !.pending = @ \cup {s}]
    BY <1>2, <1>3 DEF Encode
  <2> HIDE DEF y
  <2>2. Whole(y) /\ y.stage = r.stage
    BY <1>1, <2>1 DEF Whole, Recordings
  <2> QED BY <2>2 DEF y
<1>4. CASE outcome = "queued"
  <2>1. y = [r EXCEPT !.pending = @ \cup {s}, !.queued = @ \cup {s}]
    BY <1>2, <1>4 DEF Encode
  <2> HIDE DEF y
  <2>2. Whole(y) /\ y.stage = r.stage
    BY <1>1, <2>1 DEF Whole, Recordings
  <2> QED BY <2>2 DEF y
<1>5. CASE outcome = "written"
  <2>1. y = [r EXCEPT !.pending = @ \cup {s}, !.in_file = @ \cup {s}]
    BY <1>2, <1>5 DEF Encode
  <2> HIDE DEF y
  <2>2. Whole(y) /\ y.stage = r.stage
    BY <1>1, <2>1 DEF Whole, Recordings
  <2> QED BY <2>2 DEF y
<1>6. CASE outcome = EncodeFault[s]
  <2>1. y = StreamFails(r, failure)
    BY <1>2, <1>6 DEF Encode
  <2> QED BY <2>1, FailuresStayWhole
<1>7. CASE outcome = WriteFault[s]
  <2>1. y = WriteFails(r)
    BY <1>2, <1>7 DEF Encode
  <2> QED BY <2>1, FailuresStayWhole
<1> QED BY <1>3, <1>4, <1>5, <1>6, <1>7 DEF EncodeOutcomes

-----------------------------------------------------------------------------
(* The end of a recording                                                  *)

\* y is r somewhere in capture_video_finish(): only what is held back, and what was lost, may be another.
Ending(r, y) ==
  /\ y \in Recordings
  /\ y.held = r.held /\ y.audio_active = r.audio_active
  /\ y.failures = {} => r.failures = {}
  /\ r.harmed => y.harmed

\* A drain that fails does harm; one that does not leaves nothing in the encoder of s.
LEMMA DrainEnds ==
  ASSUME NEW r \in Recordings, NEW s \in Streams, NEW faults
  PROVE  LET y == DrainCodec(r, s, faults)
         IN /\ Ending(r, y)
            /\ DrainFails(r, s, faults) => y.harmed
            /\ ~DrainFails(r, s, faults) => (y.harmed <=> r.harmed) /\ y.pending = r.pending \ {s}
            /\ y.pending \subseteq r.pending
            /\ \A q \in Streams \ {s} : q \in y.pending <=> q \in r.pending
<1> DEFINE y == DrainCodec(r, s, faults)
<1>1. CASE ~DrainFails(r, s, faults)
  <2>1. y = [r EXCEPT !.queued = @ \cup (r.pending \cap {s}), !.pending = @ \ {s}]
    BY <1>1 DEF DrainCodec
  <2>2. r.queued \cup (r.pending \cap {s}) \in SUBSET Streams /\ r.pending \ {s} \in SUBSET Streams
    BY DEF Recordings
  <2> HIDE DEF y
  <2>3. /\ y \in Recordings /\ y.held = r.held /\ y.audio_active = r.audio_active
        /\ y.failures = r.failures /\ y.harmed = r.harmed /\ y.pending = r.pending \ {s}
    BY <2>1, <2>2 DEF Recordings
  <2>4. Ending(r, y)
    BY <2>3 DEF Ending
  <2> QED BY <1>1, <2>3, <2>4 DEF y
<1>2. CASE DrainFails(r, s, faults)
  <2>1. \/ y = [r EXCEPT !.harmed = TRUE]
        \/ y = [r EXCEPT !.failures = @ \cup {"MUX"}, !.harmed = TRUE]
    BY <1>2 DEF DrainCodec, WriteFails
  <2>2. r.failures \cup {"MUX"} \in SUBSET Failures /\ r.failures \cup {"MUX"} # {}
    BY DEF Recordings, Failures
  <2> HIDE DEF y
  <2>3. /\ y \in Recordings /\ y.held = r.held /\ y.audio_active = r.audio_active
        /\ y.failures = r.failures \/ y.failures = r.failures \cup {"MUX"}
        /\ y.harmed = TRUE /\ y.pending = r.pending
    BY <2>1, <2>2 DEF Recordings
  <2>4. Ending(r, y)
    BY <2>2, <2>3 DEF Ending
  <2> QED BY <1>2, <2>3, <2>4 DEF y
<1> QED BY <1>1, <1>2

LEMMA FlushEnds ==
  ASSUME NEW r \in Recordings, NEW faults
  PROVE  LET y == DrainWriteQueue(r, faults)
         IN /\ Ending(r, y)
            /\ y.pending = r.pending
            /\ "flush" \in faults => y.harmed
            /\ "flush" \notin faults => (y.harmed <=> r.harmed) /\ y.queued = {}
<1> DEFINE y == DrainWriteQueue(r, faults)
<1>1. CASE "flush" \notin faults
  <2>1. y = [r EXCEPT !.in_file = @ \cup r.queued, !.queued = {}]
    BY <1>1 DEF DrainWriteQueue
  <2>2. r.in_file \cup r.queued \in SUBSET Streams
    BY DEF Recordings
  <2> HIDE DEF y
  <2>3. /\ y \in Recordings /\ y.held = r.held /\ y.audio_active = r.audio_active
        /\ y.failures = r.failures /\ y.harmed = r.harmed /\ y.pending = r.pending /\ y.queued = {}
    BY <2>1, <2>2 DEF Recordings
  <2> QED BY <1>1, <2>3 DEF Ending, y
<1>2. CASE "flush" \in faults
  <2>1. y = [r EXCEPT !.failures = @ \cup {"MUX"}, !.harmed = TRUE]
    BY <1>2 DEF DrainWriteQueue, WriteFails
  <2>2. r.failures \cup {"MUX"} \in SUBSET Failures /\ r.failures \cup {"MUX"} # {}
    BY DEF Recordings, Failures
  <2> HIDE DEF y
  <2>3. /\ y \in Recordings /\ y.held = r.held /\ y.audio_active = r.audio_active
        /\ y.failures # {} /\ y.harmed = TRUE /\ y.pending = r.pending
    BY <2>1, <2>2 DEF Recordings
  <2> QED BY <1>2, <2>3 DEF Ending, y
<1> QED BY <1>1, <1>2

\* What is drained without a failure is all in the file, and every failure is one that finishing sees.
LEMMA DrainedEnds ==
  ASSUME NEW r, Whole(r), NEW faults
  PROVE  LET y == Drained(r, faults)
             fails == \/ r.audio_active /\ DrainFails(r, "audio", faults)
                      \/ DrainFails(r, "video", faults)
                      \/ "flush" \in faults
         IN /\ Ending(r, y)
            /\ fails => y.harmed
            /\ ~fails => (y.harmed <=> r.harmed) /\ y.pending = {} /\ y.queued = {}
<1> DEFINE audio == IF r.audio_active THEN DrainCodec(r, "audio", faults) ELSE r
           video == DrainCodec(audio, "video", faults)
           flushed == DrainWriteQueue(video, faults)
<1>1. r \in Recordings /\ "audio" \in Streams /\ "video" \in Streams
  BY DEF Whole, Streams
<1>2. /\ Ending(r, audio)
      /\ r.audio_active /\ DrainFails(r, "audio", faults) => audio.harmed
      /\ ~(r.audio_active /\ DrainFails(r, "audio", faults))
           => (audio.harmed <=> r.harmed) /\ "audio" \notin audio.pending
      /\ "video" \in audio.pending <=> "video" \in r.pending
  <2>1. CASE r.audio_active
    <3> DEFINE y == DrainCodec(r, "audio", faults)
    <3>1. /\ Ending(r, y)
          /\ DrainFails(r, "audio", faults) => y.harmed
          /\ ~DrainFails(r, "audio", faults) => (y.harmed <=> r.harmed) /\ y.pending = r.pending \ {"audio"}
          /\ \A q \in Streams \ {"audio"} : q \in y.pending <=> q \in r.pending
      BY <1>1, DrainEnds
    <3>2. audio = y
      BY <2>1
    <3> HIDE DEF y, audio
    <3> QED BY <2>1, <3>1, <3>2 DEF Streams
  <2>2. CASE ~r.audio_active
    <3>1. audio = r /\ "audio" \notin r.pending
      BY <2>2 DEF Whole
    <3> HIDE DEF audio
    <3> QED BY <1>1, <2>2, <3>1 DEF Ending
  <2> QED BY <2>1, <2>2
<1>3. DrainFails(audio, "video", faults) <=> DrainFails(r, "video", faults)
  <2> HIDE DEF audio
  <2> QED BY <1>2 DEF DrainFails
<1> HIDE DEF audio
<1>4. /\ Ending(audio, video)
      /\ DrainFails(r, "video", faults) => video.harmed
      /\ ~DrainFails(r, "video", faults)
           => (video.harmed <=> audio.harmed) /\ video.pending = audio.pending \ {"video"}
  <2>1. audio \in Recordings
    BY <1>2 DEF Ending
  <2> QED BY <1>1, <1>3, <2>1, DrainEnds
<1> HIDE DEF video
<1>5. /\ Ending(video, flushed)
      /\ flushed.pending = video.pending
      /\ "flush" \in faults => flushed.harmed
      /\ "flush" \notin faults => (flushed.harmed <=> video.harmed) /\ flushed.queued = {}
  <2>1. video \in Recordings
    BY <1>4 DEF Ending
  <2> QED BY <2>1, FlushEnds
<1> HIDE DEF flushed
<1>6. Ending(r, flushed)
  BY <1>2, <1>4, <1>5 DEF Ending
<1>7. audio.pending \subseteq Streams
  BY <1>2 DEF Ending, Recordings
<1>8. "audio" \notin audio.pending => audio.pending \ {"video"} = {}
  BY <1>7 DEF Streams
<1>9. Drained(r, faults) = flushed
  BY DEF Drained, flushed, video, audio
<1>10. flushed.harmed \in BOOLEAN /\ video.harmed \in BOOLEAN /\ audio.harmed \in BOOLEAN
  BY <1>2, <1>4, <1>5 DEF Ending, Recordings
<1> QED BY <1>2, <1>4, <1>5, <1>6, <1>8, <1>9, <1>10 DEF Ending

\* The parts are held by one writer each.
LEMMA PartsDiffer ==
  /\ VideoParts \cap AudioParts = {}
  /\ "io" \in VideoParts /\ "format" \in VideoParts
  /\ "a_frame" \in AudioParts
  BY DEF VideoParts, AudioParts

\* What is reported at the end is true, and nothing is held any more.
LEMMA FinishedIsOver ==
  ASSUME NEW r, Whole(r), NEW faults
  PROVE  Over(Finished(r, faults)) /\ Finished(r, faults).stage = "NONE"
<1> DEFINE drained == Drained(r, faults)
           incomplete == FinishIncomplete(r, faults)
           ended == [drained EXCEPT !.harmed = @ \/ "trailer" \in faults]
           done == Reported(ended, incomplete)
           silent == [DestroyAudioWriter(done) EXCEPT !.audio_active = FALSE]
           over == [DestroyVideoWriter(silent) EXCEPT !.stage = "NONE"]
<1>1. Finished(r, faults) = over
  BY DEF Finished
<1>2. /\ Ending(r, drained)
      /\ incomplete <=> \/ r.failures # {}
                        \/ r.audio_active /\ DrainFails(r, "audio", faults)
                        \/ DrainFails(r, "video", faults)
                        \/ "flush" \in faults
                        \/ "trailer" \in faults
  BY DrainedEnds DEF FinishIncomplete
<1>3. /\ \/ r.audio_active /\ DrainFails(r, "audio", faults)
         \/ DrainFails(r, "video", faults)
         \/ "flush" \in faults
         => drained.harmed
      /\ ~incomplete => (drained.harmed <=> r.harmed) /\ drained.pending = {} /\ drained.queued = {}
  BY <1>2, DrainedEnds
<1> HIDE DEF drained, incomplete
<1>4. /\ ended \in Recordings
      /\ ended.held = r.held /\ ended.audio_active = r.audio_active
      /\ ended.pending = drained.pending /\ ended.queued = drained.queued
      /\ ended.harmed <=> drained.harmed \/ "trailer" \in faults
  BY <1>2 DEF Ending, Recordings
<1> HIDE DEF ended
<1>5. /\ incomplete => ended.harmed
      /\ ~incomplete => ~ended.harmed /\ ended.pending = {} /\ ended.queued = {}
  BY <1>2, <1>3, <1>4 DEF Whole, Ending
<1>6. /\ done \in Recordings /\ done.held = r.held /\ done.in_file = ended.in_file
      /\ done.harmed = ended.harmed
      /\ done.pending = ended.pending /\ done.queued = ended.queued
      /\ IF ended.in_file = {} THEN done.file = "unlinked" /\ done.reported = "nothing"
         ELSE /\ done.file = "saved"
              /\ done.reported = IF incomplete THEN "incomplete" ELSE "complete"
  <2>1. CASE ended.in_file = {}
    <3>1. done = [ended EXCEPT !.file = "unlinked", !.reported = "nothing"]
      BY <2>1 DEF Reported
    <3> HIDE DEF done
    <3> QED BY <1>4, <2>1, <3>1 DEF Recordings
  <2>2. CASE ended.in_file # {}
    <3>1. done = [ended EXCEPT !.file = "saved",
                               !.reported = IF incomplete THEN "incomplete" ELSE "complete"]
      BY <2>2 DEF Reported
    <3> HIDE DEF done
    <3> QED BY <1>4, <2>2, <3>1 DEF Recordings
  <2> QED BY <2>1, <2>2
<1> HIDE DEF done
<1>7. /\ silent \in Recordings /\ silent.held = done.held \ AudioParts /\ silent.audio_active = FALSE
      /\ silent.in_file = done.in_file /\ silent.harmed = done.harmed
      /\ silent.pending = done.pending /\ silent.queued = done.queued
      /\ silent.file = done.file /\ silent.reported = done.reported
  BY <1>6 DEF DestroyAudioWriter, Recordings
<1> HIDE DEF silent
<1>8. "format" \in silent.held
  BY <1>6, <1>7, PartsDiffer DEF Whole
<1>9. /\ over \in Recordings /\ over.held = silent.held \ VideoParts /\ over.audio_active = FALSE
      /\ over.in_file = done.in_file /\ over.harmed = done.harmed
      /\ over.pending = done.pending /\ over.queued = done.queued
      /\ over.file = done.file /\ over.reported = done.reported
      /\ over.stage = "NONE"
  BY <1>7, <1>8 DEF DestroyVideoWriter, Recordings
<1> HIDE DEF over
<1>10. over.held = {}
  <2>1. r.held \subseteq VideoParts \cup AudioParts
    BY DEF Whole, Recordings
  <2> QED BY <1>6, <1>7, <1>9, <2>1
<1>11. Over(over)
  BY <1>5, <1>6, <1>9, <1>10 DEF Over
<1> QED BY <1>1, <1>9, <1>11

-----------------------------------------------------------------------------
(* The begin of a recording                                                *)

\* Where no step fails all parts are acquired.
LEMMA AllAcquired ==
  ASSUME NEW steps, NEW failed, failed \notin ToSet(steps), NEW parts \in SUBSET ToSet(steps),
         \A i \in DOMAIN steps : 1..i \subseteq DOMAIN steps
  PROVE  Acquired(steps, failed, parts) = parts
<1>1. \A i \in DOMAIN steps : \A k \in 1..i : steps[k] # failed
  BY DEF ToSet
<1> QED BY <1>1 DEF Acquired, ToSet

LEMMA VideoPartsAcquired == Acquired(VideoSteps, "none", VideoParts) = VideoParts
<1>1. "none" \notin ToSet(VideoSteps)
  BY DEF ToSet, VideoSteps
<1>2. VideoParts \subseteq ToSet(VideoSteps)
  <2>1. /\ VideoSteps[1] = "frame" /\ VideoSteps[4] = "format" /\ VideoSteps[5] = "codec"
        /\ VideoSteps[7] = "packet" /\ VideoSteps[10] = "io"
        /\ {1, 4, 5, 7, 10} \subseteq DOMAIN VideoSteps
    BY DEF VideoSteps
  <2> HIDE DEF VideoSteps
  <2> QED BY <2>1 DEF VideoParts, ToSet
<1>3. DOMAIN VideoSteps = 1..11
  BY DEF VideoSteps
<1>4. \A i \in DOMAIN VideoSteps : 1..i \subseteq DOMAIN VideoSteps
  BY <1>3
<1> QED BY <1>1, <1>2, <1>4, AllAcquired

LEMMA PipewirePartsAcquired ==
  ASSUME NEW failed, failed \notin ToSet(PipewireSteps)
  PROVE  Acquired(PipewireSteps, failed, PipewireParts) = PipewireParts
<1>1. PipewireParts \subseteq ToSet(PipewireSteps)
  <2>1. /\ PipewireSteps[1] = "loop" /\ PipewireSteps[2] = "epoll" /\ PipewireSteps[3] = "context"
        /\ PipewireSteps[4] = "core" /\ PipewireSteps[6] = "pw_stream"
        /\ {1, 2, 3, 4, 6} \subseteq DOMAIN PipewireSteps
    BY DEF PipewireSteps
  <2> HIDE DEF PipewireSteps
  <2> QED BY <2>1 DEF PipewireParts, ToSet
<1>2. DOMAIN PipewireSteps = 1..7
  BY DEF PipewireSteps
<1>3. \A i \in DOMAIN PipewireSteps : 1..i \subseteq DOMAIN PipewireSteps
  BY <1>2
<1> QED BY <1>1, <1>3, AllAcquired

\* The file is opened through the format context, which is there by then.
LEMMA FileNeedsFormat ==
  ASSUME NEW failed, "io" \in Acquired(VideoSteps, failed, VideoParts)
  PROVE  "format" \in Acquired(VideoSteps, failed, VideoParts)
<1>1. PICK i \in DOMAIN VideoSteps :
        VideoSteps[i] = "io" /\ \A k \in 1..i : VideoSteps[k] # failed
  BY DEF Acquired
<1>2. i = 10
  BY <1>1 DEF VideoSteps
<1>3. VideoSteps[4] = "format" /\ 4 \in DOMAIN VideoSteps
  BY DEF VideoSteps
<1>4. \A k \in 1..4 : VideoSteps[k] # failed
  <2>1. \A k \in 1..4 : k \in 1..i
    BY <1>2
  <2> QED BY <1>1, <2>1
<1> QED BY <1>3, <1>4, PartsDiffer DEF Acquired

\* t is r with the audio's parts, where it starts, and without.
Sounding(r, t, starts) ==
  /\ t \in Recordings /\ t.stage = r.stage
  /\ t.audio_active <=> starts
  /\ t.held = r.held \cup (IF starts THEN AudioParts ELSE {})
  /\ t.failures = r.failures /\ t.harmed = r.harmed /\ t.reported = r.reported
  /\ t.in_file = r.in_file /\ t.pending = r.pending /\ t.queued = r.queued /\ t.file = r.file

\* Audio that starts brings all its parts, and audio that does not brings none.
LEMMA AudioWriterHolds ==
  ASSUME NEW r \in Recordings, AudioParts \cap r.held = {}, ~r.audio_active, NEW p, NEW audio
  PROVE  Sounding(r, InitAudioWriter(p, r, audio), AudioStarts(p, audio))
<1> DEFINE some == IF Attaches(p, audio) THEN Acquired(AudioSteps, audio, AudioParts) ELSE {}
           tried == [r EXCEPT !.held = @ \cup some]
<1>1. some \subseteq AudioParts
  BY DEF Acquired
<1> HIDE DEF some
<1>2. tried \in Recordings /\ tried.held = r.held \cup some
  BY <1>1 DEF Recordings
<1>3. CASE AudioStarts(p, audio)
  <2> DEFINE full == [r EXCEPT !.held = @ \cup AudioParts, !.audio_active = TRUE]
  <2>1. InitAudioWriter(p, r, audio) = full
    BY <1>3 DEF InitAudioWriter
  <2>2. Sounding(r, full, TRUE)
    BY DEF Sounding, Recordings
  <2> HIDE DEF full
  <2> QED BY <1>3, <2>1, <2>2 DEF Sounding
<1>4. CASE ~AudioStarts(p, audio)
  <2> DEFINE none == DestroyAudioWriter(tried)
  <2>1. InitAudioWriter(p, r, audio) = none
    BY <1>4 DEF InitAudioWriter, some
  <2>2. tried.held \ AudioParts = r.held
    BY <1>1, <1>2
  <2>3. none = [r EXCEPT !.held = r.held]
    BY <2>2 DEF DestroyAudioWriter, Recordings
  <2> HIDE DEF none
  <2>4. Sounding(r, none, FALSE)
    BY <2>3 DEF Sounding, Recordings
  <2> QED BY <1>4, <2>1, <2>4 DEF Sounding
<1> QED BY <1>3, <1>4

\* t is a recording that has just begun: it holds `some' of the video's parts, and nothing has failed.
Begun(r, t, some) ==
  /\ t \in Recordings /\ t.stage = r.stage
  /\ t.held = some \cup (IF t.audio_active THEN AudioParts ELSE {})
  /\ t.failures = {} /\ ~t.harmed /\ t.reported = "none"
  /\ t.in_file = {} /\ t.pending = {} /\ t.queued = {}
  /\ t.file = IF "io" \in some THEN "open" ELSE "none"

LEMMA InitialisedBegins ==
  ASSUME NEW r, Over(r), NEW p, NEW wants_audio, NEW audio, NEW video
  PROVE  Begun(r, Initialised(p, r, wants_audio, audio, video), Acquired(VideoSteps, video, VideoParts))
<1> DEFINE some == Acquired(VideoSteps, video, VideoParts)
           begun == [r EXCEPT !.failures = {}, !.harmed = FALSE, !.reported = "none", !.in_file = {},
                              !.pending = {}, !.queued = {}, !.file = "none", !.held = @ \cup some]
           opened == IF "io" \in begun.held THEN [begun EXCEPT !.file = "open"] ELSE begun
           t == Initialised(p, r, wants_audio, audio, video)
<1>1. some \subseteq VideoParts
  BY DEF Acquired
<1>2. t = IF ReachesAudio(wants_audio, video) THEN InitAudioWriter(p, opened, audio) ELSE opened
  BY DEF Initialised, ReachesAudio
<1> HIDE DEF some, t
<1>3. r \in Recordings /\ r.held = {} /\ ~r.audio_active
  BY DEF Over
<1>4. /\ begun \in Recordings /\ begun.stage = r.stage /\ begun.audio_active = r.audio_active
      /\ begun.failures = {} /\ ~begun.harmed /\ begun.reported = "none"
      /\ begun.in_file = {} /\ begun.pending = {} /\ begun.queued = {}
      /\ begun.file = "none" /\ begun.held = some
  BY <1>1, <1>3 DEF Recordings
<1> HIDE DEF begun
<1>5. Begun(r, opened, some) /\ opened.held = some /\ ~opened.audio_active
  BY <1>3, <1>4 DEF Begun, Recordings
<1> HIDE DEF opened
<1>6. CASE ReachesAudio(wants_audio, video)
  <2>1. opened \in Recordings /\ AudioParts \cap opened.held = {} /\ ~opened.audio_active
    BY <1>1, <1>5, PartsDiffer DEF Begun
  <2>2. t = InitAudioWriter(p, opened, audio)
    BY <1>2, <1>6
  <2>3. Sounding(opened, t, AudioStarts(p, audio))
    BY <2>1, <2>2, AudioWriterHolds
  <2>4. Begun(r, t, some)
    BY <1>5, <2>3 DEF Begun, Sounding
  <2> QED BY <2>4 DEF some, t
<1>7. CASE ~ReachesAudio(wants_audio, video)
  <2>1. t = opened
    BY <1>2, <1>7
  <2> QED BY <1>5, <2>1 DEF some, t
<1> QED BY <1>6, <1>7

\* A start that succeeds has all it needs.
LEMMA StartedIsWhole ==
  ASSUME NEW r, NEW t, Begun(r, t, VideoParts)
  PROVE  LET y == [t EXCEPT !.stage = "CAPTURING"]
         IN Whole(y) /\ IsLive(y)
<1> DEFINE y == [t EXCEPT !.stage = "CAPTURING"]
<1>1. /\ y \in Recordings /\ y.stage = "CAPTURING"
      /\ y.held = t.held /\ y.audio_active = t.audio_active
      /\ y.failures = t.failures /\ y.harmed = t.harmed /\ y.reported = t.reported
      /\ y.pending = t.pending /\ y.file = t.file
  BY DEF Begun, Recordings
<1> HIDE DEF y
<1>2. Whole(y)
  <2>1. /\ VideoParts \subseteq y.held
        /\ IF y.audio_active THEN AudioParts \subseteq y.held ELSE AudioParts \cap y.held = {}
    BY <1>1, PartsDiffer DEF Begun
  <2>2. y.file = "open" /\ y.reported = "none" /\ y.pending = {} /\ y.failures = {} /\ ~y.harmed
    BY <1>1, PartsDiffer DEF Begun
  <2> QED BY <1>1, <2>1, <2>2 DEF Whole
<1> QED BY <1>1, <1>2 DEF IsLive, y

\* A start that fails leaves nothing, and no file.
LEMMA FailedIsOver ==
  ASSUME NEW r, NEW t, NEW some \in SUBSET VideoParts, "io" \in some => "format" \in some,
         Begun(r, t, some)
  PROVE  Over(InitFailed(t)) /\ InitFailed(t).stage = r.stage
<1> DEFINE closed == IF {"format", "io"} \subseteq t.held
                       THEN [t EXCEPT !.file = "unlinked", !.held = @ \ {"io"}] ELSE t
           silent == IF t.audio_active
                       THEN [DestroyAudioWriter(closed) EXCEPT !.audio_active = FALSE] ELSE closed
           over == DestroyVideoWriter(silent)
<1>1. InitFailed(t) = over
  BY DEF InitFailed
<1>2. /\ t \in Recordings
      /\ "io" \in t.held <=> "io" \in some
      /\ "format" \in t.held <=> "format" \in some
  BY PartsDiffer DEF Begun
<1>3. /\ closed \in Recordings /\ closed.stage = t.stage /\ closed.audio_active = t.audio_active
      /\ closed.held = t.held \ {"io"}
      /\ closed.file = IF "io" \in some THEN "unlinked" ELSE "none"
      /\ closed.reported = "none"
  <2>1. CASE "io" \in some
    <3>1. closed = [t EXCEPT !.file = "unlinked", !.held = @ \ {"io"}]
      BY <1>2, <2>1
    <3> HIDE DEF closed
    <3> QED BY <1>2, <2>1, <3>1 DEF Begun, Recordings
  <2>2. CASE "io" \notin some
    <3>1. closed = t
      BY <1>2, <2>2
    <3> HIDE DEF closed
    <3>2. t.held = t.held \ {"io"}
      BY <1>2, <2>2
    <3> QED BY <1>2, <2>2, <3>1, <3>2 DEF Begun
  <2> QED BY <2>1, <2>2
<1> HIDE DEF closed
<1>4. /\ silent \in Recordings /\ silent.stage = t.stage /\ silent.audio_active = FALSE
      /\ silent.held = some \ {"io"}
      /\ silent.file = closed.file /\ silent.reported = "none"
  <2>1. CASE t.audio_active
    <3>1. silent = [closed EXCEPT !.held = @ \ AudioParts, !.audio_active = FALSE]
      BY <2>1 DEF DestroyAudioWriter
    <3> HIDE DEF silent
    <3>2. closed.held \ AudioParts = some \ {"io"}
      BY <1>3, <2>1, PartsDiffer DEF Begun
    <3> QED BY <1>3, <3>1, <3>2 DEF Recordings
  <2>2. CASE ~t.audio_active
    <3>1. silent = closed
      BY <2>2
    <3> HIDE DEF silent
    <3>2. t.audio_active = FALSE
      BY <1>2, <2>2 DEF Recordings
    <3>3. closed.held = some \ {"io"}
      BY <1>3, <2>2 DEF Begun
    <3> QED BY <1>3, <3>1, <3>2, <3>3
  <2> QED BY <2>1, <2>2
<1> HIDE DEF silent
<1>5. /\ over \in Recordings /\ over.stage = r.stage /\ over.audio_active = FALSE
      /\ over.held = {}
      /\ over.file = closed.file /\ over.reported = "none"
  <2> DEFINE gone == IF "format" \in silent.held THEN VideoParts ELSE VideoParts \ {"io"}
  <2>1. over = [silent EXCEPT !.held = @ \ gone]
    BY DEF DestroyVideoWriter
  <2>2. silent.held \ gone = {}
    BY <1>4
  <2> HIDE DEF gone, over
  <2>3. t.stage = r.stage
    BY DEF Begun
  <2> QED BY <1>4, <2>1, <2>2, <2>3 DEF Recordings
<1> HIDE DEF over
<1> QED BY <1>1, <1>3, <1>5 DEF Over

\* VideoStart, of its recording.
LEMMA StartsWholeOrOver ==
  ASSUME NEW r, Over(r), NEW p, NEW wants_audio, NEW audio, NEW video
  PROVE  LET t == Initialised(p, r, wants_audio, audio, video)
             y == [t EXCEPT !.stage = "CAPTURING"]
         IN /\ video = "none" => Whole(y) /\ IsLive(y)
            /\ Over(InitFailed(t)) /\ InitFailed(t).stage = r.stage
<1> DEFINE t == Initialised(p, r, wants_audio, audio, video)
           some == Acquired(VideoSteps, video, VideoParts)
<1>1. Begun(r, t, some)
  BY InitialisedBegins
<1>2. some \subseteq VideoParts /\ ("io" \in some => "format" \in some)
  BY FileNeedsFormat DEF Acquired
<1>3. video = "none" => some = VideoParts
  BY VideoPartsAcquired
<1> HIDE DEF t, some
<1>4. Over(InitFailed(t)) /\ InitFailed(t).stage = r.stage
  BY <1>1, <1>2, FailedIsOver
<1>5. video = "none" => LET y == [t EXCEPT !.stage = "CAPTURING"] IN Whole(y) /\ IsLive(y)
  <2> HAVE video = "none"
  <2>1. Begun(r, t, VideoParts)
    BY <1>1, <1>3
  <2> QED BY <2>1, StartedIsWhole
<1> QED BY <1>4, <1>5 DEF t

-----------------------------------------------------------------------------
(* The life of the recordings                                              *)

InOrder(r) == IF IsLive(r) THEN Whole(r) ELSE Over(r)

\* PipeWire's objects are there while the stream is.
StreamInOrder(p) == p.parts = IF p.started THEN PipewireParts ELSE {}

LifeInv ==
  /\ UsersInv
  /\ \A o \in Outputs : InOrder(rec[o])
  /\ StreamInOrder(pw)
  /\ tray_recording \in BOOLEAN
  /\ tray_recording <=> \E o \in Outputs : IsLive(rec[o])
  /\ running \in BOOLEAN
  /\ ~running => ~pw.inited

LEMMA AttachInOrder ==
  ASSUME NEW p \in Pipewire, StreamInOrder(p), NEW o \in Outputs, NEW failed
  PROVE  StreamInOrder(Attach(p, o, failed))
<1> DEFINE q == PipewireStart(p, failed)
           built == [p EXCEPT !.inited = TRUE,
                              !.parts = @ \cup Acquired(PipewireSteps, failed, PipewireParts)]
<1>1. StreamInOrder(q) /\ q \in Pipewire
  <2>1. CASE p.started
    BY <2>1 DEF PipewireStart
  <2>2. CASE ~p.started
    <3>1. Acquired(PipewireSteps, failed, PipewireParts) \subseteq PipewireParts
      BY DEF Acquired
    <3>2. p.parts = {}
      BY <2>2 DEF StreamInOrder
    <3>3. built \in Pipewire /\ built.parts = Acquired(PipewireSteps, failed, PipewireParts)
      BY <3>1, <3>2 DEF Pipewire
    <3>4. CASE failed \in ToSet(PipewireSteps)
      <4>1. q = Reset(built)
        BY <2>2, <3>4 DEF PipewireStart
      <4> HIDE DEF q, built
      <4> QED BY <3>3, <4>1 DEF Reset, StreamInOrder, Pipewire
    <3>5. CASE failed \notin ToSet(PipewireSteps)
      <4>1. q = [built EXCEPT !.started = TRUE]
        BY <2>2, <3>5 DEF PipewireStart
      <4>2. built.parts = PipewireParts
        BY <3>3, <3>5, PipewirePartsAcquired
      <4> HIDE DEF q, built
      <4> QED BY <3>3, <4>1, <4>2 DEF StreamInOrder, Pipewire
    <3> QED BY <3>4, <3>5
  <2> QED BY <2>1, <2>2
<1>2. Attach(p, o, failed) = IF q.started THEN [q EXCEPT !.active = @ \cup {o}] ELSE q
  BY DEF Attach
<1> HIDE DEF q
<1>3. StreamInOrder([q EXCEPT !.active = @ \cup {o}])
  BY <1>1 DEF StreamInOrder, Pipewire
<1> QED BY <1>1, <1>2, <1>3

LEMMA DetachInOrder ==
  ASSUME NEW p \in Pipewire, StreamInOrder(p), NEW o \in Outputs
  PROVE  StreamInOrder(Detach(p, o))
<1> DEFINE q == [p EXCEPT !.active = @ \ {o}]
<1>1. q \in Pipewire /\ StreamInOrder(q)
  BY DEF Pipewire, StreamInOrder
<1>2. Detach(p, o) = IF q.active = {} THEN Reset(q) ELSE q
  BY DEF Detach
<1> HIDE DEF q
<1>3. StreamInOrder(Reset(q))
  BY <1>1 DEF Reset, Pipewire, StreamInOrder
<1> QED BY <1>1, <1>2, <1>3

LEMMA InitLife == Init => LifeInv
<1> SUFFICES ASSUME Init
             PROVE  LifeInv
  OBVIOUS
<1>1. ~IsLive(IdleRecording) /\ Over(IdleRecording)
  BY DEF IdleRecording, IsLive, Over, Recordings
<1>2. \A o \in Outputs : rec[o] = IdleRecording
  BY DEF Init
<1>3. pw.parts = {} /\ pw.started = FALSE /\ pw.inited = FALSE
  BY DEF Init
<1>4. UsersInv
  BY InitUsers
<1>5. tray_recording = FALSE /\ running = TRUE
  BY DEF Init
<1>6. \A o \in Outputs : InOrder(rec[o])
  BY <1>1, <1>2 DEF InOrder
<1>7. StreamInOrder(pw)
  BY <1>3 DEF StreamInOrder
<1> QED BY <1>1, <1>2, <1>3, <1>4, <1>5, <1>6, <1>7 DEF LifeInv

\* A step that leaves the stream and the icon alone, and ends no recording nor begins one.
LEMMA SameLife ==
  ASSUME LifeInv, UsersInv', UNCHANGED <<pw, tray_recording, running>>,
         \A o \in Outputs : InOrder(rec'[o]) /\ (IsLive(rec'[o]) <=> IsLive(rec[o]))
  PROVE  LifeInv'
  BY DEF LifeInv, StreamInOrder

LEMMA FinishInOrder ==
  ASSUME LifeInv, UsersInv', running, NEW o \in Outputs, NEW r, Whole(r), NEW faults,
         Finish(o, r, faults)
  PROVE  LifeInv'
<1> DEFINE t == Finished(r, faults)
<1>1. Over(t) /\ ~IsLive(t)
  BY FinishedIsOver DEF IsLive
<1>2. rec' = [rec EXCEPT ![o] = t] /\ rec \in [Outputs -> Recordings] /\ pw \in Pipewire
  BY DEF Finish, LifeInv, UsersInv
<1> HIDE DEF t
<1>3. \A x \in Outputs : InOrder(rec'[x])
  BY <1>1, <1>2 DEF InOrder, LifeInv
<1>4. StreamInOrder(pw')
  BY <1>2, DetachInOrder DEF Finish, LifeInv
<1>5. tray_recording' \in BOOLEAN /\ (tray_recording' <=> \E x \in Outputs : IsLive(rec'[x]))
  BY DEF Finish, TrayAfterFinish
<1>6. running' = running
  BY DEF Finish
<1> QED BY <1>3, <1>4, <1>5, <1>6 DEF LifeInv, StreamInOrder

LEMMA StartInOrder ==
  ASSUME LifeInv, UsersInv', NEW o \in Outputs, NEW wants_audio, NEW audio, NEW video,
         VideoStart(o, wants_audio, audio, video)
  PROVE  LifeInv'
<1> DEFINE with_audio == wants_audio /\ ~DisableAudio
           r == Initialised(pw, rec[o], with_audio, audio, video)
           p == IF ReachesAudio(with_audio, video) THEN InitAudioPipewire(pw, o, audio) ELSE pw
           started == [r EXCEPT !.stage = "CAPTURING"]
           failed == InitFailed(r)
<1>1. /\ Over(rec[o]) /\ ~IsLive(rec[o]) /\ running /\ running' = running
      /\ pw \in Pipewire /\ StreamInOrder(pw)
      /\ rec \in [Outputs -> Recordings] /\ tray_recording \in BOOLEAN
  BY DEF VideoStart, LifeInv, UsersInv, InOrder
<1>2. /\ video = "none" => Whole(started) /\ IsLive(started)
      /\ Over(failed) /\ failed.stage = rec[o].stage
  BY <1>1, StartsWholeOrOver
<1>3. StreamInOrder(p) /\ p \in Pipewire
  <2>1. StreamInOrder(Attach(pw, o, audio)) /\ Attach(pw, o, audio) \in Pipewire
    BY <1>1, AttachInOrder, AttachResult
  <2>2. StreamInOrder(Detach(Attach(pw, o, audio), o)) /\ Detach(Attach(pw, o, audio), o) \in Pipewire
    BY <2>1, DetachInOrder, DetachResult
  <2> QED BY <1>1, <2>1, <2>2 DEF InitAudioPipewire
<1>4. StreamInOrder(InitFailedPipewire(p, r, o))
  BY <1>3, DetachInOrder DEF InitFailedPipewire
<1>5. IF video = "none"
        THEN rec' = [rec EXCEPT ![o] = started] /\ pw' = p /\ tray_recording' = TRUE
        ELSE /\ rec' = [rec EXCEPT ![o] = failed] /\ pw' = InitFailedPipewire(p, r, o)
             /\ UNCHANGED tray_recording
  BY DEF VideoStart, ReachesAudio
<1> HIDE DEF r, p, started, failed
<1>6. StreamInOrder(pw')
  BY <1>3, <1>4, <1>5
<1>7. CASE video = "none"
  <2>1. \A x \in Outputs : InOrder(rec'[x])
    BY <1>1, <1>2, <1>5, <1>7 DEF InOrder, LifeInv
  <2>2. IsLive(rec'[o]) /\ tray_recording' = TRUE
    BY <1>1, <1>2, <1>5, <1>7
  <2> QED BY <1>1, <1>6, <2>1, <2>2 DEF LifeInv, StreamInOrder
<1>8. CASE video # "none"
  <2>1. ~IsLive(failed)
    BY <1>1, <1>2 DEF IsLive
  <2>2. \A x \in Outputs : InOrder(rec'[x]) /\ (IsLive(rec'[x]) <=> IsLive(rec[x]))
    <3> TAKE x \in Outputs
    <3>1. CASE x = o
      BY <1>1, <1>2, <1>5, <1>8, <2>1, <3>1 DEF InOrder
    <3>2. CASE x # o
      BY <1>1, <1>5, <1>8, <3>2 DEF LifeInv
    <3> QED BY <3>1, <3>2
  <2>3. UNCHANGED tray_recording
    BY <1>5, <1>8
  <2> QED BY <1>1, <1>6, <2>2, <2>3 DEF LifeInv, StreamInOrder
<1> QED BY <1>7, <1>8

LEMMA FrameReadyInOrder ==
  ASSUME LifeInv, UsersInv', NEW o \in Outputs, NEW damaged \in BOOLEAN,
         NEW outcome \in EncodeOutcomes("video"), NEW faults,
         FrameReady(o, damaged, outcome, faults)
  PROVE  LifeInv'
<1> DEFINE encoded == IF damaged THEN Encode(rec[o], "video", "VIDEO_STREAM", outcome) ELSE rec[o]
           r == IF damaged /\ outcome \in {"encode_video", "write_video"}
                  THEN RequestStop(encoded) ELSE encoded
<1>1. /\ Whole(rec[o]) /\ IsLive(rec[o]) /\ running
      /\ rec \in [Outputs -> Recordings]
  BY DEF LifeInv, UsersInv, FrameReady, InOrder
<1>2. Whole(encoded) /\ encoded.stage = rec[o].stage
  <2>1. Whole(Encode(rec[o], "video", "VIDEO_STREAM", outcome))
        /\ Encode(rec[o], "video", "VIDEO_STREAM", outcome).stage = rec[o].stage
    BY <1>1, EncodeStaysWhole DEF Streams, Failures
  <2> QED BY <1>1, <2>1
<1>3. \/ Finish(o, r, faults)
      \/ rec' = [rec EXCEPT ![o] = r] /\ UNCHANGED <<pw, tray_recording, running>>
  BY DEF FrameReady
<1> HIDE DEF encoded
<1>4. Whole(RequestStop(encoded)) /\ IsLive(RequestStop(encoded))
  <2>1. encoded \in Recordings
    BY <1>2 DEF Whole
  <2> QED BY <1>2, <2>1, FailuresStayWhole, RequestStopUse DEF Failures
<1>5. Whole(r) /\ IsLive(r)
  BY <1>1, <1>2, <1>4 DEF IsLive
<1> HIDE DEF r
<1>6. CASE Finish(o, r, faults)
  BY <1>1, <1>5, <1>6, FinishInOrder
<1>7. CASE rec' = [rec EXCEPT ![o] = r] /\ UNCHANGED <<pw, tray_recording, running>>
  <2>1. \A x \in Outputs : InOrder(rec'[x]) /\ (IsLive(rec'[x]) <=> IsLive(rec[x]))
    <3> TAKE x \in Outputs
    <3>1. CASE x = o
      BY <1>1, <1>5, <1>7, <3>1 DEF InOrder
    <3>2. CASE x # o
      BY <1>1, <1>7, <3>2 DEF LifeInv
    <3> QED BY <3>1, <3>2
  <2> QED BY <1>7, <2>1, SameLife
<1> QED BY <1>3, <1>6, <1>7

\* What becomes of a recording that is asked to stop.
LEMMA StoppedInOrder ==
  ASSUME NEW r, Whole(r)
  PROVE  InOrder(RequestStop(r)) /\ IsLive(RequestStop(r))
<1>1. Whole(RequestStop(r))
  BY FailuresStayWhole DEF Failures
<1>2. IsLive(RequestStop(r))
  BY RequestStopUse DEF Whole
<1> QED BY <1>1, <1>2 DEF InOrder

LEMMA StepInOrder ==
  ASSUME LifeInv, UsersInv', Next
  PROVE  LifeInv'
<1>1. /\ rec \in [Outputs -> Recordings] /\ pw \in Pipewire
      /\ \A o \in Outputs : IsLive(rec[o]) => Whole(rec[o])
      /\ \A o \in Outputs : InOrder(rec[o])
  BY DEF LifeInv, UsersInv, InOrder
<1>2. ASSUME NEW o \in Outputs, NEW wants_audio \in BOOLEAN,
             NEW audio \in Faults \cup {"none"}, NEW video \in Faults \cup {"none"},
             VideoStart(o, wants_audio, audio, video)
      PROVE  LifeInv'
  BY <1>2, StartInOrder
<1>3. ASSUME NEW o \in Outputs, NEW damaged \in BOOLEAN, NEW outcome \in EncodeOutcomes("video"),
             NEW faults \in SUBSET FinishFaults, FrameReady(o, damaged, outcome, faults)
      PROVE  LifeInv'
  BY <1>3, FrameReadyInOrder
<1>4. ASSUME NEW o \in Outputs, NEW faults \in SUBSET FinishFaults, FrameFailed(o, faults)
      PROVE  LifeInv'
  <2>1. running /\ IsLive(rec[o]) /\ Finish(o, StreamFails(rec[o], "VIDEO_STREAM"), faults)
    BY <1>4 DEF FrameFailed
  <2>2. Whole(StreamFails(rec[o], "VIDEO_STREAM"))
    BY <1>1, <2>1, FailuresStayWhole DEF Failures
  <2> QED BY <2>1, <2>2, FinishInOrder
<1>5. ASSUME NEW o \in Outputs, UserStops(o)
      PROVE  LifeInv'
  <2>1. /\ rec' = [rec EXCEPT ![o] = RequestStop(rec[o])]
        /\ IsLive(rec[o]) /\ UNCHANGED <<pw, tray_recording, running>>
    BY <1>5 DEF UserStops, IsLive
  <2>2. InOrder(RequestStop(rec[o])) /\ IsLive(RequestStop(rec[o]))
    BY <1>1, <2>1, StoppedInOrder
  <2>3. \A x \in Outputs : InOrder(rec'[x]) /\ (IsLive(rec'[x]) <=> IsLive(rec[x]))
    BY <1>1, <2>1, <2>2
  <2> QED BY <2>1, <2>3, SameLife
<1>6. ASSUME NEW outcome \in [Outputs -> EncodeOutcomes("audio")], OnProcess(outcome)
      PROVE  LifeInv'
  <2> DEFINE encoded(o) == Encode(rec[o], "audio", "AUDIO_STREAM", outcome[o])
             after(o) == IF ~TakesSamples(o) THEN rec[o]
                        ELSE IF outcome[o] \in {"encode_audio", "write_audio"}
                          THEN RequestStop(encoded(o)) ELSE encoded(o)
  <2>1. UNCHANGED <<pw, tray_recording, running>> /\ rec' = [o \in Outputs |-> after(o)]
    BY <1>6 DEF OnProcess
  <2>2. ASSUME NEW o \in Outputs
        PROVE  InOrder(after(o)) /\ (IsLive(after(o)) <=> IsLive(rec[o]))
    <3>1. CASE ~TakesSamples(o)
      BY <1>1, <3>1
    <3>2. CASE TakesSamples(o)
      <4>1. Whole(rec[o]) /\ IsLive(rec[o]) /\ rec[o].audio_active
        BY <1>1, <3>2 DEF TakesSamples, LifeInv, UsersInv
      <4>2. Whole(encoded(o)) /\ encoded(o).stage = rec[o].stage
        BY <4>1, EncodeStaysWhole DEF Streams, Failures
      <4> HIDE DEF encoded
      <4>3. InOrder(RequestStop(encoded(o))) /\ IsLive(RequestStop(encoded(o)))
        BY <4>2, StoppedInOrder
      <4>4. InOrder(encoded(o)) /\ IsLive(encoded(o))
        BY <4>1, <4>2 DEF InOrder, IsLive
      <4> QED BY <3>2, <4>1, <4>3, <4>4
    <3> QED BY <3>1, <3>2
  <2> HIDE DEF after
  <2> QED BY <2>1, <2>2, SameLife
<1>7. ASSUME PipewireLoopFails
      PROVE  LifeInv'
  <2> DEFINE failed(o) == StreamFails(rec[o], "AUDIO_STREAM")
             after(o) == IF o \in pw.active /\ IsLive(rec[o]) THEN RequestStop(failed(o)) ELSE rec[o]
  <2>1. UNCHANGED <<pw, tray_recording, running>> /\ rec' = [o \in Outputs |-> after(o)]
    BY <1>7 DEF PipewireLoopFails
  <2>2. ASSUME NEW o \in Outputs
        PROVE  InOrder(after(o)) /\ (IsLive(after(o)) <=> IsLive(rec[o]))
    <3>1. CASE o \in pw.active /\ IsLive(rec[o])
      <4>1. Whole(failed(o))
        BY <1>1, <3>1, FailuresStayWhole DEF Failures
      <4> HIDE DEF failed
      <4> QED BY <3>1, <4>1, StoppedInOrder
    <3>2. CASE ~(o \in pw.active /\ IsLive(rec[o]))
      BY <1>1, <3>2
    <3> QED BY <3>1, <3>2
  <2> HIDE DEF after
  <2> QED BY <2>1, <2>2, SameLife
<1>8. ASSUME RequestExit
      PROVE  LifeInv'
  <2> DEFINE after(o) == IF rec[o].stage = "CAPTURING" THEN RequestStop(rec[o]) ELSE rec[o]
  <2>1. UNCHANGED <<pw, tray_recording, running>> /\ rec' = [o \in Outputs |-> after(o)]
    BY <1>8 DEF RequestExit
  <2>2. ASSUME NEW o \in Outputs
        PROVE  InOrder(after(o)) /\ (IsLive(after(o)) <=> IsLive(rec[o]))
    <3>1. CASE rec[o].stage = "CAPTURING"
      <4>1. IsLive(rec[o])
        BY <3>1 DEF IsLive
      <4> QED BY <1>1, <3>1, <4>1, StoppedInOrder
    <3>2. CASE rec[o].stage # "CAPTURING"
      BY <1>1, <3>2
    <3> QED BY <3>1, <3>2
  <2> HIDE DEF after
  <2> QED BY <2>1, <2>2, SameLife
<1>9. ASSUME Leave
      PROVE  LifeInv'
  <2>1. pw' = Destroy(pw) /\ UNCHANGED <<rec, tray_recording>> /\ running' = FALSE
    BY <1>9 DEF Leave
  <2>2. StreamInOrder(pw') /\ ~pw'.inited
    BY <1>1, <2>1 DEF Destroy, Reset, Pipewire, StreamInOrder, LifeInv
  <2> QED BY <2>1, <2>2 DEF LifeInv, StreamInOrder
<1>10. ASSUME Exited
       PROVE  LifeInv'
  BY <1>1, <1>10, SameLife DEF Exited, vars
<1> QED BY <1>2, <1>3, <1>4, <1>5, <1>6, <1>7, <1>8, <1>9, <1>10 DEF Next

LEMMA LifeHolds == Spec => []LifeInv
<1>1. LifeInv /\ [Next]_vars => LifeInv'
  <2>1. ASSUME LifeInv, Next
        PROVE  LifeInv'
    BY <2>1, StepShares, StepInOrder DEF LifeInv
  <2>2. ASSUME LifeInv, UNCHANGED vars
        PROVE  LifeInv'
    BY <2>2 DEF vars, LifeInv, UsersInv, StreamInOrder
  <2> QED BY <2>1, <2>2
<1> QED BY <1>1, InitLife, PTL DEF Spec

-----------------------------------------------------------------------------
(* What follows                                                            *)

(***************************************************************************)
(* A recording that is live holds all it needs, and one that is over, or   *)
(* whose start failed at any step, holds nothing: not an encoder, not the  *)
(* file, not the audio, and not the stream.                                *)
(***************************************************************************)
THEOREM NothingEverLeaks == Spec => []NothingLeaks
<1>1. LifeInv => NothingLeaks
  <2> SUFFICES ASSUME LifeInv
               PROVE  NothingLeaks
    OBVIOUS
  <2>1. /\ UsersInv /\ StreamInOrder(pw)
        /\ \A o \in Outputs : InOrder(rec[o])
        /\ ~running => ~pw.inited
    BY DEF LifeInv
  <2>2. ASSUME NEW o \in Outputs
        PROVE  /\ IsLive(rec[o]) => rec[o].held \cap VideoParts = VideoParts
               /\ ~IsLive(rec[o]) => rec[o].held = {} /\ ~rec[o].audio_active
               /\ rec[o].audio_active <=> AudioParts \subseteq rec[o].held
    <3>1. CASE IsLive(rec[o])
      BY <2>1, <3>1, PartsDiffer DEF InOrder, Whole
    <3>2. CASE ~IsLive(rec[o])
      BY <2>1, <3>2, PartsDiffer DEF InOrder, Over
    <3> QED BY <3>1, <3>2
  <2>3. pw.active = {o \in Outputs : rec[o].audio_active}
    BY <2>1 DEF UsersInv, Pipewire
  <2>4. pw.started = (pw.active # {}) /\ pw.parts = IF pw.active = {} THEN {} ELSE PipewireParts
    BY <2>1 DEF UsersInv, Pipewire, StreamInOrder
  <2> QED BY <2>1, <2>2, <2>3, <2>4 DEF NothingLeaks
<1> QED BY <1>1, LifeHolds, PTL

(***************************************************************************)
(* A file that was begun is recorded to, or was saved and said to be, or   *)
(* is unlinked: a start or an end that fails half way leaves none behind.  *)
(***************************************************************************)
THEOREM NoFileIsEverLeftBehind == Spec => []NoFileIsLeftBehind
<1>1. LifeInv => NoFileIsLeftBehind
  <2> SUFFICES ASSUME LifeInv, NEW o \in Outputs
               PROVE  /\ rec[o].file = "open" <=> IsLive(rec[o])
                      /\ rec[o].file = "saved" <=> rec[o].reported \in {"complete", "incomplete"}
                      /\ rec[o].file = "saved" => rec[o].in_file # {}
    BY DEF NoFileIsLeftBehind
  <2>1. InOrder(rec[o])
    BY DEF LifeInv
  <2>2. CASE IsLive(rec[o])
    BY <2>1, <2>2 DEF InOrder, Whole
  <2>3. CASE ~IsLive(rec[o])
    BY <2>1, <2>3 DEF InOrder, Over
  <2> QED BY <2>2, <2>3
<1> QED BY <1>1, LifeHolds, PTL

(***************************************************************************)
(* The user is told that a recording is complete only if no call failed    *)
(* and no encoder or queue was left with anything, and that it is          *)
(* incomplete only if something did fail.                                  *)
(***************************************************************************)
THEOREM ReportsAreAlwaysTrue == Spec => []ReportsAreTrue
<1>1. LifeInv => ReportsAreTrue
  <2> SUFFICES ASSUME LifeInv, NEW o \in Outputs
               PROVE  /\ rec[o].reported = "complete" =>
                           ~rec[o].harmed /\ rec[o].pending \cup rec[o].queued = {}
                      /\ rec[o].reported = "incomplete" => rec[o].harmed
    BY DEF ReportsAreTrue
  <2>1. InOrder(rec[o])
    BY DEF LifeInv
  <2>2. CASE IsLive(rec[o])
    BY <2>1, <2>2 DEF InOrder, Whole
  <2>3. CASE ~IsLive(rec[o])
    BY <2>1, <2>3 DEF InOrder, Over
  <2> QED BY <2>2, <2>3
<1> QED BY <1>1, LifeHolds, PTL

(***************************************************************************)
(* The icon in the tray shows a recording exactly while there is one.      *)
(***************************************************************************)
THEOREM TrayAlwaysShowsRecordings == Spec => []TrayShowsRecordings
<1>1. LifeInv => TrayShowsRecordings
  BY DEF LifeInv, TrayShowsRecordings
<1> QED BY <1>1, LifeHolds, PTL

-----------------------------------------------------------------------------
(* The audio clock: the timestamps of frames increase, the newest sample of *)
(* each frame is on time, none is from before the start of the video, and   *)
(* nothing that PipeWire handed over is lost or doubled (ClockInv).  The    *)
(* newest sample is what a chunk tells the time of; that frames increase    *)
(* from one chunk to the next follows from the time of both newest samples, *)
(* for which the roundings must be shorter than a frame.                    *)

\* A sample of a recording is not from before its start, by more than a rounding.
InTime(r, s) == 2 * (s * NsecPerSec) + SampleRate >= 2 * (r.start * SampleRate)

SoundFrames == [pts : Int, samples : Seq(Int)]
Sounds == [recording : BOOLEAN, start : Int, fifo : Seq(Int), frames : Seq(SoundFrames)]

\* What is known of each frame, of the FIFO, and of what follows on them.
FrameKnown(r, frame) ==
  /\ frame \in SoundFrames /\ Len(frame.samples) = FrameSize
  /\ frame.pts >= -1
  /\ 2 * Clock!Error(r, frame) \in (-(SampleRate * Clock!Roundings))..(SampleRate * Clock!Roundings)
  /\ Clock!Consecutive(frame.samples)
  /\ \A i \in 1..Len(frame.samples) : InTime(r, frame.samples[i])

FifoKnown(r, now) ==
  /\ Len(r.fifo) < FrameSize
  /\ Clock!Consecutive(r.fifo)
  /\ \A i \in 1..Len(r.fifo) : InTime(r, r.fifo[i]) /\ r.fifo[i] < now - (Len(r.fifo) - i)
  /\ r.fifo # <<>> => Clock!NextHeard(r.fifo[Len(r.fifo)], now)

NewestSample(r) == Clock!Last(Clock!Last(r.frames).samples)

FramesKnown(r, now) ==
  /\ \A k \in 1..Len(r.frames) : FrameKnown(r, r.frames[k])
  /\ \A k \in 2..Len(r.frames) : /\ r.frames[k - 1].pts < r.frames[k].pts
                                 /\ Clock!Joined(r.frames[k - 1].samples, r.frames[k].samples)
  /\ r.frames # <<>> => /\ NewestSample(r) < now - Len(r.fifo)
                        /\ Clock!Joined(Clock!Last(r.frames).samples, r.fifo)
                        /\ r.fifo = <<>> => Clock!NextHeard(NewestSample(r), now)

SoundKnown(r, now) ==
  /\ r \in Sounds /\ FifoKnown(r, now) /\ FramesKnown(r, now)
  /\ ~r.recording => r.fifo = <<>> /\ r.frames = <<>>

ClockInv ==
  /\ next \in Int
  /\ sound \in [Outputs -> Sounds]
  /\ \A o \in Outputs : SoundKnown(sound[o], next)

-----------------------------------------------------------------------------
(* Rounding                                                                *)

ClockConstants == Clock!ClockIsFinerThanSamples /\ Clock!RoundingsAreSmall

\* The constants count at least one, and the clock is finer than the samples.
LEMMA ConstantsOfClock ==
  ASSUME ClockConstants
  PROVE  /\ SampleRate \in Int /\ SampleRate >= 1 /\ NsecPerSec \in Int /\ NsecPerSec > SampleRate
         /\ FrameSize \in Int /\ FrameSize >= 1 /\ MaxChunk \in Int /\ MaxChunk >= 1
  BY DEF ClockConstants, Clock!ClockIsFinerThanSamples

\* A number is the product of divisor and quotient, and the rest.
LEMMA QuotientAndRest ==
  ASSUME NEW x \in Int, NEW n \in Nat, n > 0
  PROVE  x % n \in 0..(n - 1) /\ x \div n \in Int /\ x = n * (x \div n) + (x % n)
OBVIOUS

\* Products of sums and of differences.
LEMMA ProductOfSum ==
  ASSUME NEW a \in Int, NEW b \in Int, NEW c \in Int
  PROVE  /\ a * c \in Int /\ b * c \in Int
         /\ (a + b) * c = a * c + b * c /\ (a - b) * c = a * c - b * c
OBVIOUS

\* A product grows with its first factor.
LEMMA ProductGrows ==
  ASSUME NEW a \in Int, NEW b \in Int, a <= b, NEW c \in Int, c >= 0
  PROVE  a * c \in Int /\ b * c \in Int /\ a * c <= b * c
<1>1. (b - a) * c >= 0
  OBVIOUS
<1> QED BY <1>1

\* A time in nanoseconds is at most half of one off.
LEMMA ToNsecRounds ==
  ASSUME ClockConstants, NEW n \in Int
  PROVE  /\ Clock!ToNsec(n) \in Int
         /\ 2 * (SampleRate * Clock!ToNsec(n)) <= 2 * (n * NsecPerSec) + SampleRate
         /\ 2 * (SampleRate * Clock!ToNsec(n)) > 2 * (n * NsecPerSec) - SampleRate
<1> DEFINE x == 2 * n * NsecPerSec + SampleRate
           d == 2 * SampleRate
<1>1. x \in Int /\ d \in Nat /\ d > 0 /\ x = 2 * (n * NsecPerSec) + SampleRate
  BY ConstantsOfClock
<1>2. Clock!ToNsec(n) = x \div d
  BY DEF Clock!ToNsec, Clock!Rescale
<1> HIDE DEF x
<1>3. /\ x \div d \in Int /\ x = d * (x \div d) + (x % d) /\ x % d \in 0..(d - 1)
  BY <1>1, QuotientAndRest
<1>4. d * (x \div d) = 2 * (SampleRate * (x \div d))
  BY <1>3, ConstantsOfClock
<1> DEFINE p == SampleRate * (x \div d)
           y == n * NsecPerSec
<1>5. p \in Int /\ y \in Int /\ SampleRate \in Int
  BY <1>3, ConstantsOfClock
<1>6. p = SampleRate * Clock!ToNsec(n) /\ x = 2 * y + SampleRate /\ d * (x \div d) = 2 * p
  BY <1>1, <1>2, <1>4
<1>7. x = 2 * p + (x % d) /\ x % d \in 0..(2 * SampleRate - 1)
  BY <1>3, <1>6
<1> HIDE DEF p, y, d
<1>8. 2 * p <= 2 * y + SampleRate /\ 2 * p > 2 * y - SampleRate
  BY <1>5, <1>6, <1>7
<1> QED BY <1>2, <1>3, <1>6, <1>8 DEF y

\* The clock is finer than the samples: no two of them have the same time.
LEMMA LaterIsLater ==
  ASSUME ClockConstants, NEW m \in Int, NEW n \in Int, m < n
  PROVE  Clock!ToNsec(m) < Clock!ToNsec(n)
<1> DEFINE a == Clock!ToNsec(m)
           b == Clock!ToNsec(n)
<1>1. a \in Int /\ b \in Int
  BY ToNsecRounds
<1>2. SampleRate * (b - a) > (n - m) * NsecPerSec - SampleRate
  <2>1. SampleRate * (b - a) = SampleRate * b - SampleRate * a /\ (n - m) * NsecPerSec = n * NsecPerSec - m * NsecPerSec
    BY <1>1, ConstantsOfClock
  <2>2. /\ 2 * (SampleRate * a) <= 2 * (m * NsecPerSec) + SampleRate
        /\ 2 * (SampleRate * b) > 2 * (n * NsecPerSec) - SampleRate
    BY ToNsecRounds
  <2> HIDE DEF a, b
  <2>3. SampleRate * a \in Int /\ SampleRate * b \in Int /\ m * NsecPerSec \in Int /\ n * NsecPerSec \in Int
    BY <1>1, ConstantsOfClock
  <2> QED BY <2>1, <2>2, <2>3, ConstantsOfClock
<1> HIDE DEF a, b
<1>3. (n - m) * NsecPerSec >= NsecPerSec
  BY ConstantsOfClock
<1>4. SampleRate * (b - a) > 0
  BY <1>1, <1>2, <1>3, ConstantsOfClock
<1>5. b - a > 0
  BY <1>1, <1>4, ConstantsOfClock
<1> QED BY <1>1, <1>5 DEF a, b

\* Enough is skipped that what is left was not presented before the start.
LEMMA SkipReachesTheStart ==
  ASSUME ClockConstants, NEW r \in Sounds, NEW pts \in Int
  PROVE  /\ Clock!SamplesToSkip(r, pts) \in Nat
         /\ SampleRate * pts + Clock!SamplesToSkip(r, pts) * NsecPerSec >= r.start * SampleRate
         /\ pts >= r.start => Clock!SamplesToSkip(r, pts) = 0
<1> DEFINE late == r.start - pts
           x == late * SampleRate + NsecPerSec - 1
<1>1. late \in Int
  BY DEF Sounds
<1>2. CASE pts < r.start
  <2>1. Clock!SamplesToSkip(r, pts) = x \div NsecPerSec
    BY <1>2 DEF Clock!SamplesToSkip, Clock!RescaleUp
  <2>2. late >= 1 /\ late * SampleRate >= 1
    <3>1. late >= 1
      BY <1>2 DEF Sounds
    <3> HIDE DEF late
    <3> QED BY <1>1, <3>1, ConstantsOfClock
  <2>3. r.start * SampleRate = late * SampleRate + SampleRate * pts /\ SampleRate * pts \in Int
    BY ConstantsOfClock DEF Sounds
  <2> DEFINE l == late * SampleRate
             q == x \div NsecPerSec
  <2>4. l \in Int /\ x = l + NsecPerSec - 1
    BY <1>1, ConstantsOfClock
  <2> HIDE DEF late, x, l
  <2>5. x \in Int
    BY <2>4, ConstantsOfClock
  <2>6. q \in Int /\ x = NsecPerSec * q + (x % NsecPerSec) /\ x % NsecPerSec \in 0..(NsecPerSec - 1)
    <3>1. NsecPerSec \in Nat /\ NsecPerSec > 0
      BY ConstantsOfClock
    <3> QED BY <2>5, <3>1, QuotientAndRest
  <2> HIDE DEF q
  <2>7. q * NsecPerSec >= l /\ q * NsecPerSec = NsecPerSec * q
    BY <2>4, <2>5, <2>6, ConstantsOfClock
  <2>8. l >= 1
    BY <2>2 DEF l
  <2>9. q >= 1
    BY <2>6, <2>7, <2>8, <2>4, ConstantsOfClock
  <2>10. q * NsecPerSec \in Int
    BY <2>6, ConstantsOfClock
  <2>11. r.start * SampleRate = l + SampleRate * pts
    BY <2>3 DEF l
  <2>12. SampleRate * pts + q * NsecPerSec >= r.start * SampleRate
    BY <2>3, <2>4, <2>7, <2>10, <2>11
  <2> QED BY <1>2, <2>1, <2>6, <2>9, <2>12 DEF q, Sounds
<1>3. CASE pts >= r.start
  <2>1. Clock!SamplesToSkip(r, pts) = 0
    BY <1>3 DEF Clock!SamplesToSkip, Sounds
  <2>2. SampleRate * pts >= r.start * SampleRate
    <3>1. r.start \in Int /\ pts * SampleRate = SampleRate * pts
      BY ConstantsOfClock DEF Sounds
    <3> QED BY <1>3, <3>1, ConstantsOfClock, ProductGrows
  <2> QED BY <2>1, <2>2, ConstantsOfClock DEF Sounds
<1> QED BY <1>2, <1>3 DEF Sounds

\* The time of nothing is nothing.
LEMMA ToNsecOfNone ==
  ASSUME ClockConstants
  PROVE  Clock!ToNsec(0) = 0
<1> DEFINE t == Clock!ToNsec(0)
<1>1. t \in Int /\ 2 * (SampleRate * t) <= 2 * (0 * NsecPerSec) + SampleRate
      /\ 2 * (SampleRate * t) > 2 * (0 * NsecPerSec) - SampleRate
  BY ToNsecRounds
<1> HIDE DEF t
<1>2. 0 * NsecPerSec = 0
  BY ConstantsOfClock
<1>3. (t >= 1 => SampleRate * t >= SampleRate) /\ (t <= -1 => SampleRate * t <= -SampleRate)
  BY <1>1, ConstantsOfClock
<1>4. SampleRate * t \in Int
  BY <1>1, ConstantsOfClock
<1>5. t = 0
  BY <1>1, <1>2, <1>3, <1>4, ConstantsOfClock
<1> QED BY <1>5 DEF t

\* What is in time was presented after the start, so nothing after it is skipped.
LEMMA InTimeIsHeard ==
  ASSUME ClockConstants, NEW r \in Sounds, NEW s \in Int, InTime(r, s)
  PROVE  Clock!ToNsec(s) >= r.start
<1> DEFINE t == Clock!ToNsec(s)
<1>1. t \in Int /\ r.start \in Int /\ 2 * (SampleRate * t) > 2 * (s * NsecPerSec) - SampleRate
  BY ToNsecRounds DEF Sounds
<1>2. 2 * (s * NsecPerSec) + SampleRate >= 2 * (r.start * SampleRate)
  BY DEF InTime
<1> HIDE DEF t
<1>3. /\ SampleRate * t \in Int /\ s * NsecPerSec \in Int /\ r.start * SampleRate \in Int
      /\ (t + 1) * SampleRate = SampleRate * t + SampleRate
  BY <1>1, ConstantsOfClock
<1>4. (t + 1) * SampleRate > r.start * SampleRate
  BY <1>1, <1>2, <1>3, ConstantsOfClock
<1>5. t + 1 > r.start
  <2> SUFFICES ASSUME t + 1 <= r.start PROVE FALSE
    BY <1>1
  <2>1. (t + 1) * SampleRate <= r.start * SampleRate
    BY <1>1, ConstantsOfClock, ProductGrows
  <2> QED BY <1>1, <1>3, <1>4, <2>1, ConstantsOfClock
<1> QED BY <1>1, <1>5 DEF t

\* Once a sample is in time, nothing of what follows is skipped.
LEMMA NothingMoreIsSkipped ==
  ASSUME ClockConstants, NEW r \in Sounds, NEW s \in Int, InTime(r, s), NEW first \in Int, s < first
  PROVE  Clock!SamplesToSkip(r, Clock!ToNsec(first)) = 0
<1>1. /\ Clock!ToNsec(s) >= r.start /\ Clock!ToNsec(s) < Clock!ToNsec(first)
      /\ Clock!ToNsec(s) \in Int /\ Clock!ToNsec(first) \in Int
  BY InTimeIsHeard, LaterIsLater, ToNsecRounds
<1> QED BY <1>1, SkipReachesTheStart DEF Sounds

\* What is not skipped is in time.
LEMMA UnskippedIsInTime ==
  ASSUME ClockConstants, NEW r \in Sounds, NEW first \in Int, NEW s \in Int,
         s >= first + Clock!SamplesToSkip(r, Clock!ToNsec(first))
  PROVE  InTime(r, s)
<1> DEFINE t == Clock!ToNsec(first)
           skip == Clock!SamplesToSkip(r, t)
<1>1. t \in Int /\ 2 * (SampleRate * t) <= 2 * (first * NsecPerSec) + SampleRate
  BY ToNsecRounds
<1>2. skip \in Nat /\ SampleRate * t + skip * NsecPerSec >= r.start * SampleRate
  BY <1>1, SkipReachesTheStart
<1> HIDE DEF t, skip
<1>3. s >= first + skip
  BY DEF t, skip
<1>4. (first + skip) * NsecPerSec <= s * NsecPerSec
  BY <1>2, <1>3, ConstantsOfClock, ProductGrows
<1>5. /\ (first + skip) * NsecPerSec = first * NsecPerSec + skip * NsecPerSec
      /\ first * NsecPerSec \in Int /\ skip * NsecPerSec \in Int /\ s * NsecPerSec \in Int
  BY <1>2, ConstantsOfClock, ProductOfSum
<1>6. SampleRate * t \in Int /\ r.start * SampleRate \in Int
  BY <1>1, ConstantsOfClock, SMTT(60) DEF Sounds
<1> QED BY <1>1, <1>2, <1>4, <1>5, <1>6, ConstantsOfClock DEF InTime

-----------------------------------------------------------------------------
(* A chunk                                                                 *)

\* The FIFO with what a chunk of n samples adds to it.
Heard(r, first, n) ==
  LET skip == Clock!SamplesToSkip(r, Clock!ToNsec(first))
  IN r.fifo \o [i \in 1..(n - skip) |-> first + skip + i - 1]

HasHeard(r) == r.fifo # <<>> \/ r.frames # <<>>

\* Head and last of a sequence.
LEMMA LastOf ==
  ASSUME NEW S, NEW s \in Seq(S), s # <<>>
  PROVE  Len(s) \in Nat /\ Len(s) >= 1 /\ Clock!Last(s) = s[Len(s)] /\ Clock!Last(s) \in S /\ Head(s) = s[1]
  BY DEF Clock!Last

\* Where the elements of a concatenation come from.
LEMMA Concatenated ==
  ASSUME NEW S, NEW s \in Seq(S), NEW t \in Seq(S)
  PROVE  /\ s \o t \in Seq(S) /\ Len(s \o t) = Len(s) + Len(t)
         /\ \A i \in Int : 1 <= i /\ i <= Len(s) => (s \o t)[i] = s[i]
         /\ \A i \in Int : Len(s) < i /\ i <= Len(s) + Len(t) => (s \o t)[i] = t[i - Len(s)]
OBVIOUS

\* The frame before a chunk ends with a sample that is in time.
LEMMA NewestIsKnown ==
  ASSUME ClockConstants, NEW r, NEW now \in Int, SoundKnown(r, now), r.frames # <<>>
  PROVE  /\ FrameKnown(r, Clock!Last(r.frames))
         /\ NewestSample(r) \in Int /\ NewestSample(r) < now /\ InTime(r, NewestSample(r))
         /\ Clock!Last(r.frames).samples # <<>>
         /\ NewestSample(r) = Clock!Last(r.frames).samples[FrameSize]
<1> DEFINE frame == Clock!Last(r.frames)
<1>1. r.frames \in Seq(SoundFrames) /\ r.fifo \in Seq(Int)
  BY DEF SoundKnown, Sounds
<1>2. Len(r.frames) >= 1 /\ Len(r.frames) \in Nat /\ frame = r.frames[Len(r.frames)]
  BY <1>1, LastOf
<1>3. FrameKnown(r, frame)
  BY <1>2 DEF SoundKnown, FramesKnown
<1> HIDE DEF frame
<1>4. frame.samples \in Seq(Int) /\ Len(frame.samples) = FrameSize
  BY <1>3 DEF FrameKnown, SoundFrames
<1>5. frame.samples # <<>>
  BY <1>4, ConstantsOfClock
<1>6. Clock!Last(frame.samples) = frame.samples[FrameSize] /\ Clock!Last(frame.samples) \in Int
  BY <1>4, <1>5, LastOf
<1>7. InTime(r, frame.samples[FrameSize])
  BY <1>3, <1>4, ConstantsOfClock DEF FrameKnown
<1>8. NewestSample(r) < now - Len(r.fifo)
  BY DEF SoundKnown, FramesKnown
<1>9. NewestSample(r) = Clock!Last(frame.samples)
  BY DEF NewestSample, frame
<1> QED BY <1>1, <1>3, <1>5, <1>6, <1>7, <1>8, <1>9 DEF frame

\* A recording that has heard something skips nothing any more.
LEMMA NothingIsSkippedLater ==
  ASSUME ClockConstants, NEW r, NEW first \in Int, SoundKnown(r, first), HasHeard(r)
  PROVE  Clock!SamplesToSkip(r, Clock!ToNsec(first)) = 0
<1>1. r \in Sounds /\ r.fifo \in Seq(Int)
  BY DEF SoundKnown, Sounds
<1>2. CASE r.fifo # <<>>
  <2> DEFINE s == r.fifo[Len(r.fifo)]
  <2>1. Len(r.fifo) \in 1..Len(r.fifo) /\ s \in Int
    BY <1>1, <1>2, LastOf
  <2>2. InTime(r, s) /\ s < first - (Len(r.fifo) - Len(r.fifo))
    BY <2>1 DEF SoundKnown, FifoKnown
  <2>3. s < first
    BY <1>1, <2>1, <2>2
  <2> QED BY <1>1, <2>1, <2>2, <2>3, NothingMoreIsSkipped
<1>3. CASE r.frames # <<>>
  BY <1>1, <1>3, NewestIsKnown, NothingMoreIsSkipped
<1> QED BY <1>2, <1>3 DEF HasHeard

\* The chunk goes on where the FIFO ends.
LEMMA ChunkIsHeard ==
  ASSUME ClockConstants, NEW r, NEW first \in Int, SoundKnown(r, first),
         NEW n \in 1..MaxChunk, Clock!SamplesToSkip(r, Clock!ToNsec(first)) <= n
  PROVE  LET skip == Clock!SamplesToSkip(r, Clock!ToNsec(first))
             w == Heard(r, first, n)
             len == Len(r.fifo)
         IN /\ w \in Seq(Int) /\ Len(w) = len + n - skip
            /\ \A i \in 1..len : w[i] = r.fifo[i]
            /\ \A i \in (len + 1)..Len(w) : w[i] = first + skip + i - len - 1
<1> DEFINE skip == Clock!SamplesToSkip(r, Clock!ToNsec(first))
           new == [i \in 1..(n - skip) |-> first + skip + i - 1]
<1>1. r \in Sounds /\ r.fifo \in Seq(Int) /\ skip \in Nat /\ skip <= n /\ n \in Nat
  BY SkipReachesTheStart, ToNsecRounds, ConstantsOfClock DEF SoundKnown, Sounds
<1>2. Heard(r, first, n) = r.fifo \o new
  BY DEF Heard
<1> HIDE DEF skip
<1>3. new \in Seq(Int) /\ Len(new) = n - skip
  BY <1>1
<1>4. \A i \in 1..(n - skip) : new[i] = first + skip + i - 1
  OBVIOUS
<1> HIDE DEF new
<1>5. r.fifo \o new \in Seq(Int) /\ Len(r.fifo \o new) = Len(r.fifo) + n - skip
  BY <1>1, <1>3, SMTT(60)
<1>6. \A i \in 1..Len(r.fifo) : (r.fifo \o new)[i] = r.fifo[i]
  BY <1>1, <1>3
<1>7. \A i \in (Len(r.fifo) + 1)..Len(r.fifo \o new) : (r.fifo \o new)[i] = first + skip + i - Len(r.fifo) - 1
  <2> TAKE i \in (Len(r.fifo) + 1)..Len(r.fifo \o new)
  <2>1. Len(r.fifo) \in Nat /\ i \in Int /\ i > Len(r.fifo) /\ i <= Len(r.fifo) + n - skip
    BY <1>1, <1>5
  <2> DEFINE j == i - Len(r.fifo)
  <2>2. j \in 1..(n - skip)
    BY <1>1, <2>1
  <2>3. (r.fifo \o new)[i] = new[j]
    BY <1>1, <1>3, <2>1
  <2>4. new[j] = first + skip + j - 1
    BY <1>4, <2>2
  <2> QED BY <1>1, <2>1, <2>3, <2>4
<1> QED BY <1>2, <1>5, <1>6, <1>7 DEF skip

\* What is heard is in time, and goes on without a gap.
LEMMA HeardIsKnown ==
  ASSUME ClockConstants, NEW r, NEW first \in Int, SoundKnown(r, first),
         NEW n \in 1..MaxChunk, Clock!SamplesToSkip(r, Clock!ToNsec(first)) <= n
  PROVE  LET w == Heard(r, first, n)
         IN /\ Clock!Consecutive(w)
            /\ \A i \in 1..Len(w) : InTime(r, w[i]) /\ w[i] < first + n - (Len(w) - i)
            /\ w # <<>> => w[Len(w)] = first + n - 1
            /\ r.frames # <<>> => w # <<>> /\ Clock!Joined(Clock!Last(r.frames).samples, w)
<1> DEFINE skip == Clock!SamplesToSkip(r, Clock!ToNsec(first))
           w == Heard(r, first, n)
           len == Len(r.fifo)
<1>1. /\ w \in Seq(Int) /\ Len(w) = len + n - skip
      /\ \A i \in 1..len : w[i] = r.fifo[i]
      /\ \A i \in (len + 1)..Len(w) : w[i] = first + skip + i - len - 1
  BY ChunkIsHeard
<1>2. /\ r \in Sounds /\ r.fifo \in Seq(Int) /\ skip \in Nat /\ skip <= n /\ n \in Nat /\ n >= 1
      /\ len \in Nat /\ Len(w) \in Nat
  <2>1. r \in Sounds /\ r.fifo \in Seq(Int) /\ len \in Nat
    BY DEF SoundKnown, Sounds
  <2>2. skip \in Nat
    BY <2>1, SkipReachesTheStart, ToNsecRounds
  <2>3. Len(w) \in Nat
    BY <1>1
  <2>4. n \in Nat /\ n >= 1
    BY ConstantsOfClock
  <2> QED BY <2>1, <2>2, <2>3, <2>4
<1>3. HasHeard(r) => skip = 0
  BY NothingIsSkippedLater
<1>4. /\ Clock!Consecutive(r.fifo)
      /\ \A i \in 1..len : InTime(r, r.fifo[i]) /\ r.fifo[i] < first - (len - i)
      /\ r.fifo # <<>> => Clock!NextHeard(r.fifo[len], first)
  BY DEF SoundKnown, FifoKnown
<1>5. \A s \in Int : s >= first + skip => InTime(r, s)
  BY <1>2, UnskippedIsInTime
<1> DEFINE total == Len(w)
<1> HIDE DEF skip, w, len, total
<1>0. /\ total \in Int /\ total = len + n - skip /\ Len(w) = total /\ Len(r.fifo) = len
      /\ \A i \in Int : 1 <= i /\ i <= len => w[i] = r.fifo[i] /\ r.fifo[i] \in Int
      /\ \A i \in Int : len < i /\ i <= total => w[i] = first + skip + i - len - 1
  <2>1. total \in Int /\ total = len + n - skip /\ Len(w) = total /\ Len(r.fifo) = len
    BY <1>1, <1>2 DEF total, len
  <2>2. ASSUME NEW i \in Int, 1 <= i, i <= len
        PROVE  w[i] = r.fifo[i] /\ r.fifo[i] \in Int
    <3>1. i \in 1..Len(r.fifo)
      BY <2>1, <2>2
    <3> QED BY <1>1, <1>2, <3>1 DEF len
  <2>3. ASSUME NEW i \in Int, len < i, i <= total
        PROVE  w[i] = first + skip + i - len - 1
    <3>1. i \in (len + 1)..Len(w)
      BY <1>2, <2>1, <2>3
    <3> QED BY <1>1, <3>1
  <2> QED BY <2>1, <2>2, <2>3
<1>6. len > 0 => skip = 0 /\ r.fifo # <<>>
  BY <1>2, <1>3 DEF HasHeard, len
<1>7. ASSUME NEW i \in 1..Len(w)
      PROVE  InTime(r, w[i]) /\ w[i] < first + n - (Len(w) - i)
  <2>1. CASE i <= len
    <3>1. i \in 1..len /\ skip = 0 /\ Len(w) = len + n
      BY <1>0, <1>2, <1>6, <2>1
    <3> QED BY <1>0, <1>2, <1>4, <3>1
  <2>2. CASE i > len
    <3>1. w[i] = first + skip + i - len - 1
      BY <1>0, <1>2, <2>2
    <3> QED BY <1>0, <1>2, <1>5, <2>2, <3>1
  <2> QED BY <1>2, <2>1, <2>2
<1>8. ASSUME NEW i \in 2..Len(w)
      PROVE  Clock!NextHeard(w[i - 1], w[i])
  <2>1. CASE i <= len
    BY <1>0, <1>2, <1>4, <2>1 DEF Clock!Consecutive
  <2>2. CASE i = len + 1
    <3>1. len > 0 /\ skip = 0 /\ r.fifo # <<>>
      BY <1>2, <1>6, <2>2
    <3>2. w[i] = first /\ w[i - 1] = r.fifo[len]
      BY <1>0, <1>2, <2>2, <3>1
    <3> QED BY <1>4, <3>1, <3>2
  <2>3. CASE i > len + 1
    <3>1. i \in Int /\ i - 1 > len /\ i <= total
      BY <1>0, <1>2, <2>3
    <3>2. w[i] = first + skip + i - len - 1 /\ w[i - 1] = first + skip + (i - 1) - len - 1
      BY <1>0, <1>2, <3>1
    <3>3. w[i] = w[i - 1] + 1 /\ w[i - 1] \in Int
      BY <1>2, <3>1, <3>2
    <3> QED BY <3>3 DEF Clock!NextHeard
  <2> QED BY <1>2, <2>1, <2>2, <2>3
<1>9. w # <<>> => w[Len(w)] = first + n - 1
  <2> HAVE w # <<>>
  <2>1. Len(w) >= 1 /\ Len(w) \in Nat
    BY <1>0, LastOf
  <2>2. Len(w) > len
    BY <1>0, <1>2, <1>6, <2>1
  <2> QED BY <1>0, <1>2, <2>1, <2>2
<1>10. ASSUME r.frames # <<>>
       PROVE  w # <<>> /\ Clock!Joined(Clock!Last(r.frames).samples, w)
  <2>1. skip = 0 /\ Len(w) = len + n
    BY <1>0, <1>1, <1>2, <1>3, <1>10 DEF HasHeard
  <2>2. w # <<>> /\ Head(w) = w[1] /\ Len(w) >= 1
    BY <1>0, <1>1, <1>2, <2>1, LastOf
  <2>3. /\ Clock!Joined(Clock!Last(r.frames).samples, r.fifo)
        /\ r.fifo = <<>> => Clock!NextHeard(NewestSample(r), first)
        /\ Clock!Last(r.frames).samples # <<>>
    BY <1>10, NewestIsKnown DEF SoundKnown, FramesKnown
  <2>4. CASE r.fifo = <<>>
    <3>1. len = 0
      BY <1>0, <2>4
    <3>2. w[1] = first + skip + 1 - len - 1
      BY <1>0, <1>2, <2>1, <2>2, <3>1
    <3>3. w[1] = first
      BY <1>2, <2>1, <3>1, <3>2
    <3> QED BY <2>2, <2>3, <2>4, <3>3 DEF Clock!Joined, NewestSample
  <2>5. CASE r.fifo # <<>>
    <3>1. len >= 1 /\ Head(r.fifo) = r.fifo[1]
      BY <1>2, <2>5, LastOf DEF len
    <3>2. w[1] = r.fifo[1]
      BY <1>0, <1>2, <3>1
    <3> QED BY <2>2, <2>3, <2>5, <3>1, <3>2 DEF Clock!Joined
  <2> QED BY <2>4, <2>5
<1>11. Clock!Consecutive(w)
  BY <1>8 DEF Clock!Consecutive
<1> QED BY <1>7, <1>9, <1>10, <1>11 DEF w

-----------------------------------------------------------------------------
(* The timestamps of its frames                                            *)

\* The error of a sum is the sum of the errors.
LEMMA ErrorsAddUp ==
  ASSUME NEW t1 \in Int, NEW t2 \in Int, NEW t3 \in Int, NEW t4 \in Int, NEW j \in Int,
         NEW a1 \in Int, NEW a2 \in Int, NEW a3 \in Int, NEW a4 \in Int, NEW s \in Int, NEW n \in Int
  PROVE  (t1 + t2 - t3 + j * t4) * s - (a1 + a2 - a3 + j * a4) * n
           = (s * t1 - a1 * n) + (s * t2 - a2 * n) - (s * t3 - a3 * n) + j * (s * t4 - a4 * n)
OBVIOUS

\* A sum of times, in samples.
LEMMA RateOfSum ==
  ASSUME NEW t \in Int, NEW u \in Int, NEW v \in Int, NEW w \in Int, NEW s \in Int
  PROVE  /\ s * (t + u - w - v) = s * t + s * u - s * v - w * s
         /\ s * t \in Int /\ s * u \in Int /\ s * v \in Int /\ w * s \in Int
OBVIOUS

\* Of j values that are at most half of s off, the sum is at most j halves of s off.
LEMMA BoundedProduct ==
  ASSUME NEW j \in Nat, NEW x \in Int, NEW s \in Int, -s <= 2 * x, 2 * x <= s
  PROVE  j * x \in Int /\ j * s \in Int /\ -(j * s) <= 2 * (j * x) /\ 2 * (j * x) <= j * s
<1>1. j * (s - 2 * x) >= 0 /\ j * (s + 2 * x) >= 0
  <2>1. s - 2 * x >= 0 /\ s + 2 * x >= 0
    OBVIOUS
  <2> QED BY <2>1
<1>2. j * (s - 2 * x) = j * s - 2 * (j * x) /\ j * (s + 2 * x) = j * s + 2 * (j * x)
  OBVIOUS
<1>3. j * x \in Int /\ j * s \in Int
  OBVIOUS
<1> QED BY <1>1, <1>2, <1>3

\* How far a time in nanoseconds is off.
OffBy(n) == SampleRate * Clock!ToNsec(n) - n * NsecPerSec

\* A time in nanoseconds is at most half a sample rate off.
LEMMA OffByHalf ==
  ASSUME ClockConstants, NEW n \in Int
  PROVE  OffBy(n) \in Int /\ -SampleRate <= 2 * OffBy(n) /\ 2 * OffBy(n) <= SampleRate
<1>1. /\ Clock!ToNsec(n) \in Int
      /\ 2 * (SampleRate * Clock!ToNsec(n)) <= 2 * (n * NsecPerSec) + SampleRate
      /\ 2 * (SampleRate * Clock!ToNsec(n)) > 2 * (n * NsecPerSec) - SampleRate
  BY ToNsecRounds
<1>2. SampleRate * Clock!ToNsec(n) \in Int /\ n * NsecPerSec \in Int
  BY <1>1, ConstantsOfClock
<1> QED BY <1>1, <1>2, ConstantsOfClock DEF OffBy

\* The k-th frame of the FIFO is off by a rounding for each of the three times it is made from, and for
\* each frame before it.
LEMMA FrameIsOnTime ==
  ASSUME ClockConstants, NEW start \in Int, NEW first \in Int, NEW skip \in Int, NEW len \in Int, NEW j \in Nat
  PROVE  LET pts == Clock!ToNsec(first) + Clock!ToNsec(skip) - start - Clock!ToNsec(len)
             error == (pts + j * Clock!ToNsec(FrameSize) + start) * SampleRate
                        - (first + skip - len + j * FrameSize) * NsecPerSec
         IN /\ pts \in Int /\ error \in Int /\ j * SampleRate \in Int
            /\ -(3 * SampleRate + j * SampleRate) <= 2 * error
            /\ 2 * error <= 3 * SampleRate + j * SampleRate
<1> DEFINE pts == Clock!ToNsec(first) + Clock!ToNsec(skip) - start - Clock!ToNsec(len)
           error == (pts + j * Clock!ToNsec(FrameSize) + start) * SampleRate
                      - (first + skip - len + j * FrameSize) * NsecPerSec
<1>1. /\ Clock!ToNsec(first) \in Int /\ Clock!ToNsec(skip) \in Int
      /\ Clock!ToNsec(len) \in Int /\ Clock!ToNsec(FrameSize) \in Int
      /\ FrameSize \in Int /\ SampleRate \in Int /\ NsecPerSec \in Int
  BY ConstantsOfClock, ToNsecRounds
<1>2. pts \in Int
  BY <1>1
<1>3. pts + j * Clock!ToNsec(FrameSize) + start
        = Clock!ToNsec(first) + Clock!ToNsec(skip) - Clock!ToNsec(len) + j * Clock!ToNsec(FrameSize)
  <2>1. j * Clock!ToNsec(FrameSize) \in Int
    BY <1>1
  <2> QED BY <1>1, <2>1
<1>4. error = OffBy(first) + OffBy(skip) - OffBy(len) + j * OffBy(FrameSize)
  BY <1>1, <1>3, ErrorsAddUp DEF OffBy
<1> HIDE DEF error, pts
<1>5. /\ OffBy(first) \in Int /\ -SampleRate <= 2 * OffBy(first) /\ 2 * OffBy(first) <= SampleRate
      /\ OffBy(skip) \in Int /\ -SampleRate <= 2 * OffBy(skip) /\ 2 * OffBy(skip) <= SampleRate
      /\ OffBy(len) \in Int /\ -SampleRate <= 2 * OffBy(len) /\ 2 * OffBy(len) <= SampleRate
      /\ OffBy(FrameSize) \in Int /\ -SampleRate <= 2 * OffBy(FrameSize) /\ 2 * OffBy(FrameSize) <= SampleRate
  BY <1>1, OffByHalf
<1>6. /\ j * OffBy(FrameSize) \in Int /\ j * SampleRate \in Int
      /\ -(j * SampleRate) <= 2 * (j * OffBy(FrameSize)) /\ 2 * (j * OffBy(FrameSize)) <= j * SampleRate
  BY <1>1, <1>5, BoundedProduct
<1>7. /\ error \in Int /\ -(3 * SampleRate + j * SampleRate) <= 2 * error
      /\ 2 * error <= 3 * SampleRate + j * SampleRate
  BY <1>1, <1>4, <1>5, <1>6
<1> QED BY <1>2, <1>6, <1>7 DEF error, pts

\* Every frame of the FIFO takes time.
LEMMA FramesTakeTime ==
  ASSUME ClockConstants
  PROVE  Clock!ToNsec(FrameSize) \in Int /\ Clock!ToNsec(FrameSize) >= 1
<1>1. Clock!ToNsec(0) < Clock!ToNsec(FrameSize) /\ Clock!ToNsec(FrameSize) \in Int
  BY ConstantsOfClock, LaterIsLater, ToNsecRounds
<1> QED BY <1>1, ToNsecOfNone

\* The frames of a chunk that is heard.
FirstPts(r, first) == Clock!PtsFifoStart(r, Clock!ToNsec(first))

\* No frame is from before the start.
LEMMA FirstPtsIsAfterStart ==
  ASSUME ClockConstants, NEW r, NEW first \in Int, SoundKnown(r, first)
  PROVE  FirstPts(r, first) \in Int /\ FirstPts(r, first) >= -1
<1> DEFINE t == Clock!ToNsec(first)
           skip == Clock!SamplesToSkip(r, t)
           u == Clock!ToNsec(skip)
           len == Len(r.fifo)
           v == Clock!ToNsec(len)
           pts == FirstPts(r, first)
<1>1. r \in Sounds /\ r.fifo \in Seq(Int) /\ r.start \in Int /\ len \in Nat
  BY DEF SoundKnown, Sounds
<1>2. t \in Int /\ skip \in Nat /\ SampleRate * t + skip * NsecPerSec >= r.start * SampleRate
  BY <1>1, ToNsecRounds, SkipReachesTheStart
<1>3. pts = t + u - r.start - v
  BY DEF FirstPts, Clock!PtsFifoStart
<1>4. HasHeard(r) => skip = 0
  BY NothingIsSkippedLater
<1>5. \A i \in 1..Len(r.fifo) : InTime(r, r.fifo[i]) /\ r.fifo[i] < first - (len - i)
  BY DEF SoundKnown, FifoKnown
<1>6. u \in Int /\ v \in Int /\ 2 * (SampleRate * u) > 2 * (skip * NsecPerSec) - SampleRate
      /\ 2 * (SampleRate * v) <= 2 * (len * NsecPerSec) + SampleRate
      /\ 2 * (SampleRate * t) > 2 * (first * NsecPerSec) - SampleRate
  <2>1. u \in Int /\ 2 * (SampleRate * u) > 2 * (skip * NsecPerSec) - SampleRate
    BY <1>2, ToNsecRounds
  <2>2. v \in Int /\ 2 * (SampleRate * v) <= 2 * (len * NsecPerSec) + SampleRate
    <3>1. len \in Int
      BY <1>1
    <3> HIDE DEF len
    <3> QED BY <3>1, ToNsecRounds
  <2>3. 2 * (SampleRate * t) > 2 * (first * NsecPerSec) - SampleRate
    BY ToNsecRounds
  <2> QED BY <2>1, <2>2, <2>3
<1>7. (skip = 0 => u = 0) /\ (len = 0 => v = 0)
  BY ToNsecOfNone
<1>8. HasHeard(r) \/ len = 0
  BY <1>1 DEF HasHeard
<1> HIDE DEF t, skip, u, v, pts, len
<1>0. SampleRate \in Int /\ SampleRate >= 1 /\ NsecPerSec \in Int /\ NsecPerSec >= 0
  BY ConstantsOfClock
<1>9. pts \in Int
  BY <1>1, <1>2, <1>3, <1>6
<1>10. /\ SampleRate * pts = SampleRate * t + SampleRate * u - SampleRate * v - r.start * SampleRate
       /\ SampleRate * t \in Int /\ SampleRate * u \in Int /\ SampleRate * v \in Int /\ r.start * SampleRate \in Int
  BY <1>0, <1>1, <1>2, <1>3, <1>6, RateOfSum, SMTT(60)
<1>11. SampleRate * pts \in Int /\ skip * NsecPerSec \in Int /\ first * NsecPerSec \in Int /\ len * NsecPerSec \in Int
  BY <1>0, <1>1, <1>2, <1>9
<1>12. 2 * (SampleRate * pts) > -(3 * SampleRate)
  <2>1. CASE len = 0
    <3>1. SampleRate * v = 0
      BY <1>0, <1>7, <2>1
    <3> QED BY <1>0, <1>2, <1>6, <1>10, <1>11, <3>1
  <2>2. CASE len # 0
    <3>1. skip = 0 /\ len >= 1
      BY <1>1, <1>4, <1>8, <2>2
    <3>2. SampleRate * u = 0
      BY <1>0, <1>7, <3>1
    <3> DEFINE f == r.fifo[1]
    <3>3. f \in Int /\ InTime(r, f) /\ f < first - (len - 1)
      <4>1. 1 \in 1..Len(r.fifo)
        BY <1>1, <3>1 DEF len
      <4> QED BY <1>1, <1>5, <4>1
    <3> HIDE DEF f
    <3>4. f * NsecPerSec <= (first - len) * NsecPerSec /\ f * NsecPerSec \in Int
      <4>1. f <= first - len /\ first - len \in Int
        BY <1>1, <3>3
      <4> QED BY <1>0, <3>3, <4>1, ProductGrows
    <3>5. (first - len) * NsecPerSec = first * NsecPerSec - len * NsecPerSec
      BY <1>0, <1>1, ProductOfSum
    <3>6. 2 * (f * NsecPerSec) + SampleRate >= 2 * (r.start * SampleRate)
      BY <3>3 DEF InTime
    <3> QED BY <1>0, <1>6, <1>10, <1>11, <3>2, <3>4, <3>5, <3>6
  <2> QED BY <2>1, <2>2
<1>13. pts >= -1
  <2> SUFFICES ASSUME pts <= -2 PROVE FALSE
    BY <1>9
  <2>1. pts * SampleRate <= (-2) * SampleRate
    BY <1>9, ConstantsOfClock, ProductGrows
  <2>2. pts * SampleRate = SampleRate * pts
    BY <1>9, ConstantsOfClock
  <2> QED BY <1>11, <1>12, <2>1, <2>2, ConstantsOfClock
<1> QED BY <1>9, <1>13 DEF pts

-----------------------------------------------------------------------------
(* The frames of a chunk                                                   *)

\* As many whole frames as there are fit, and less than a frame is left over.
LEMMA WholeFrames ==
  ASSUME ClockConstants, NEW len \in Nat
  PROVE  LET q == len \div FrameSize
         IN /\ q \in Nat /\ q * FrameSize \in Nat /\ q * FrameSize <= len /\ len - q * FrameSize < FrameSize
            /\ \A k \in 1..q : /\ (k - 1) * FrameSize \in Nat /\ k * FrameSize = (k - 1) * FrameSize + FrameSize
                               /\ k * FrameSize <= q * FrameSize
<1> DEFINE q == len \div FrameSize
           rest == len % FrameSize
<1>1. FrameSize \in Nat /\ FrameSize > 0
  BY ConstantsOfClock
<1>2. q \in Int /\ len = FrameSize * q + rest /\ rest \in 0..(FrameSize - 1)
  BY <1>1, QuotientAndRest
<1> HIDE DEF q, rest
<1>3. q * FrameSize = FrameSize * q /\ q * FrameSize \in Int
  BY <1>1, <1>2
<1>4. q * FrameSize <= len /\ len - q * FrameSize < FrameSize
  BY <1>1, <1>2, <1>3
<1>5. q >= 0
  <2> SUFFICES ASSUME q <= -1 PROVE FALSE
    BY <1>2
  <2>1. q * FrameSize <= (-1) * FrameSize
    BY <1>1, <1>2, ProductGrows
  <2> QED BY <1>1, <1>3, <1>4, <2>1
<1>6. 0 * FrameSize <= q * FrameSize /\ 0 * FrameSize = 0
  BY <1>1, <1>2, <1>5, ProductGrows
<1>7. ASSUME NEW k \in 1..q
      PROVE  /\ (k - 1) * FrameSize \in Nat /\ k * FrameSize = (k - 1) * FrameSize + FrameSize
             /\ k * FrameSize <= q * FrameSize
  <2>1. k \in Int /\ k - 1 >= 0 /\ k <= q
    BY <1>2
  <2>2. k * FrameSize <= q * FrameSize
    BY <1>1, <1>2, <2>1, ProductGrows
  <2>3. 0 * FrameSize <= (k - 1) * FrameSize /\ (k - 1) * FrameSize \in Int
    BY <1>1, <2>1, ProductGrows
  <2>4. (k - 1) * FrameSize = k * FrameSize - 1 * FrameSize /\ k * FrameSize \in Int
    BY <1>1, <2>1, ProductOfSum
  <2> QED BY <1>1, <1>6, <2>2, <2>3, <2>4
<1> QED BY <1>2, <1>3, <1>4, <1>5, <1>6, <1>7 DEF q

\* The elements of a part of a sequence.
LEMMA PartOf ==
  ASSUME NEW S, NEW s \in Seq(S), NEW a \in Nat, NEW b \in Nat, a <= b, b <= Len(s)
  PROVE  LET p == SubSeq(s, a + 1, b)
         IN p \in Seq(S) /\ Len(p) = b - a /\ \A i \in 1..(b - a) : p[i] = s[a + i]
OBVIOUS

\* A part of consecutive samples is consecutive.
LEMMA PartIsConsecutive ==
  ASSUME NEW s \in Seq(Int), Clock!Consecutive(s), NEW a \in Nat, NEW b \in Nat, a <= b, b <= Len(s)
  PROVE  Clock!Consecutive(SubSeq(s, a + 1, b))
<1> DEFINE p == SubSeq(s, a + 1, b)
<1>1. Len(p) = b - a /\ \A i \in 1..(b - a) : p[i] = s[a + i]
  BY PartOf
<1> HIDE DEF p
<1>2. ASSUME NEW i \in 2..Len(p)
      PROVE  Clock!NextHeard(p[i - 1], p[i])
  <2>1. p[i] = s[a + i] /\ p[i - 1] = s[(a + i) - 1]
    <3>1. i \in 1..(b - a) /\ i - 1 \in 1..(b - a) /\ a + (i - 1) = (a + i) - 1
      BY <1>1
    <3> HIDE DEF p
    <3> QED BY <1>1, <3>1
  <2>2. a + i \in 2..Len(s)
    BY <1>1
  <2>3. Clock!NextHeard(s[(a + i) - 1], s[a + i])
    BY <2>2 DEF Clock!Consecutive
  <2> QED BY <2>1, <2>3
<1> QED BY <1>2 DEF Clock!Consecutive, p

\* No chunk has more frames than there are roundings for.
LEMMA FramesAreFew ==
  ASSUME ClockConstants, NEW k \in Int, NEW len \in Int, len < FrameSize, k * FrameSize <= len + MaxChunk
  PROVE  /\ MaxChunk \div FrameSize \in Int /\ k - 1 <= MaxChunk \div FrameSize
         /\ MaxChunk \div FrameSize >= 0
<1> DEFINE m == MaxChunk \div FrameSize
           rest == MaxChunk % FrameSize
<1>1. FrameSize \in Nat /\ FrameSize > 0 /\ MaxChunk \in Int /\ MaxChunk >= 1
  BY ConstantsOfClock
<1>2. m \in Int /\ MaxChunk = FrameSize * m + rest /\ rest \in 0..(FrameSize - 1)
  BY <1>1, QuotientAndRest
<1> HIDE DEF m, rest
<1>3. (m + 2) * FrameSize = FrameSize * m + 2 * FrameSize /\ FrameSize * m \in Int /\ k * FrameSize \in Int
  BY <1>1, <1>2
<1>4. k * FrameSize < (m + 2) * FrameSize
  BY <1>1, <1>2, <1>3
<1>5. k < m + 2
  <2> SUFFICES ASSUME m + 2 <= k PROVE FALSE
    BY <1>2
  <2>1. (m + 2) * FrameSize <= k * FrameSize
    BY <1>1, <1>2, ProductGrows
  <2> QED BY <1>1, <1>2, <1>3, <1>4, <2>1
<1>6. m >= 0
  <2> SUFFICES ASSUME m <= -1 PROVE FALSE
    BY <1>2
  <2>1. m * FrameSize <= (-1) * FrameSize /\ m * FrameSize = FrameSize * m
    BY <1>1, <1>2, ProductGrows
  <2> QED BY <1>1, <1>2, <1>3, <2>1
<1> QED BY <1>2, <1>5, <1>6 DEF m

\* A frame of a chunk has no more roundings than Roundings allows for.
LEMMA RoundingsOfFrame ==
  ASSUME ClockConstants, NEW j \in Nat, j <= MaxChunk \div FrameSize, MaxChunk \div FrameSize \in Int
  PROVE  /\ SampleRate * Clock!Roundings \in Int
         /\ 3 * SampleRate + j * SampleRate <= SampleRate * Clock!Roundings
<1> DEFINE m == MaxChunk \div FrameSize
<1>1. m \in Int /\ j <= m /\ Clock!Roundings = 3 + m
  BY DEF Clock!Roundings
<1> HIDE DEF m
<1>2. j * SampleRate <= m * SampleRate /\ m * SampleRate \in Int /\ j * SampleRate \in Int
  BY <1>1, ConstantsOfClock, ProductGrows
<1>3. SampleRate * Clock!Roundings = 3 * SampleRate + m * SampleRate
  BY <1>1, ConstantsOfClock
<1> QED BY <1>2, <1>3, ConstantsOfClock

\* What the lemmas below assume of a chunk that is heard.
IsHeard(r, first, n) ==
  /\ SoundKnown(r, first) /\ first \in Int /\ n \in 1..MaxChunk
  /\ Clock!SamplesToSkip(r, Clock!ToNsec(first)) <= n

FramesHeard(r, first, n) == Clock!FramesOf(Heard(r, first, n), FirstPts(r, first))

\* Frame number k of these samples.
IsFrame(frame, k, w, start) ==
  LET a == (k - 1) * FrameSize
  IN /\ a \in Nat /\ k * FrameSize = a + FrameSize /\ a + FrameSize <= Len(w)
     /\ frame \in SoundFrames /\ frame.samples \in Seq(Int)
     /\ frame.pts = start + (k - 1) * Clock!ToNsec(FrameSize)
     /\ frame.samples = SubSeq(w, a + 1, a + FrameSize)
     /\ Len(frame.samples) = FrameSize
     /\ \A i \in 1..FrameSize : frame.samples[i] = w[a + i]

\* Those of what is heard.
LEMMA FrameHeard ==
  ASSUME ClockConstants, NEW r, NEW first, NEW n, IsHeard(r, first, n)
  PROVE  LET w == Heard(r, first, n)
             frames == FramesHeard(r, first, n)
         IN /\ w \in Seq(Int) /\ frames \in Seq(SoundFrames) /\ Len(frames) = Len(w) \div FrameSize
            /\ \A k \in 1..Len(frames) : IsFrame(frames[k], k, w, FirstPts(r, first))
<1> DEFINE w == Heard(r, first, n)
           frames == FramesHeard(r, first, n)
           q == Len(w) \div FrameSize
           start == FirstPts(r, first)
           f(k) == [pts |-> start + (k - 1) * Clock!ToNsec(FrameSize),
                    samples |-> SubSeq(w, (k - 1) * FrameSize + 1, k * FrameSize)]
<1>1. w \in Seq(Int) /\ start \in Int /\ Clock!ToNsec(FrameSize) \in Int /\ FrameSize \in Nat
  BY ChunkIsHeard, FirstPtsIsAfterStart, FramesTakeTime, ConstantsOfClock DEF IsHeard
<1>2. frames = [k \in 1..q |-> f(k)]
  BY DEF FramesHeard, Clock!FramesOf, Clock!FramePts
<1> HIDE DEF w, frames, start
<1>3. /\ q \in Nat /\ q * FrameSize <= Len(w)
      /\ \A k \in 1..q : /\ (k - 1) * FrameSize \in Nat /\ k * FrameSize = (k - 1) * FrameSize + FrameSize
                         /\ k * FrameSize <= q * FrameSize
  BY <1>1, WholeFrames
<1> HIDE DEF q
<1>4. ASSUME NEW k \in 1..q
      PROVE  /\ (k - 1) * FrameSize \in Nat /\ k * FrameSize = (k - 1) * FrameSize + FrameSize
             /\ k * FrameSize <= Len(w)
             /\ f(k) \in SoundFrames
             /\ Len(f(k).samples) = FrameSize
             /\ \A i \in 1..FrameSize : f(k).samples[i] = w[(k - 1) * FrameSize + i]
  <2> DEFINE a == (k - 1) * FrameSize
             b == k * FrameSize
  <2>1. a \in Nat /\ b = a + FrameSize /\ b \in Nat /\ b <= Len(w)
    <3>1. a \in Nat /\ b = a + FrameSize /\ b <= q * FrameSize
      BY <1>3
    <3> HIDE DEF a, b
    <3>2. q * FrameSize \in Int /\ Len(w) \in Nat
      BY <1>1, <1>3
    <3> QED BY <1>1, <1>3, <3>1, <3>2
  <2>2. f(k) = [pts |-> start + (k - 1) * Clock!ToNsec(FrameSize), samples |-> SubSeq(w, a + 1, b)]
    OBVIOUS
  <2> HIDE DEF a, b, f
  <2>3. SubSeq(w, a + 1, b) \in Seq(Int) /\ Len(SubSeq(w, a + 1, b)) = FrameSize
        /\ \A i \in 1..FrameSize : SubSeq(w, a + 1, b)[i] = w[a + i]
    <3>1. a <= b /\ b - a = FrameSize
      BY <1>1, <2>1
    <3> QED BY <1>1, <2>1, <3>1, PartOf
  <2>4. start + (k - 1) * Clock!ToNsec(FrameSize) \in Int
    <3>1. k - 1 \in Int
      BY <1>3
    <3> QED BY <1>1, <3>1
  <2>5. f(k) \in SoundFrames /\ f(k).samples = SubSeq(w, a + 1, b)
    BY <2>2, <2>3, <2>4, SMTT(60) DEF SoundFrames
  <2>6. a = (k - 1) * FrameSize /\ b = k * FrameSize
    BY DEF a, b
  <2> QED BY <2>1, <2>3, <2>5, <2>6
<1>5. ASSUME NEW k \in 1..q
      PROVE  f(k) \in SoundFrames /\ IsFrame(f(k), k, w, start)
  <2>1. f(k).samples \in Seq(Int)
    BY <1>4 DEF SoundFrames
  <2>2. /\ f(k).pts = start + (k - 1) * Clock!ToNsec(FrameSize)
        /\ f(k).samples = SubSeq(w, (k - 1) * FrameSize + 1, k * FrameSize)
    OBVIOUS
  <2> HIDE DEF f
  <2>3. k * FrameSize = (k - 1) * FrameSize + FrameSize
    BY <1>4
  <2> QED BY <1>4, <2>1, <2>2, <2>3, Zenon DEF IsFrame
<1> HIDE DEF f
<1>6. frames \in Seq(SoundFrames) /\ Len(frames) = q /\ \A k \in 1..q : frames[k] = f(k)
  <2>1. frames \in [1..q -> SoundFrames] /\ \A k \in 1..q : frames[k] = f(k)
    BY <1>2, <1>5
  <2> QED BY <1>3, <2>1, SeqDef
<1>7. \A k \in 1..Len(frames) : IsFrame(frames[k], k, w, start)
  BY <1>5, <1>6
<1> QED BY <1>1, <1>6, <1>7 DEF w, frames, q, start

\* A frame that a chunk completes is on time, consecutive and not from before the start.
LEMMA FrameHeardIsKnown ==
  ASSUME ClockConstants, NEW r, NEW first, NEW n, IsHeard(r, first, n),
         NEW k \in 1..Len(FramesHeard(r, first, n))
  PROVE  /\ FrameKnown(r, FramesHeard(r, first, n)[k])
         /\ k = 1 => 2 * Clock!Error(r, FramesHeard(r, first, n)[k]) >= -(3 * SampleRate)
<1> DEFINE w == Heard(r, first, n)
           frames == FramesHeard(r, first, n)
           frame == frames[k]
           j == k - 1
           a == j * FrameSize
           skip == Clock!SamplesToSkip(r, Clock!ToNsec(first))
           len == Len(r.fifo)
<1>1. w \in Seq(Int) /\ IsFrame(frame, k, w, FirstPts(r, first))
  BY FrameHeard
<1>2. /\ Len(w) = len + n - skip
      /\ \A i \in (len + 1)..Len(w) : w[i] = first + skip + i - len - 1
      /\ Clock!Consecutive(w)
      /\ \A i \in 1..Len(w) : InTime(r, w[i])
  BY ChunkIsHeard, HeardIsKnown DEF IsHeard
<1>3. /\ r \in Sounds /\ r.start \in Int /\ len \in Nat /\ len < FrameSize
      /\ skip \in Nat /\ first \in Int /\ n \in Nat /\ n <= MaxChunk
  <2>1. r \in Sounds /\ r.start \in Int /\ len \in Nat /\ len < FrameSize
    BY DEF IsHeard, SoundKnown, FifoKnown, Sounds
  <2>2. skip \in Nat
    BY <2>1, SkipReachesTheStart, ToNsecRounds DEF IsHeard
  <2> QED BY <2>1, <2>2, ConstantsOfClock DEF IsHeard
<1>4. FirstPts(r, first) = Clock!ToNsec(first) + Clock!ToNsec(skip) - r.start - Clock!ToNsec(len)
  BY DEF FirstPts, Clock!PtsFifoStart
<1>5. FirstPts(r, first) \in Int /\ FirstPts(r, first) >= -1
  BY FirstPtsIsAfterStart DEF IsHeard
<1> HIDE DEF w, frames, skip, len
<1>6. j \in Nat /\ FrameSize \in Nat /\ FrameSize >= 1 /\ k \in Int
  <2>1. Len(FramesHeard(r, first, n)) \in Nat
    BY FrameHeard
  <2>2. k \in Int /\ j \in Nat
    BY <2>1
  <2> QED BY <2>2, ConstantsOfClock
<1>7. /\ a \in Nat /\ k * FrameSize = a + FrameSize /\ a + FrameSize <= Len(w)
      /\ frame.pts = FirstPts(r, first) + j * Clock!ToNsec(FrameSize)
      /\ frame.samples = SubSeq(w, a + 1, a + FrameSize)
      /\ frame.samples \in Seq(Int) /\ Len(frame.samples) = FrameSize
      /\ \A m \in 1..FrameSize : frame.samples[m] = w[a + m]
      /\ frame \in SoundFrames
  BY <1>1, Zenon DEF IsFrame
<1>8. Len(w) \in Nat
  BY <1>1
<1> HIDE DEF frame, j, a
<1>9. Clock!ToNsec(FrameSize) \in Int /\ Clock!ToNsec(FrameSize) >= 1
  BY FramesTakeTime
<1>10. j * Clock!ToNsec(FrameSize) \in Nat
  BY <1>6, <1>9
<1>11. frame.pts >= -1 /\ frame.pts \in Int
  <2> DEFINE p == FirstPts(r, first)
             t == j * Clock!ToNsec(FrameSize)
  <2>1. frame.pts = p + t /\ p \in Int /\ p >= -1 /\ t \in Nat
    BY <1>5, <1>7, <1>10
  <2> HIDE DEF p, t
  <2> QED BY <2>1
<1>12. Clock!Consecutive(frame.samples)
  <2>1. a + FrameSize \in Nat /\ a <= a + FrameSize
    BY <1>6, <1>7
  <2>2. Clock!Consecutive(SubSeq(w, a + 1, a + FrameSize))
    BY <1>1, <1>2, <1>7, <2>1, PartIsConsecutive
  <2> QED BY <1>7, <2>2, Zenon
<1>13. \A i \in 1..Len(frame.samples) : InTime(r, frame.samples[i])
  <2> TAKE i \in 1..Len(frame.samples)
  <2> DEFINE total == Len(w)
  <2>0. total \in Nat /\ a \in Nat /\ a + FrameSize <= total /\ Len(frame.samples) = FrameSize
    BY <1>7, <1>8
  <2> HIDE DEF total
  <2>1. i \in 1..FrameSize /\ a + i \in 1..total
    BY <1>6, <2>0
  <2> QED BY <1>2, <1>7, <2>1 DEF total
<1>14. Clock!Last(frame.samples) = first + skip + a + FrameSize - len - 1
  <2>1. frame.samples # <<>>
    <3>1. Len(frame.samples) >= 1
      BY <1>6, <1>7
    <3>2. Len(<<>>) = 0
      OBVIOUS
    <3> QED BY <3>1, <3>2, SMTT(60)
  <2>2. Clock!Last(frame.samples) = frame.samples[FrameSize]
    BY <1>7, <2>1, LastOf
  <2>3. frame.samples[FrameSize] = w[a + FrameSize]
    BY <1>6, <1>7
  <2>4. a + FrameSize \in (len + 1)..Len(w)
    BY <1>3, <1>6, <1>7, <1>8
  <2>5. w[a + FrameSize] = first + skip + (a + FrameSize) - len - 1
    BY <1>2, <2>4
  <2>6. a \in Nat
    BY <1>7
  <2> QED BY <1>3, <1>6, <2>2, <2>3, <2>5, <2>6
<1>15. Clock!Error(r, frame) = (FirstPts(r, first) + j * Clock!ToNsec(FrameSize) + r.start) * SampleRate
                           - (first + skip - len + j * FrameSize) * NsecPerSec
  <2>1. Clock!Last(frame.samples) - FrameSize + 1 = first + skip - len + a
    BY <1>3, <1>6, <1>7, <1>14
  <2>2. a = j * FrameSize
    BY DEF a
  <2> QED BY <1>7, <2>1, <2>2 DEF Clock!Error
<1>16. /\ Clock!Error(r, frame) \in Int /\ j * SampleRate \in Int
       /\ -(3 * SampleRate + j * SampleRate) <= 2 * Clock!Error(r, frame)
       /\ 2 * Clock!Error(r, frame) <= 3 * SampleRate + j * SampleRate
  <2> DEFINE pts == Clock!ToNsec(first) + Clock!ToNsec(skip) - r.start - Clock!ToNsec(len)
             error == (pts + j * Clock!ToNsec(FrameSize) + r.start) * SampleRate
                        - (first + skip - len + j * FrameSize) * NsecPerSec
  <2>1. /\ error \in Int /\ j * SampleRate \in Int
        /\ -(3 * SampleRate + j * SampleRate) <= 2 * error
        /\ 2 * error <= 3 * SampleRate + j * SampleRate
    <3>1. len \in Int /\ skip \in Int /\ first \in Int /\ r.start \in Int
      BY <1>3
    <3> QED BY <1>6, <3>1, FrameIsOnTime
  <2>2. Clock!Error(r, frame) = error
    BY <1>4, <1>15
  <2> HIDE DEF error
  <2> QED BY <2>1, <2>2
<1>17. /\ SampleRate * Clock!Roundings \in Int
       /\ 3 * SampleRate + j * SampleRate <= SampleRate * Clock!Roundings
  <2>1. k \in Int /\ k * FrameSize <= len + MaxChunk
    <3> DEFINE total == Len(w)
    <3>1. total = len + n - skip /\ a \in Nat /\ a + FrameSize <= total /\ k * FrameSize = a + FrameSize
      BY <1>2, <1>7
    <3> HIDE DEF total
    <3> QED BY <1>3, <1>6, <3>1, ConstantsOfClock
  <2>2. MaxChunk \div FrameSize \in Int /\ k - 1 <= MaxChunk \div FrameSize
    BY <1>3, <2>1, FramesAreFew
  <2> QED BY <1>6, <2>2, RoundingsOfFrame DEF j
<1>18. 2 * Clock!Error(r, frame) \in (-(SampleRate * Clock!Roundings))..(SampleRate * Clock!Roundings)
  BY <1>16, <1>17, ConstantsOfClock, SMTT(60)
<1>19. FrameKnown(r, frame)
  BY <1>7, <1>11, <1>12, <1>13, <1>18 DEF FrameKnown
<1>20. k = 1 => 2 * Clock!Error(r, frame) >= -(3 * SampleRate)
  <2> HAVE k = 1
  <2>1. j * SampleRate = 0
    BY ConstantsOfClock DEF j
  <2> QED BY <1>16, <2>1, ConstantsOfClock
<1> QED BY <1>19, <1>20 DEF frame, frames

\* From one frame to the next time passes, and nothing is left out.
LEMMA FramesFollow ==
  ASSUME ClockConstants, NEW r, NEW first, NEW n, IsHeard(r, first, n),
         NEW k \in 2..Len(FramesHeard(r, first, n))
  PROVE  LET frames == FramesHeard(r, first, n)
         IN /\ frames[k - 1].pts < frames[k].pts
            /\ Clock!Joined(frames[k - 1].samples, frames[k].samples)
<1> DEFINE w == Heard(r, first, n)
           frames == FramesHeard(r, first, n)
           start == FirstPts(r, first)
           a == (k - 1) * FrameSize
           t == Clock!ToNsec(FrameSize)
<1>1. k \in Int /\ k >= 2 /\ k - 1 \in 1..Len(frames) /\ k \in 1..Len(frames)
  <2>1. Len(frames) \in Nat
    BY FrameHeard
  <2> HIDE DEF frames
  <2> QED BY <2>1 DEF frames
<1>2. w \in Seq(Int) /\ IsFrame(frames[k], k, w, start) /\ IsFrame(frames[k - 1], k - 1, w, start)
  BY <1>1, FrameHeard
<1>3. start \in Int /\ t \in Int /\ t >= 1 /\ FrameSize \in Nat /\ FrameSize >= 1
  BY FirstPtsIsAfterStart, FramesTakeTime, ConstantsOfClock DEF IsHeard
<1>4. Clock!Consecutive(w)
  BY HeardIsKnown DEF IsHeard
<1> HIDE DEF w, frames, start, t
<1>5. /\ a \in Nat /\ a + FrameSize <= Len(w) /\ frames[k].pts = start + (k - 1) * t
      /\ frames[k].samples \in Seq(Int) /\ Len(frames[k].samples) = FrameSize
      /\ \A i \in 1..FrameSize : frames[k].samples[i] = w[a + i]
  BY <1>2, Zenon DEF IsFrame, t
<1>6. /\ (k - 1) * FrameSize = ((k - 1) - 1) * FrameSize + FrameSize
      /\ ((k - 1) - 1) * FrameSize \in Nat
      /\ frames[k - 1].pts = start + ((k - 1) - 1) * t
      /\ frames[k - 1].samples \in Seq(Int) /\ Len(frames[k - 1].samples) = FrameSize
      /\ \A i \in 1..FrameSize : frames[k - 1].samples[i] = w[((k - 1) - 1) * FrameSize + i]
  BY <1>2, Zenon DEF IsFrame, t
<1>7. frames[k - 1].pts < frames[k].pts
  <2>1. (k - 1) * t = ((k - 1) - 1) * t + t /\ ((k - 1) - 1) * t \in Int
    BY <1>1, <1>3
  <2> DEFINE u == ((k - 1) - 1) * t
  <2>2. u \in Int /\ frames[k].pts = start + (u + t) /\ frames[k - 1].pts = start + u
    BY <1>5, <1>6, <2>1
  <2> HIDE DEF u
  <2> QED BY <1>3, <2>2
<1>8. Clock!Last(frames[k - 1].samples) = w[a]
  <2>1. frames[k - 1].samples # <<>>
    BY <1>3, <1>6
  <2>2. Clock!Last(frames[k - 1].samples) = frames[k - 1].samples[FrameSize]
    BY <1>6, <2>1, LastOf
  <2>3. frames[k - 1].samples[FrameSize] = w[((k - 1) - 1) * FrameSize + FrameSize]
    BY <1>3, <1>6
  <2> QED BY <1>6, <2>2, <2>3
<1>9. frames[k].samples # <<>> /\ Head(frames[k].samples) = w[a + 1]
  <2>1. frames[k].samples # <<>>
    BY <1>3, <1>5
  <2>2. Head(frames[k].samples) = frames[k].samples[1]
    BY <1>5, <2>1, LastOf
  <2>3. 1 \in 1..FrameSize
    BY <1>3
  <2> QED BY <1>5, <2>1, <2>2, <2>3
<1>10. Clock!NextHeard(w[a], w[a + 1])
  <2>1. Len(w) \in Nat
    BY <1>2
  <2>2. a >= 1
    <3> DEFINE b == ((k - 1) - 1) * FrameSize
    <3>1. b \in Nat /\ a = b + FrameSize
      BY <1>6
    <3> HIDE DEF a, b
    <3> QED BY <1>3, <3>1
  <2> HIDE DEF a
  <2>3. a + 1 \in 2..Len(w) /\ (a + 1) - 1 = a
    BY <1>3, <1>5, <2>1, <2>2
  <2> QED BY <1>4, <2>3 DEF Clock!Consecutive
<1> QED BY <1>7, <1>8, <1>9, <1>10 DEF Clock!Joined, frames

\* From the last frame before a chunk to its first time passes.
LEMMA ChunkFollows ==
  ASSUME ClockConstants, NEW r, NEW first, NEW n, IsHeard(r, first, n), r.frames # <<>>,
         FramesHeard(r, first, n) # <<>>
  PROVE  LET frames == FramesHeard(r, first, n)
         IN /\ Clock!Last(r.frames).pts < frames[1].pts
            /\ Clock!Joined(Clock!Last(r.frames).samples, frames[1].samples)
<1> DEFINE w == Heard(r, first, n)
           frames == FramesHeard(r, first, n)
           old == Clock!Last(r.frames)
           new == frames[1]
           x == Clock!Last(old.samples)
           y == Clock!Last(new.samples)
           len == Len(r.fifo)
<1>1. SoundKnown(r, first) /\ first \in Int /\ r.start \in Int /\ len \in Nat
  BY DEF IsHeard, SoundKnown, Sounds
<1>2. FrameKnown(r, old) /\ x \in Int /\ old.samples # <<>>
  BY <1>1, NewestIsKnown DEF NewestSample
<1>3. x < first - len
  BY <1>1 DEF SoundKnown, FramesKnown, NewestSample
<1>4. Clock!SamplesToSkip(r, Clock!ToNsec(first)) = 0
  BY <1>1, NothingIsSkippedLater DEF HasHeard
<1>5. 1 \in 1..Len(frames)
  BY FrameHeard, LastOf
<1>6. /\ w \in Seq(Int) /\ IsFrame(new, 1, w, FirstPts(r, first))
      /\ FrameKnown(r, new) /\ 2 * Clock!Error(r, new) >= -(3 * SampleRate)
  BY <1>5, FrameHeard, FrameHeardIsKnown
<1>7. /\ Len(w) \in Nat /\ Len(w) = len + n - Clock!SamplesToSkip(r, Clock!ToNsec(first))
      /\ \A i \in (len + 1)..Len(w) : w[i] = first + Clock!SamplesToSkip(r, Clock!ToNsec(first)) + i - len - 1
      /\ w # <<>> /\ Clock!Joined(old.samples, w)
  BY <1>1, ChunkIsHeard, HeardIsKnown DEF IsHeard
<1>8. FrameSize \in Nat /\ FrameSize >= 1 /\ len < FrameSize
  BY <1>1, ConstantsOfClock DEF SoundKnown, FifoKnown
<1> HIDE DEF w, frames, old, new, len
<1>9. /\ 1 * FrameSize = (1 - 1) * FrameSize + FrameSize
      /\ (1 - 1) * FrameSize + FrameSize <= Len(w)
      /\ new \in SoundFrames /\ new.samples \in Seq(Int) /\ Len(new.samples) = FrameSize
      /\ \A i \in 1..FrameSize : new.samples[i] = w[(1 - 1) * FrameSize + i]
  BY <1>6, Zenon DEF IsFrame
<1>10. (1 - 1) * FrameSize = 0
  BY <1>8
<1>11. new.samples # <<>> /\ Head(new.samples) = w[1] /\ y = w[FrameSize]
  <2>1. new.samples # <<>> /\ Head(new.samples) = new.samples[1] /\ y = new.samples[FrameSize]
    BY <1>8, <1>9, LastOf
  <2>2. 1 \in 1..FrameSize /\ FrameSize \in 1..FrameSize /\ 0 + 1 = 1 /\ 0 + FrameSize = FrameSize
    BY <1>8
  <2> QED BY <1>9, <1>10, <2>1, <2>2
<1>12. Clock!Joined(old.samples, new.samples)
  <2>1. Head(w) = w[1]
    BY <1>6, <1>7, LastOf
  <2> QED BY <1>2, <1>7, <1>11, <2>1 DEF Clock!Joined
<1>13. y = first + FrameSize - len - 1
  <2>1. FrameSize \in (len + 1)..Len(w)
    BY <1>1, <1>7, <1>8, <1>9, <1>10
  <2>2. w[FrameSize] = first + Clock!SamplesToSkip(r, Clock!ToNsec(first)) + FrameSize - len - 1
    BY <1>7, <2>1
  <2> QED BY <1>1, <1>4, <1>8, <1>11, <2>2
<1>14. old.pts \in Int /\ new.pts \in Int /\ 2 * Clock!Error(r, old) <= SampleRate * Clock!Roundings
  BY <1>2, <1>6 DEF FrameKnown, SoundFrames
<1>15. /\ Clock!Error(r, old) = (old.pts + r.start) * SampleRate - (x - FrameSize + 1) * NsecPerSec
       /\ Clock!Error(r, new) = (new.pts + r.start) * SampleRate - (y - FrameSize + 1) * NsecPerSec
  BY DEF Clock!Error
<1> HIDE DEF x, y
<1>16. /\ SampleRate \in Int /\ SampleRate >= 1 /\ NsecPerSec \in Int /\ NsecPerSec >= 0
       /\ 2 * FrameSize * NsecPerSec > SampleRate * (6 + MaxChunk \div FrameSize)
       /\ MaxChunk \div FrameSize \in Int /\ Clock!Roundings = 3 + MaxChunk \div FrameSize
  <2>1. MaxChunk \div FrameSize \in Int
    BY <1>8, ConstantsOfClock, QuotientAndRest
  <2> QED BY <2>1, ConstantsOfClock DEF ClockConstants, Clock!RoundingsAreSmall, Clock!Roundings
<1>17. (new.pts - old.pts) * SampleRate > 0
  <2> DEFINE d == new.pts - old.pts
             p == (old.pts + r.start) * SampleRate
             q == (new.pts + r.start) * SampleRate
             u == (x - FrameSize + 1) * NsecPerSec
             v == (y - FrameSize + 1) * NsecPerSec
             m == MaxChunk \div FrameSize
  <2>1. d * SampleRate = q - p /\ p \in Int /\ q \in Int
    <3> DEFINE a == new.pts + r.start
               b == old.pts + r.start
    <3>1. d = a - b /\ a \in Int /\ b \in Int
      BY <1>1, <1>14
    <3> HIDE DEF a, b, d
    <3>2. (a - b) * SampleRate = a * SampleRate - b * SampleRate
          /\ a * SampleRate \in Int /\ b * SampleRate \in Int
      BY <1>16, <3>1, ProductOfSum
    <3>3. p = b * SampleRate /\ q = a * SampleRate
      BY DEF a, b
    <3> QED BY <3>1, <3>2, <3>3
  <2>2. (x + 1) * NsecPerSec <= (y - FrameSize + 1) * NsecPerSec /\ v \in Int
    <3>1. x + 1 <= y - FrameSize + 1 /\ x + 1 \in Int /\ y - FrameSize + 1 \in Int
      BY <1>1, <1>2, <1>3, <1>8, <1>13 DEF x
    <3> QED BY <1>16, <3>1, ProductGrows
  <2>3. (x + 1) * NsecPerSec = u + FrameSize * NsecPerSec /\ u \in Int /\ FrameSize * NsecPerSec \in Int
    <3>1. x \in Int /\ x + 1 = (x - FrameSize + 1) + FrameSize /\ x - FrameSize + 1 \in Int
      BY <1>2, <1>8 DEF x
    <3> QED BY <1>8, <1>16, <3>1, ProductOfSum
  <2>4. SampleRate * (6 + m) = 6 * SampleRate + SampleRate * m /\ SampleRate * (3 + m) = 3 * SampleRate + SampleRate * m
        /\ SampleRate * m \in Int /\ 2 * FrameSize * NsecPerSec = 2 * (FrameSize * NsecPerSec)
    <3>1. m \in Int
      BY <1>16
    <3> HIDE DEF m
    <3>2. /\ SampleRate * (6 + m) = 6 * SampleRate + SampleRate * m
          /\ SampleRate * (3 + m) = 3 * SampleRate + SampleRate * m
          /\ SampleRate * m \in Int
      BY <1>16, <3>1
    <3>3. 2 * FrameSize * NsecPerSec = 2 * (FrameSize * NsecPerSec)
      BY <1>8, <1>16
    <3> QED BY <3>2, <3>3
  <2>5. 2 * (p - u) <= 3 * SampleRate + SampleRate * m /\ 2 * (q - v) >= -(3 * SampleRate)
    BY <1>6, <1>14, <1>15, <1>16, <2>4
  <2>6. 2 * (FrameSize * NsecPerSec) > 6 * SampleRate + SampleRate * m
    BY <1>16, <2>4
  <2> HIDE DEF d, p, q, u, v, m
  <2>7. u + FrameSize * NsecPerSec <= v
    BY <2>2, <2>3 DEF v
  <2>8. d * SampleRate > 0
    <3> DEFINE e == d * SampleRate
               f == FrameSize * NsecPerSec
               h == SampleRate * m
    <3>1. e = q - p /\ p \in Int /\ q \in Int
      BY <2>1
    <3>2. u \in Int /\ v \in Int /\ f \in Int /\ h \in Int /\ u + f <= v
      BY <2>2, <2>3, <2>4, <2>7 DEF v
    <3>3. 2 * (p - u) <= 3 * SampleRate + h /\ 2 * (q - v) >= -(3 * SampleRate) /\ 2 * f > 6 * SampleRate + h
      BY <2>5, <2>6
    <3> HIDE DEF e, f, h
    <3>4. e > 0
      BY <1>16, <3>1, <3>2, <3>3
    <3> QED BY <3>4 DEF e
  <2> QED BY <2>8 DEF d
<1>18. old.pts < new.pts
  <2> SUFFICES ASSUME new.pts - old.pts <= 0 PROVE FALSE
    BY <1>14
  <2> DEFINE d == new.pts - old.pts
  <2>1. d \in Int /\ d <= 0 /\ d * SampleRate > 0
    BY <1>14, <1>17
  <2> HIDE DEF d
  <2>2. d * SampleRate <= 0 * SampleRate
    BY <1>16, <2>1, ProductGrows
  <2> QED BY <1>16, <2>1, <2>2
<1> QED BY <1>12, <1>18 DEF old, new, frames

\* What is left over is consecutive, in time and up to the end of the chunk; and it is what follows on the frames.
RestFits(r, w, rest, frames, now) ==
  /\ rest \in Seq(Int) /\ Len(rest) < FrameSize /\ Clock!Consecutive(rest)
  /\ \A i \in 1..Len(rest) : InTime(r, rest[i]) /\ rest[i] < now - (Len(rest) - i)
  /\ rest # <<>> => rest[Len(rest)] = now - 1
  /\ frames = <<>> => rest = w
  /\ frames # <<>> =>
       LET newest == Clock!Last(Clock!Last(frames).samples)
       IN /\ Clock!Last(frames).samples # <<>> /\ newest \in Int
          /\ newest < now - Len(rest)
          /\ rest = <<>> => newest = now - 1
          /\ rest # <<>> => Clock!NextHeard(newest, rest[1])

\* What is left over of a chunk.
LEMMA RestIsKnown ==
  ASSUME ClockConstants, NEW r, NEW first, NEW n, IsHeard(r, first, n)
  PROVE  LET w == Heard(r, first, n)
         IN RestFits(r, w, Clock!Leftover(w), FramesHeard(r, first, n), first + n)
<1> DEFINE w == Heard(r, first, n)
           rest == Clock!Leftover(w)
           frames == FramesHeard(r, first, n)
           q == Len(w) \div FrameSize
           a == q * FrameSize
           total == Len(w)
           now == first + n
<1>1. /\ w \in Seq(Int) /\ frames \in Seq(SoundFrames) /\ Len(frames) = q
      /\ \A k \in 1..Len(frames) : IsFrame(frames[k], k, w, FirstPts(r, first))
  BY FrameHeard
<1>2. /\ Clock!Consecutive(w)
      /\ \A i \in 1..Len(w) : InTime(r, w[i]) /\ w[i] < now - (Len(w) - i)
      /\ w # <<>> => w[Len(w)] = now - 1
  BY HeardIsKnown DEF IsHeard
<1>3. first \in Int /\ n \in Int /\ now \in Int /\ FrameSize \in Nat /\ FrameSize >= 1
  BY ConstantsOfClock DEF IsHeard
<1>4. total \in Nat /\ total = Len(w)
  BY <1>1
<1>5. rest = SubSeq(w, a + 1, total)
  BY DEF Clock!Leftover
<1> HIDE DEF w, rest, frames, total, now
<1>6. q = total \div FrameSize
  BY DEF total
<1>7. /\ q \in Nat /\ a \in Nat /\ a <= total /\ total - a < FrameSize
  <2>1. LET p == total \div FrameSize
        IN p \in Nat /\ p * FrameSize \in Nat /\ p * FrameSize <= total /\ total - p * FrameSize < FrameSize
    BY <1>4, WholeFrames
  <2> QED BY <1>6, <2>1
<1>8. q = 0 => a = 0
  BY <1>3
<1> HIDE DEF a, q
<1>9. /\ rest \in Seq(Int) /\ Len(rest) = total - a
      /\ \A i \in 1..(total - a) : rest[i] = w[a + i]
      /\ Clock!Consecutive(rest)
  <2>1. a \in Nat /\ total \in Nat /\ a <= total /\ total <= Len(w)
    BY <1>4, <1>7
  <2> QED BY <1>1, <1>2, <1>5, <2>1, PartOf, PartIsConsecutive
<1>10. ASSUME NEW i \in 1..Len(rest)
       PROVE  InTime(r, rest[i]) /\ rest[i] < now - (Len(rest) - i)
  <2>1. i \in 1..(total - a) /\ a + i \in 1..Len(w) /\ i \in Int
    BY <1>4, <1>7, <1>9
  <2>2. InTime(r, w[a + i]) /\ w[a + i] < now - (Len(w) - (a + i)) /\ rest[i] = w[a + i]
    BY <1>2, <1>9, <2>1
  <2>3. now - (Len(w) - (a + i)) = now - (Len(rest) - i)
    BY <1>3, <1>4, <1>7, <1>9, <2>1
  <2> QED BY <2>2, <2>3
<1>11. rest # <<>> => rest[Len(rest)] = now - 1 /\ Len(rest) >= 1
  <2> HAVE rest # <<>>
  <2>1. Len(rest) >= 1 /\ Len(rest) \in Nat
    BY <1>9, LastOf
  <2>2. total >= 1 /\ total - a \in 1..(total - a) /\ a + (total - a) = total
    BY <1>4, <1>7, <1>9, <2>1
  <2>3. w # <<>>
    BY <1>4, <2>2
  <2> QED BY <1>2, <1>4, <1>9, <2>1, <2>2, <2>3
<1>12. frames = <<>> => rest = w
  <2> HAVE frames = <<>>
  <2>1. a = 0
    BY <1>1, <1>8
  <2> QED BY <1>1, <1>4, <1>5, <2>1
<1>13. ASSUME frames # <<>>
       PROVE  LET newest == Clock!Last(Clock!Last(frames).samples)
              IN /\ Clock!Last(frames).samples # <<>> /\ newest \in Int
                 /\ newest < now - Len(rest)
                 /\ rest = <<>> => newest = now - 1
                 /\ rest # <<>> => Clock!NextHeard(newest, rest[1])
  <2> DEFINE last == Clock!Last(frames)
             newest == Clock!Last(last.samples)
  <2>1. q >= 1 /\ q \in 1..Len(frames) /\ last = frames[q]
    BY <1>1, <1>7, <1>13, LastOf
  <2>2. IsFrame(last, q, w, FirstPts(r, first))
    BY <1>1, <2>1
  <2> HIDE DEF last
  <2>3. /\ (q - 1) * FrameSize \in Nat /\ q * FrameSize = (q - 1) * FrameSize + FrameSize
        /\ last.samples \in Seq(Int) /\ Len(last.samples) = FrameSize
        /\ \A i \in 1..FrameSize : last.samples[i] = w[(q - 1) * FrameSize + i]
    BY <2>2, Zenon DEF IsFrame
  <2>4. last.samples # <<>> /\ newest = last.samples[FrameSize] /\ newest \in Int
    BY <1>3, <2>3, LastOf
  <2>5. newest = w[a]
    <3>1. FrameSize \in 1..FrameSize
      BY <1>3
    <3> QED BY <2>3, <2>4, <3>1 DEF a
  <2>6. a >= 1
    <3> DEFINE b == (q - 1) * FrameSize
    <3>1. b \in Nat /\ a = b + FrameSize
      BY <2>3 DEF a
    <3> HIDE DEF b
    <3> QED BY <1>3, <3>1
  <2> HIDE DEF newest
  <2>7. a \in 1..Len(w)
    BY <1>4, <1>7, <2>6
  <2>8. newest < now - Len(rest)
    <3>1. newest < now - (Len(w) - a)
      BY <1>2, <2>5, <2>7
    <3> QED BY <1>4, <1>9, <3>1
  <2>9. rest = <<>> => newest = now - 1
    <3> HAVE rest = <<>>
    <3>1. Len(rest) = 0
      OBVIOUS
    <3>2. a = total
      BY <1>4, <1>7, <1>9, <3>1
    <3>3. w # <<>>
      BY <1>4, <2>6, <3>2
    <3> QED BY <1>2, <1>4, <2>5, <3>2, <3>3
  <2>10. rest # <<>> => Clock!NextHeard(newest, rest[1])
    <3> HAVE rest # <<>>
    <3>1. Len(rest) >= 1 /\ Len(rest) \in Nat
      BY <1>9, LastOf
    <3>2. 1 \in 1..(total - a) /\ a + 1 \in 2..Len(w) /\ (a + 1) - 1 = a
      BY <1>4, <1>7, <1>9, <2>6, <3>1
    <3>3. Clock!NextHeard(w[(a + 1) - 1], w[a + 1])
      BY <1>2, <3>2 DEF Clock!Consecutive
    <3> QED BY <1>9, <2>5, <3>2, <3>3
  <2> QED BY <2>4, <2>8, <2>9, <2>10 DEF newest, last
<1>14. Len(rest) < FrameSize
  BY <1>3, <1>4, <1>7, <1>9
<1>15. /\ rest \in Seq(Int) /\ Clock!Consecutive(rest)
       /\ \A i \in 1..Len(rest) : InTime(r, rest[i]) /\ rest[i] < now - (Len(rest) - i)
       /\ rest # <<>> => rest[Len(rest)] = now - 1
  BY <1>9, <1>10, <1>11, Zenon
<1>16. RestFits(r, w, rest, frames, now)
  BY <1>12, <1>13, <1>14, <1>15 DEF RestFits
<1> QED BY <1>16 DEF w, rest, frames, now

\* It is known of a frame for what it is of the recording's start.
LEMMA FrameOfSameStart ==
  ASSUME NEW r, NEW s, s.start = r.start, NEW frame, FrameKnown(r, frame)
  PROVE  FrameKnown(s, frame)
  BY DEF FrameKnown, Clock!Error, InTime

\* The frames that are kept are the last one, if there is one, and those of the chunk.
LEMMA KeptFrames ==
  ASSUME ClockConstants, NEW r, NEW first, NEW n, IsHeard(r, first, n)
  PROVE  LET old == Clock!LastFrame(r.frames)
             new == FramesHeard(r, first, n)
             kept == old \o new
         IN /\ kept \in Seq(SoundFrames)
            /\ \A k \in 1..Len(kept) : FrameKnown(r, kept[k])
            /\ \A k \in 2..Len(kept) :
                 kept[k - 1].pts < kept[k].pts /\ Clock!Joined(kept[k - 1].samples, kept[k].samples)
            /\ new # <<>> => kept # <<>> /\ Clock!Last(kept) = Clock!Last(new)
            /\ new = <<>> =>
                 (kept = <<>> <=> r.frames = <<>>) /\ (kept # <<>> => Clock!Last(kept) = Clock!Last(r.frames))
<1> DEFINE old == Clock!LastFrame(r.frames)
           new == FramesHeard(r, first, n)
           kept == old \o new
<1>1. r.frames \in Seq(SoundFrames) /\ new \in Seq(SoundFrames) /\ SoundKnown(r, first) /\ first \in Int
  BY FrameHeard DEF IsHeard, SoundKnown, Sounds
<1>2. CASE r.frames = <<>>
  <2>1. old = <<>>
    BY <1>2 DEF Clock!LastFrame
  <2> HIDE DEF old, new
  <2>2. kept = new
    BY <1>1, <2>1
  <2>3. new # <<>> => Clock!Last(kept) = Clock!Last(new)
    BY <2>2
  <2>4. /\ \A k \in 1..Len(new) : FrameKnown(r, new[k])
        /\ \A k \in 2..Len(new) : new[k - 1].pts < new[k].pts /\ Clock!Joined(new[k - 1].samples, new[k].samples)
    BY FrameHeardIsKnown, FramesFollow DEF new
  <2> HIDE DEF kept
  <2>5. kept \in Seq(SoundFrames)
    BY <1>1, <2>2
  <2> QED BY <1>2, <2>2, <2>3, <2>4, <2>5 DEF kept, old, new
<1>3. CASE r.frames # <<>>
  <2> DEFINE last == Clock!Last(r.frames)
  <2>1. old = <<last>> /\ last \in SoundFrames /\ FrameKnown(r, last)
    BY <1>1, <1>3, NewestIsKnown, LastOf DEF Clock!LastFrame
  <2>2. new # <<>> => last.pts < new[1].pts /\ Clock!Joined(last.samples, new[1].samples)
    BY <1>3, ChunkFollows
  <2>3. /\ \A k \in 1..Len(new) : FrameKnown(r, new[k])
        /\ \A k \in 2..Len(new) : new[k - 1].pts < new[k].pts /\ Clock!Joined(new[k - 1].samples, new[k].samples)
    BY FrameHeardIsKnown, FramesFollow
  <2> HIDE DEF old, new, last
  <2>4. /\ kept \in Seq(SoundFrames) /\ Len(kept) = 1 + Len(new) /\ kept[1] = last
        /\ \A k \in 2..(1 + Len(new)) : kept[k] = new[k - 1]
        /\ Len(new) \in Nat
    <3>1. Len(old) = 1 /\ old[1] = last /\ old \in Seq(SoundFrames) /\ Len(new) \in Nat
      BY <1>1, <2>1
    <3>2. /\ kept \in Seq(SoundFrames) /\ Len(kept) = Len(old) + Len(new)
          /\ \A i \in Int : 1 <= i /\ i <= Len(old) => kept[i] = old[i]
          /\ \A i \in Int : Len(old) < i /\ i <= Len(old) + Len(new) => kept[i] = new[i - Len(old)]
      BY <1>1, <3>1, Concatenated
    <3> HIDE DEF kept
    <3>3. kept[1] = last
      BY <3>1, <3>2
    <3>4. \A k \in 2..(1 + Len(new)) : kept[k] = new[k - 1]
      BY <3>1, <3>2
    <3> QED BY <3>1, <3>2, <3>3, <3>4
  <2> HIDE DEF kept
  <2>5. \A k \in 1..Len(kept) : FrameKnown(r, kept[k])
    <3> TAKE k \in 1..Len(kept)
    <3>1. CASE k = 1
      BY <2>1, <2>4, <3>1
    <3>2. CASE k # 1
      <4>1. k \in 2..(1 + Len(new)) /\ k - 1 \in 1..Len(new)
        BY <2>4, <3>2
      <4> QED BY <2>3, <2>4, <4>1
    <3> QED BY <3>1, <3>2
  <2>6. ASSUME NEW k \in 2..Len(kept)
        PROVE  kept[k - 1].pts < kept[k].pts /\ Clock!Joined(kept[k - 1].samples, kept[k].samples)
    <3>1. k \in 2..(1 + Len(new)) /\ kept[k] = new[k - 1] /\ Len(new) >= 1
      BY <2>4
    <3>2. CASE k = 2
      <4>1. new # <<>> /\ kept[k - 1] = last /\ kept[k] = new[1]
        BY <1>1, <2>4, <3>1, <3>2
      <4> QED BY <2>2, <4>1
    <3>3. CASE k # 2
      <4>1. k - 1 \in 2..(1 + Len(new)) /\ k - 1 \in 2..Len(new)
        BY <2>4, <3>1, <3>3
      <4>2. kept[k - 1] = new[(k - 1) - 1]
        BY <2>4, <4>1
      <4> QED BY <2>3, <3>1, <4>1, <4>2
    <3> QED BY <3>2, <3>3
  <2>7. kept # <<>> /\ Clock!Last(kept) = kept[1 + Len(new)]
    <3>1. kept # <<>>
      BY <2>4
    <3> QED BY <2>4, <3>1, LastOf
  <2>8. new # <<>> => Clock!Last(kept) = Clock!Last(new)
    <3> HAVE new # <<>>
    <3>1. Len(new) >= 1 /\ Clock!Last(new) = new[Len(new)]
      BY <1>1, LastOf
    <3>2. 1 + Len(new) \in 2..(1 + Len(new)) /\ (1 + Len(new)) - 1 = Len(new)
      BY <2>4, <3>1
    <3> QED BY <2>4, <2>7, <3>1, <3>2
  <2>9. new = <<>> => Clock!Last(kept) = last
    <3> HAVE new = <<>>
    <3>1. Len(new) = 0
      OBVIOUS
    <3> QED BY <2>4, <2>7, <3>1
  <2> QED BY <1>3, <2>4, <2>5, <2>6, <2>7, <2>8, <2>9 DEF kept, old, new, last
<1> QED BY <1>2, <1>3

-----------------------------------------------------------------------------
(* The invariant                                                           *)

\* A chunk leaves a recording with frames and a FIFO that are right.
LEMMA ChunkIsKnown ==
  ASSUME ClockConstants, NEW r, NEW first \in Int, SoundKnown(r, first), NEW n \in 1..MaxChunk
  PROVE  SoundKnown(Clock!Take(r, first, n), first + n)
<1> DEFINE t == Clock!ToNsec(first)
           skip == Clock!SamplesToSkip(r, t)
           w == Heard(r, first, n)
           rest == Clock!Leftover(w)
           frames == FramesHeard(r, first, n)
           kept == Clock!LastFrame(r.frames) \o frames
           s == Clock!Take(r, first, n)
           now == first + n
<1>1. r \in Sounds /\ skip \in Nat /\ n \in Int /\ n >= 1 /\ now \in Int
  <2>1. r \in Sounds
    BY DEF SoundKnown
  <2>2. skip \in Nat
    BY <2>1, SkipReachesTheStart, ToNsecRounds
  <2> QED BY <2>1, <2>2, ConstantsOfClock
<1>2. CASE ~r.recording \/ n < skip
  <2>1. s = r
    BY <1>2 DEF Clock!Take
  <2>2. r.fifo = <<>> /\ r.frames = <<>>
    <3>1. HasHeard(r) => skip = 0
      BY NothingIsSkippedLater
    <3> QED BY <1>1, <1>2, <3>1 DEF HasHeard, SoundKnown
  <2> HIDE DEF s
  <2>3. Len(r.fifo) = 0 /\ Len(r.frames) = 0
    BY <2>2
  <2>4. FifoKnown(r, now)
    BY <2>2, <2>3, ConstantsOfClock DEF FifoKnown, Clock!Consecutive
  <2>5. FramesKnown(r, now)
    BY <2>2, <2>3 DEF FramesKnown
  <2> QED BY <1>1, <2>1, <2>2, <2>4, <2>5 DEF SoundKnown, s
<1>3. CASE ~(~r.recording \/ n < skip)
  <2>1. IsHeard(r, first, n)
    BY <1>1, <1>3 DEF IsHeard
  <2>2. s = [r EXCEPT !.fifo = rest, !.frames = kept]
    BY <1>3 DEF Clock!Take, Heard, FramesHeard, FirstPts
  <2>3. /\ rest \in Seq(Int) /\ Len(rest) < FrameSize /\ Clock!Consecutive(rest)
        /\ \A i \in 1..Len(rest) : InTime(r, rest[i]) /\ rest[i] < now - (Len(rest) - i)
        /\ rest # <<>> => rest[Len(rest)] = now - 1
        /\ frames = <<>> => rest = w
        /\ frames # <<>> =>
             LET newest == Clock!Last(Clock!Last(frames).samples)
             IN /\ Clock!Last(frames).samples # <<>> /\ newest \in Int
                /\ newest < now - Len(rest)
                /\ rest = <<>> => newest = now - 1
                /\ rest # <<>> => Clock!NextHeard(newest, rest[1])
    BY <2>1, RestIsKnown DEF RestFits
  <2>4. /\ kept \in Seq(SoundFrames)
        /\ \A k \in 1..Len(kept) : FrameKnown(r, kept[k])
        /\ \A k \in 2..Len(kept) : kept[k - 1].pts < kept[k].pts /\ Clock!Joined(kept[k - 1].samples, kept[k].samples)
        /\ frames # <<>> => kept # <<>> /\ Clock!Last(kept) = Clock!Last(frames)
        /\ frames = <<>> =>
             (kept = <<>> <=> r.frames = <<>>) /\ (kept # <<>> => Clock!Last(kept) = Clock!Last(r.frames))
    BY <2>1, KeptFrames
  <2>5. \A m \in Int : m = now - 1 => Clock!NextHeard(m, now)
    BY <1>1 DEF Clock!NextHeard
  <2>6. /\ r.frames # <<>> => w # <<>> /\ Clock!Joined(Clock!Last(r.frames).samples, w) /\ skip = 0
        /\ Len(w) = Len(r.fifo) + n - skip /\ r.fifo \in Seq(Int)
    <3>1. r.frames # <<>> => skip = 0
      BY NothingIsSkippedLater DEF HasHeard
    <3>2. r.frames # <<>> => w # <<>> /\ Clock!Joined(Clock!Last(r.frames).samples, w)
      BY <2>1, HeardIsKnown DEF IsHeard
    <3>3. Len(w) = Len(r.fifo) + n - skip
      BY <2>1, ChunkIsHeard DEF IsHeard
    <3> QED BY <1>1, <3>1, <3>2, <3>3 DEF Sounds
  <2> HIDE DEF w, rest, frames, kept, s, skip, now
  <2>7. /\ s \in Sounds /\ s.start = r.start /\ s.fifo = rest /\ s.frames = kept /\ s.recording = r.recording
    BY <1>1, <2>2, <2>3, <2>4 DEF Sounds
  <2>8. \A m : InTime(s, m) <=> InTime(r, m)
    BY <2>7 DEF InTime
  <2>9. FifoKnown(s, now)
    <3>1. rest # <<>> => Clock!NextHeard(rest[Len(rest)], now)
      <4> HAVE rest # <<>>
      <4>1. rest[Len(rest)] \in Int
        BY <2>3, LastOf
      <4> QED BY <2>3, <2>5, <4>1
    <3> QED BY <2>3, <2>7, <2>8, <3>1 DEF FifoKnown
  <2>10. ASSUME kept # <<>>
         PROVE  LET newest == Clock!Last(Clock!Last(kept).samples)
                IN /\ newest < now - Len(rest)
                   /\ Clock!Joined(Clock!Last(kept).samples, rest)
                   /\ rest = <<>> => Clock!NextHeard(newest, now)
    <3>1. CASE frames # <<>>
      <4>1. rest # <<>> => Head(rest) = rest[1]
        BY <2>3, LastOf
      <4> QED BY <2>3, <2>4, <2>5, <3>1, <4>1 DEF Clock!Joined
    <3>2. CASE frames = <<>>
      <4>1. /\ r.frames # <<>> /\ Clock!Last(kept) = Clock!Last(r.frames) /\ rest = w /\ w # <<>> /\ skip = 0
            /\ Clock!Joined(Clock!Last(kept).samples, rest)
        BY <2>3, <2>4, <2>6, <2>10, <3>2
      <4>2. NewestSample(r) < first - Len(r.fifo) /\ NewestSample(r) \in Int
        BY <4>1, NewestIsKnown DEF SoundKnown, FramesKnown
      <4>3. Len(rest) = Len(r.fifo) + n /\ Len(r.fifo) \in Int
        BY <1>1, <2>6, <4>1
      <4>4. NewestSample(r) < now - Len(rest)
        <5> DEFINE len == Len(r.fifo)
                   total == Len(rest)
                   newest == NewestSample(r)
        <5>1. newest < first - len /\ newest \in Int /\ total = len + n /\ len \in Int
          BY <4>2, <4>3
        <5> HIDE DEF len, total, newest
        <5>2. newest < first + n - total
          BY <1>1, <5>1
        <5> QED BY <5>2 DEF newest, total, now
      <4> QED BY <4>1, <4>4 DEF NewestSample
    <3> QED BY <3>1, <3>2
  <2>11. FramesKnown(s, now)
    <3>1. \A k \in 1..Len(kept) : FrameKnown(s, kept[k])
      BY <2>4, <2>7, FrameOfSameStart
    <3> QED BY <2>4, <2>7, <2>10, <3>1 DEF FramesKnown, NewestSample
  <2>12. s.recording
    BY <1>3, <2>7
  <2> QED BY <2>7, <2>9, <2>11, <2>12 DEF SoundKnown, s, now
<1> QED BY <1>2, <1>3

\* A recording that has heard nothing is right.
LEMMA SilenceIsKnown ==
  ASSUME ClockConstants, NEW now, NEW r \in Sounds, r.fifo = <<>>, r.frames = <<>>
  PROVE  SoundKnown(r, now)
<1>1. Len(r.fifo) = 0 /\ Len(r.frames) = 0
  OBVIOUS
<1>2. FifoKnown(r, now)
  BY <1>1, ConstantsOfClock DEF FifoKnown, Clock!Consecutive
<1>3. FramesKnown(r, now)
  BY <1>1 DEF FramesKnown
<1> QED BY <1>2, <1>3 DEF SoundKnown

\* What was heard stays so while more is dropped.
LEMMA DropIsKnown ==
  ASSUME ClockConstants, NEW r, NEW now \in Int, NEW n \in Int, n >= 0, SoundKnown(r, now),
         dropped' = dropped \cup now..(now + n - 1)
  PROVE  SoundKnown(r, now + n)'
<1>1. \A s, t : Clock!NextHeard(s, t) => Clock!NextHeard(s, t)'
  BY DEF Clock!NextHeard
<1>2. \A s \in Int : Clock!NextHeard(s, now) => Clock!NextHeard(s, now + n)'
  BY DEF Clock!NextHeard
<1>3. r \in Sounds /\ r.fifo \in Seq(Int) /\ Len(r.fifo) \in Nat /\ FifoKnown(r, now) /\ FramesKnown(r, now)
  BY DEF SoundKnown, Sounds
<1>4. \A s : Clock!Consecutive(s) => Clock!Consecutive(s)'
  BY <1>1, Zenon DEF Clock!Consecutive
<1>5. \A s, t : Clock!Joined(s, t) => Clock!Joined(s, t)'
  BY <1>1, Zenon DEF Clock!Joined
<1>6. \A f : FrameKnown(r, f) => FrameKnown(r, f)'
  BY <1>4, Zenon DEF FrameKnown, Clock!Error, InTime
<1>7. FifoKnown(r, now + n)'
  <2>1. r.fifo # <<>> => r.fifo[Len(r.fifo)] \in Int
    BY <1>3, LastOf
  <2>2. ASSUME NEW i \in 1..Len(r.fifo)
        PROVE  InTime(r, r.fifo[i]) /\ r.fifo[i] < (now + n) - (Len(r.fifo) - i)
    <3> DEFINE s == r.fifo[i]
               len == Len(r.fifo)
    <3>1. InTime(r, s) /\ s < now - (len - i)
      BY <1>3 DEF FifoKnown
    <3>2. s \in Int /\ i \in Int /\ len \in Int
      BY <1>3
    <3> HIDE DEF s, len
    <3>3. s < (now + n) - (len - i)
      BY <3>1, <3>2
    <3> QED BY <3>1, <3>3 DEF s, len
  <2>3. Len(r.fifo) < FrameSize /\ Clock!Consecutive(r.fifo)'
        /\ (r.fifo # <<>> => Clock!NextHeard(r.fifo[Len(r.fifo)], now + n)')
    BY <1>2, <1>3, <1>4, <2>1 DEF FifoKnown
  <2> QED BY <2>2, <2>3 DEF FifoKnown, InTime
<1>8. FramesKnown(r, now + n)'
  <2>1. \A k \in 1..Len(r.frames) : FrameKnown(r, r.frames[k])'
    BY <1>3, <1>6 DEF FramesKnown
  <2>2. \A k \in 2..Len(r.frames) : /\ r.frames[k - 1].pts < r.frames[k].pts
                                    /\ Clock!Joined(r.frames[k - 1].samples, r.frames[k].samples)'
    BY <1>3, <1>5 DEF FramesKnown
  <2>3. ASSUME r.frames # <<>>
        PROVE  /\ NewestSample(r) < (now + n) - Len(r.fifo)
               /\ Clock!Joined(Clock!Last(r.frames).samples, r.fifo)'
               /\ r.fifo = <<>> => Clock!NextHeard(NewestSample(r), now + n)'
    <3>1. NewestSample(r) \in Int
      BY <2>3, NewestIsKnown
    <3>2. /\ NewestSample(r) < now - Len(r.fifo)
          /\ Clock!Joined(Clock!Last(r.frames).samples, r.fifo)
          /\ r.fifo = <<>> => Clock!NextHeard(NewestSample(r), now)
      BY <1>3, <2>3 DEF FramesKnown
    <3>3. NewestSample(r) < (now + n) - Len(r.fifo)
      <4> DEFINE s == NewestSample(r)
                 len == Len(r.fifo)
      <4>1. s \in Int /\ len \in Int /\ s < now - len
        BY <1>3, <3>1, <3>2
      <4> HIDE DEF s, len
      <4>2. s < (now + n) - len
        BY <4>1
      <4> QED BY <4>2 DEF s, len
    <3> QED BY <1>2, <1>5, <3>1, <3>2, <3>3
  <2> QED BY <2>1, <2>2, <2>3 DEF FramesKnown, NewestSample
<1> QED BY <1>3, <1>7, <1>8 DEF SoundKnown

\* Every step keeps the invariant.
LEMMA ClockStep ==
  ASSUME ClockConstants, ClockInv, [Clock!Next]_(Clock!vars)
  PROVE  ClockInv'
<1>1. ASSUME dropped' = dropped, NEW r, NEW now, SoundKnown(r, now)
      PROVE  SoundKnown(r, now)'
  BY <1>1 DEF SoundKnown, FifoKnown, FramesKnown, FrameKnown, Clock!Consecutive, Clock!Joined, Clock!NextHeard,
              InTime, Clock!Error, NewestSample
<1>2. ASSUME NEW o \in Outputs, NEW r \in Sounds, r.fifo = <<>>, r.frames = <<>>,
             sound' = [sound EXCEPT ![o] = r], UNCHANGED <<next, dropped>>
      PROVE  ClockInv'
  <2>1. sound' \in [Outputs -> Sounds]
    BY <1>2 DEF ClockInv
  <2>2. ASSUME NEW p \in Outputs
        PROVE  SoundKnown(sound[p], next)'
    <3>1. CASE p = o
      BY <1>2, <3>1, SilenceIsKnown, <1>1 DEF ClockInv
    <3>2. CASE p # o
      BY <1>1, <1>2, <3>2 DEF ClockInv
    <3> QED BY <3>1, <3>2
  <2> QED BY <1>2, <2>1, <2>2 DEF ClockInv
<1>3. ASSUME NEW o \in Outputs, NEW delay \in -1..MaxDelay, Clock!Start(o, delay)
      PROVE  ClockInv'
  <2>1. Clock!ToNsec(next) + delay \in Int
    <3>1. delay \in Int
      BY DEF ClockConstants, Clock!ClockIsFinerThanSamples
    <3> QED BY <3>1, ToNsecRounds DEF ClockInv
  <2> DEFINE r == [Clock!Silence EXCEPT !.recording = TRUE, !.start = Clock!ToNsec(next) + delay]
  <2>2. r \in Sounds /\ r.fifo = <<>> /\ r.frames = <<>>
    <3> DEFINE start == Clock!ToNsec(next) + delay
    <3>1. start \in Int
      BY <2>1
    <3>2. Clock!Silence \in Sounds /\ Clock!Silence.fifo = <<>> /\ Clock!Silence.frames = <<>>
      BY DEF Clock!Silence, Sounds
    <3> HIDE DEF start
    <3>3. LET s == [Clock!Silence EXCEPT !.recording = TRUE, !.start = start]
          IN s \in Sounds /\ s.fifo = <<>> /\ s.frames = <<>>
      BY <3>1, <3>2 DEF Sounds
    <3> QED BY <3>3 DEF start
  <2> QED BY <1>2, <1>3, <2>2 DEF Clock!Start
<1>4. ASSUME NEW o \in Outputs, Clock!Finish(o)
      PROVE  ClockInv'
  <2>1. Clock!Silence \in Sounds /\ Clock!Silence.fifo = <<>> /\ Clock!Silence.frames = <<>>
    BY DEF Clock!Silence, Sounds
  <2> QED BY <1>2, <1>4, <2>1 DEF Clock!Finish
<1>5. ASSUME NEW n \in 1..MaxChunk, Clock!OnProcess(n)
      PROVE  ClockInv'
  <2>1. n \in Int /\ next' \in Int /\ next' = next + n /\ dropped' = dropped
    BY <1>5, ConstantsOfClock DEF Clock!OnProcess, ClockInv
  <2>2. ASSUME NEW o \in Outputs
        PROVE  sound'[o] \in Sounds /\ SoundKnown(sound[o], next)'
    <3>1. SoundKnown(Clock!Take(sound[o], next, n), next + n)
      BY ChunkIsKnown DEF ClockInv
    <3>2. sound'[o] = Clock!Take(sound[o], next, n)
      BY <1>5 DEF Clock!OnProcess
    <3> DEFINE r == Clock!Take(sound[o], next, n)
               now == next + n
    <3>3. r \in Sounds
      BY <3>1 DEF SoundKnown
    <3> HIDE DEF r, now
    <3> QED BY <1>1, <2>1, <3>1, <3>2, <3>3 DEF r, now
  <2>3. sound' \in [Outputs -> Sounds]
    BY <1>5, <2>2 DEF Clock!OnProcess
  <2> QED BY <2>1, <2>2, <2>3 DEF ClockInv
<1>6. ASSUME NEW n \in 1..MaxChunk, Clock!Drop(n)
      PROVE  ClockInv'
  <2>1. n \in Int /\ n >= 0 /\ next' \in Int /\ next' = next + n /\ dropped' = dropped \cup next..(next + n - 1)
    BY <1>6, ConstantsOfClock DEF Clock!Drop, ClockInv
  <2>2. ASSUME NEW o \in Outputs
        PROVE  SoundKnown(sound[o], next)'
    BY <1>6, <2>1, DropIsKnown DEF ClockInv, Clock!Drop
  <2> QED BY <1>6, <2>1, <2>2 DEF ClockInv, Clock!Drop
<1>7. CASE UNCHANGED Clock!vars
  BY <1>1, <1>7 DEF Clock!vars, ClockInv
<1> QED BY <1>3, <1>4, <1>5, <1>6, <1>7 DEF Clock!Next, Clock!Done

\* The invariant implies what must hold.
LEMMA KnownIsRight ==
  ASSUME ClockConstants, ClockInv
  PROVE  Clock!PtsIncrease /\ Clock!NewestSampleIsOnTime /\ Clock!SoundStartsWithTheVideo /\ Clock!SamplesAreConsecutive
<1>1. \A o \in Outputs : sound[o] \in Sounds /\ FifoKnown(sound[o], next) /\ FramesKnown(sound[o], next)
  BY DEF ClockInv, SoundKnown
<1>2. Clock!PtsIncrease
  BY <1>1 DEF Clock!PtsIncrease, FramesKnown
<1>3. Clock!NewestSampleIsOnTime
  BY <1>1 DEF Clock!NewestSampleIsOnTime, FramesKnown, FrameKnown
<1>4. Clock!SoundStartsWithTheVideo
  <2> SUFFICES ASSUME NEW o \in Outputs, NEW k \in 1..Len(sound[o].frames)
               PROVE  /\ sound[o].frames[k].pts >= -1
                      /\ \A s \in Clock!ToSet(sound[o].frames[k].samples) : Clock!ToNsec(s) >= sound[o].start - 1
    BY DEF Clock!SoundStartsWithTheVideo
  <2> DEFINE r == sound[o]
             frame == r.frames[k]
  <2>1. FrameKnown(r, frame) /\ r \in Sounds
    BY <1>1 DEF FramesKnown
  <2> HIDE DEF r, frame
  <2>2. frame.pts >= -1 /\ frame.samples \in Seq(Int) /\ \A i \in 1..Len(frame.samples) : InTime(r, frame.samples[i])
    BY <2>1 DEF FrameKnown, SoundFrames
  <2>3. ASSUME NEW s \in Clock!ToSet(frame.samples)
        PROVE  Clock!ToNsec(s) >= r.start - 1
    <3>1. s \in Int /\ InTime(r, s)
      BY <2>2, SMTT(60) DEF Clock!ToSet
    <3>2. Clock!ToNsec(s) >= r.start /\ Clock!ToNsec(s) \in Int /\ r.start \in Int
      BY <2>1, <3>1, InTimeIsHeard, ToNsecRounds DEF Sounds
    <3> QED BY <3>2
  <2> QED BY <2>2, <2>3 DEF r, frame
<1>5. Clock!SamplesAreConsecutive
  BY <1>1 DEF Clock!SamplesAreConsecutive, FifoKnown, FramesKnown, FrameKnown
<1> QED BY <1>2, <1>3, <1>4, <1>5

\* The audio clock is right: timestamps increase, sound is heard when it was presented and not before the video
\* starts, and every sample that PipeWire handed over since is in its place.
THEOREM SoundIsAlwaysInTime ==
  ASSUME ClockConstants
  PROVE  Clock!Spec => [](/\ Clock!PtsIncrease /\ Clock!NewestSampleIsOnTime
                          /\ Clock!SoundStartsWithTheVideo /\ Clock!SamplesAreConsecutive)
<1>1. Clock!Init => ClockInv
  <2>1. Clock!Silence \in Sounds /\ Clock!Silence.fifo = <<>> /\ Clock!Silence.frames = <<>>
    BY DEF Clock!Silence, Sounds
  <2> QED BY <2>1, SilenceIsKnown DEF Clock!Init, ClockInv
<1>2. ClockInv /\ [Clock!Next]_(Clock!vars) => ClockInv'
  BY ClockStep
<1>3. ClockInv => /\ Clock!PtsIncrease /\ Clock!NewestSampleIsOnTime
                  /\ Clock!SoundStartsWithTheVideo /\ Clock!SamplesAreConsecutive
  BY KnownIsRight
<1> QED BY <1>1, <1>2, <1>3, PTL DEF Clock!Spec
=============================================================================
