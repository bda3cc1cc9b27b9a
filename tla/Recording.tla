----------------------------- MODULE Recording ------------------------------
(***************************************************************************)
(* The life of a recording's writers, capture/write/video.c, with the one  *)
(* audio stream that the recordings of all outputs share, pipewires.c.     *)
(* What libav and PipeWire do is a choice of the action: which call of     *)
(* those in `Faults' fails.  When a recording starts, is asked to stop and *)
(* gets its frames is the subject of Scran; here any order will do.        *)
(*                                                                         *)
(* Of what was recorded only this is kept: whether the encoder of a stream *)
(* holds something back, whether the muxer's queue does, and whether the   *)
(* file has something of it.                                               *)
(***************************************************************************)
EXTENDS Naturals, Sequences, FiniteSets, SequencesExt

CONSTANTS
  Outputs,
  DisableAudio,   \* options.disable_audio_capture
  Faults          \* the calls that may fail

RecordingOptions == DisableAudio \in BOOLEAN

VARIABLES
  pw,              \* m_state of pipewires.c
  rec,             \* rec[o]: output o's capture and its ffmpeg_ctx
  tray_recording,  \* what the tray icon shows
  exit_requested,
  running

vars == <<pw, rec, tray_recording, exit_requested, running>>

Streams == {"video", "audio"}

\* The faults of encoding, draining and writing a stream.
EncodeFault == [video |-> "encode_video", audio |-> "encode_audio"]
DrainFault == [video |-> "drain_video", audio |-> "drain_audio"]
WriteFault == [video |-> "write_video", audio |-> "write_audio"]

Failures == {"VIDEO_STREAM", "AUDIO_STREAM", "MUX"}

(***************************************************************************)
(* What is acquired in order by scran_pipewire_start(), init_ffmpeg() and  *)
(* init_ffmpeg_audio().  Not every call leaves something to be released.   *)
(***************************************************************************)
PipewireSteps == << "loop", "epoll", "context", "core", "props", "pw_stream", "connect" >>
VideoSteps ==
  << "frame", "encoder", "path", "format", "codec", "open_codec", "packet", "av_stream",
     "audio_av_stream", "io", "header" >>
AudioSteps ==
  << "a_frame", "a_encoder", "a_codec", "a_open", "a_buffer", "a_fifo", "a_packet" >>

PipewireParts == {"loop", "epoll", "context", "core", "pw_stream"}
VideoParts == {"frame", "format", "codec", "packet", "io"}
AudioParts == {"a_frame", "a_codec", "a_fifo", "a_packet"}

\* What is held where a step has failed; all of it where none has.
Acquired(steps, failed, parts) ==
  {steps[i] : i \in {j \in DOMAIN steps :
                       \A k \in 1..j : steps[k] # failed}} \cap parts

IdleRecording ==
  [ stage |-> "NONE", audio_active |-> FALSE, held |-> {}, failures |-> {},
    pending |-> {}, queued |-> {}, in_file |-> {}, file |-> "none",
    harmed |-> FALSE, reported |-> "none" ]

Pipewire ==
  [ inited : BOOLEAN, started : BOOLEAN, parts : SUBSET PipewireParts,
    active : SUBSET Outputs ]                \* active_outputs_mask

Recordings ==
  [ stage        : {"NONE", "CAPTURING", "STOP_REQUESTED"},
    audio_active : BOOLEAN,
    held         : SUBSET (VideoParts \cup AudioParts),
    failures     : SUBSET Failures,          \* failure_mask
    pending      : SUBSET Streams,           \* held back by an encoder
    queued       : SUBSET Streams,           \* held back by the muxer
    in_file      : SUBSET Streams,           \* nb_frames > 0
    file         : {"none", "open", "saved", "unlinked"},
    harmed       : BOOLEAN,                  \* history: something failed or was lost
    reported     : {"none", "complete", "incomplete", "nothing"} ]

Init ==
  /\ pw = [inited |-> FALSE, started |-> FALSE, parts |-> {}, active |-> {}]
  /\ rec = [o \in Outputs |-> IdleRecording]
  /\ tray_recording = FALSE
  /\ exit_requested = FALSE
  /\ running = TRUE

\* capture_video_is_live().
IsLive(r) == r.stage \in {"CAPTURING", "STOP_REQUESTED"}

-----------------------------------------------------------------------------
(* The stream                                                              *)

\* scran_pipewire_reset().
Reset(p) == [p EXCEPT !.started = FALSE, !.parts = {}]

\* scran_pipewire_start(): a stream that was started is used as it is, one that
\* cannot be is taken down again.
PipewireStart(p, failed) ==
  IF p.started THEN p
  ELSE LET built == [p EXCEPT !.inited = TRUE,
                              !.parts = @ \cup Acquired(PipewireSteps, failed, PipewireParts)]
       IN IF failed \in ToSet(PipewireSteps) THEN Reset(built)
          ELSE [built EXCEPT !.started = TRUE]

\* scran_pipewire_attach(): fails only where the stream has to be started.
Attaches(p, failed) == p.started \/ failed \notin ToSet(PipewireSteps)

Attach(p, o, failed) ==
  LET q == PipewireStart(p, failed)
  IN IF q.started THEN [q EXCEPT !.active = @ \cup {o}] ELSE q

\* Mutant: the first to go takes the stream down.
Detach_ResetAlways(p, o) == Reset([p EXCEPT !.active = @ \ {o}])

\* scran_pipewire_detach(): the last one takes the stream down.
Detach(p, o) ==
  LET q == [p EXCEPT !.active = @ \ {o}]
  IN IF q.active = {} THEN Reset(q) ELSE q

\* scran_pipewire_destroy().
Destroy(p) == IF p.inited THEN [Reset(p) EXCEPT !.inited = FALSE] ELSE p

-----------------------------------------------------------------------------
(* The writers                                                             *)

DestroyAudioWriter(r) == [r EXCEPT !.held = @ \ AudioParts]

\* destroy_ffmpeg_video(): the file can only be closed through its format context.
DestroyVideoWriter(r) ==
  [r EXCEPT !.held = @ \ (IF "format" \in @ THEN VideoParts ELSE VideoParts \ {"io"})]

\* Mutant: the failure of a write is not recorded.
WriteFails_Unrecorded(r) == [r EXCEPT !.harmed = TRUE]

\* write_packet(), where av_interleaved_write_frame() fails.
WriteFails(r) == [r EXCEPT !.failures = @ \cup {"MUX"}, !.harmed = TRUE]

\* An encoder's failure, in on_process() and capture_video_write_video_frame().
StreamFails(r, failure) == [r EXCEPT !.failures = @ \cup {failure}, !.harmed = TRUE]

(***************************************************************************)
(* A frame is handed to an encoder.  The encoder may keep it, or give      *)
(* packets to the muxer, which may keep them too; `failed' says where it   *)
(* fails, if it does.                                                      *)
(***************************************************************************)
EncodeOutcomes(s) ==
  {"kept", "queued", "written"} \cup ({EncodeFault[s], WriteFault[s]} \cap Faults)

Encode(r, s, failure, outcome) ==
  CASE outcome = "kept"          -> [r EXCEPT !.pending = @ \cup {s}]
    [] outcome = "queued"        -> [r EXCEPT !.pending = @ \cup {s}, !.queued = @ \cup {s}]
    [] outcome = "written"       -> [r EXCEPT !.pending = @ \cup {s}, !.in_file = @ \cup {s}]
    [] outcome = EncodeFault[s] -> StreamFails(r, failure)
    [] outcome = WriteFault[s]  -> WriteFails(r)

\* capture_video_request_stop(), of which only the stage concerns the writers.
RequestStop(r) == [r EXCEPT !.stage = "STOP_REQUESTED"]

(***************************************************************************)
(* capture_video_drain_codec(): what the encoder of s holds back goes to   *)
(* the muxer.  Writing can only fail where there is a packet to write.     *)
(***************************************************************************)
DrainFails(r, s, faults) ==
  \/ DrainFault[s] \in faults
  \/ WriteFault[s] \in faults /\ s \in r.pending

DrainCodec(r, s, faults) ==
  IF ~DrainFails(r, s, faults)
    THEN [r EXCEPT !.queued = @ \cup (r.pending \cap {s}), !.pending = @ \ {s}]
  ELSE IF DrainFault[s] \in faults THEN [r EXCEPT !.harmed = TRUE]
  ELSE WriteFails(r)

\* capture_video_drain_write_queue().
DrainWriteQueue(r, faults) ==
  IF "flush" \in faults THEN WriteFails(r)
  ELSE [r EXCEPT !.in_file = @ \cup r.queued, !.queued = {}]

-----------------------------------------------------------------------------
(* Start and finish                                                        *)

\* The steps of init_ffmpeg() that come before the audio is initialised.
BeforeAudio == ToSet(SubSeq(VideoSteps, 1, 8))

\* Whether init_ffmpeg_audio() succeeds; where it fails it is all undone again.
AudioStarts(p, audio) == Attaches(p, audio) /\ audio \notin ToSet(AudioSteps)

\* Mutant: the encoder's failure leaves the output attached.
InitAudioPipewire_Attached(p, o, audio) == Attach(p, o, audio)

InitAudioPipewire(p, o, audio) ==
  IF Attaches(p, audio) /\ ~AudioStarts(p, audio) THEN Detach(Attach(p, o, audio), o)
  ELSE Attach(p, o, audio)

InitAudioWriter(p, r, audio) ==
  IF AudioStarts(p, audio)
    THEN [r EXCEPT !.held = @ \cup AudioParts, !.audio_active = TRUE]
    ELSE DestroyAudioWriter(
           [r EXCEPT !.held = @ \cup (IF Attaches(p, audio)
                                        THEN Acquired(AudioSteps, audio, AudioParts) ELSE {})])

\* The recording where init_ffmpeg() returns or jumps to `fail'.
Initialised(p, r, wants_audio, audio, video) ==
  LET begun == [r EXCEPT !.failures = {}, !.harmed = FALSE, !.reported = "none", !.in_file = {},
                         !.pending = {}, !.queued = {}, !.file = "none",
                         !.held = @ \cup Acquired(VideoSteps, video, VideoParts)]
      opened == IF "io" \in begun.held THEN [begun EXCEPT !.file = "open"] ELSE begun
  IN IF wants_audio /\ video \notin BeforeAudio THEN InitAudioWriter(p, opened, audio) ELSE opened

\* The label `fail' of init_ffmpeg(), and capture_video_start()'s.
InitFailed(r) ==
  LET closed == IF {"format", "io"} \subseteq r.held
                  THEN [r EXCEPT !.file = "unlinked", !.held = @ \ {"io"}] ELSE r
      silent == IF r.audio_active
                  THEN [DestroyAudioWriter(closed) EXCEPT !.audio_active = FALSE] ELSE closed
  IN DestroyVideoWriter(silent)

InitFailedPipewire(p, r, o) == IF r.audio_active THEN Detach(p, o) ELSE p

(***************************************************************************)
(* capture_video_start() and capture_video_init_writers().  `audio' and    *)
(* `video' are the steps that fail, or "none".  Creating the audio's       *)
(* AVStream is tried only if there is audio.                               *)
(***************************************************************************)
VideoStart(o, wants_audio, audio, video) ==
  LET with_audio == wants_audio /\ ~DisableAudio
      r == Initialised(pw, rec[o], with_audio, audio, video)
      p == IF with_audio /\ video \notin BeforeAudio THEN InitAudioPipewire(pw, o, audio) ELSE pw
  IN /\ running
     /\ ~IsLive(rec[o])
     /\ {audio, video} \subseteq Faults \cup {"none"}
     /\ ~with_audio => audio = "none"
     /\ video \in ToSet(VideoSteps) \cup {"none"}
     /\ audio \in ToSet(PipewireSteps) \cup ToSet(AudioSteps) \cup {"none"}
     /\ video = "audio_av_stream" => r.audio_active
     /\ IF video = "none"
          THEN /\ rec' = [rec EXCEPT ![o] = [r EXCEPT !.stage = "CAPTURING"]]
               /\ pw' = p
               /\ tray_recording' = TRUE
          ELSE /\ rec' = [rec EXCEPT ![o] = InitFailed(r)]
               /\ pw' = InitFailedPipewire(p, r, o)
               /\ UNCHANGED tray_recording
     /\ UNCHANGED <<exit_requested, running>>

\* Where the drains and the queue of capture_video_finish() have been gone through.
Drained(r, faults) ==
  LET audio == IF r.audio_active THEN DrainCodec(r, "audio", faults) ELSE r
  IN DrainWriteQueue(DrainCodec(audio, "video", faults), faults)

\* `incomplete', as capture_video_finish() computes it from the failure mask
\* before it drains and from the results of what it does.
FinishIncomplete(r, faults) ==
  \/ r.failures # {}
  \/ r.audio_active /\ DrainFails(r, "audio", faults)
  \/ DrainFails(r, "video", faults)
  \/ "flush" \in faults
  \/ "trailer" \in faults

\* What the user is told, and what becomes of the file.
Reported(r, incomplete) ==
  IF r.in_file = {} THEN [r EXCEPT !.file = "unlinked", !.reported = "nothing"]
  ELSE [r EXCEPT !.file = "saved",
                 !.reported = IF incomplete THEN "incomplete" ELSE "complete"]

\* capture_video_finish(), of the writers.
Finished(r, faults) ==
  LET done == Reported([Drained(r, faults) EXCEPT
                          !.harmed = @ \/ "trailer" \in faults],
                       FinishIncomplete(r, faults))
      silent == [DestroyAudioWriter(done) EXCEPT !.audio_active = FALSE]
  IN [DestroyVideoWriter(silent) EXCEPT !.stage = "NONE"]

FinishFaults == {"drain_audio", "drain_video", "write_audio", "write_video", "flush", "trailer"} \cap Faults

\* The last lines of capture_video_finish().
TrayAfterFinish(recordings) == \E o \in Outputs : IsLive(recordings[o])

\* r is recording o as its handler leaves it before it finishes it.
Finish(o, r, faults) ==
  /\ pw' = IF r.audio_active THEN Detach(pw, o) ELSE pw
  /\ rec' = [rec EXCEPT ![o] = Finished(r, faults)]
  /\ tray_recording' = TrayAfterFinish(rec')
  /\ UNCHANGED <<exit_requested, running>>

-----------------------------------------------------------------------------
(* The handlers                                                            *)

\* handle_image_copy_capture_frame_ready(): `damaged' is whether the frame is
\* to be written.  A frame that cannot be written is the last one.
FrameReady(o, damaged, outcome, faults) ==
  LET encoded == IF damaged THEN Encode(rec[o], "video", "VIDEO_STREAM", outcome) ELSE rec[o]
      r == IF damaged /\ outcome \in {"encode_video", "write_video"}
             THEN RequestStop(encoded) ELSE encoded
  IN /\ running
     /\ IsLive(rec[o])
     /\ damaged \/ outcome = "kept"
     /\ IF r.stage = "STOP_REQUESTED" \/ exit_requested
          THEN Finish(o, r, faults)
          ELSE /\ faults = {}
               /\ rec' = [rec EXCEPT ![o] = r]
               /\ UNCHANGED <<pw, tray_recording, exit_requested, running>>

\* handle_image_copy_capture_frame_failed().
FrameFailed(o, faults) ==
  /\ running
  /\ IsLive(rec[o])
  /\ Finish(o, StreamFails(rec[o], "VIDEO_STREAM"), faults)

\* The outputs on_process() does not pass over.
TakesSamples(o) ==
  /\ o \in pw.active
  /\ IsLive(rec[o])
  /\ rec[o].failures \cap {"AUDIO_STREAM", "MUX"} = {}

(***************************************************************************)
(* on_process(): a chunk of samples goes to every recording that takes     *)
(* them.  One that fails asks for its own end and leaves the stream be,    *)
(* for the stream must survive its own callback.                           *)
(***************************************************************************)
OnProcess(outcome) ==
  /\ running
  /\ pw.started
  /\ \E o \in Outputs : TakesSamples(o)
  /\ rec' = [o \in Outputs |->
               IF ~TakesSamples(o) THEN rec[o]
               ELSE LET r == Encode(rec[o], "audio", "AUDIO_STREAM", outcome[o])
                    IN IF outcome[o] \in {"encode_audio", "write_audio"} THEN RequestStop(r) ELSE r]
  /\ UNCHANGED <<pw, tray_recording, exit_requested, running>>

\* scran_pipewire_update(), where the stream's loop cannot be iterated.
PipewireLoopFails ==
  /\ running
  /\ "pw_loop" \in Faults
  /\ pw.started
  /\ rec' = [o \in Outputs |->
               IF o \in pw.active /\ IsLive(rec[o])
                 THEN RequestStop(StreamFails(rec[o], "AUDIO_STREAM")) ELSE rec[o]]
  /\ UNCHANGED <<pw, tray_recording, exit_requested, running>>

\* The user stops a recording.
UserStops(o) ==
  /\ running
  /\ rec[o].stage = "CAPTURING"
  /\ rec' = [rec EXCEPT ![o] = RequestStop(@)]
  /\ UNCHANGED <<pw, tray_recording, exit_requested, running>>

\* scran_request_exit() asks every recording to stop.
RequestExit ==
  /\ running
  /\ ~exit_requested
  /\ exit_requested' = TRUE
  /\ rec' = [o \in Outputs |-> IF rec[o].stage = "CAPTURING" THEN RequestStop(rec[o]) ELSE rec[o]]
  /\ UNCHANGED <<pw, tray_recording, running>>

\* run_main_loop() returns once nothing is in progress, and takes PipeWire down.
Leave ==
  /\ running
  /\ exit_requested
  /\ \A o \in Outputs : ~IsLive(rec[o])
  /\ running' = FALSE
  /\ pw' = Destroy(pw)
  /\ UNCHANGED <<rec, tray_recording, exit_requested>>

Exited == ~running /\ UNCHANGED vars

Next ==
  \/ \E o \in Outputs :
       \/ \E wants_audio \in BOOLEAN, audio, video \in Faults \cup {"none"} :
            VideoStart(o, wants_audio, audio, video)
       \/ \E damaged \in BOOLEAN, outcome \in EncodeOutcomes("video"), faults \in SUBSET FinishFaults :
            FrameReady(o, damaged, outcome, faults)
       \/ \E faults \in SUBSET FinishFaults : FrameFailed(o, faults)
       \/ UserStops(o)
  \/ \E outcome \in [Outputs -> EncodeOutcomes("audio")] : OnProcess(outcome)
  \/ PipewireLoopFails
  \/ RequestExit
  \/ Leave
  \/ Exited

Spec == Init /\ [][Next]_vars

-----------------------------------------------------------------------------
(* What must hold                                                          *)

TypeOK ==
  /\ pw \in Pipewire
  /\ rec \in [Outputs -> Recordings]
  /\ tray_recording \in BOOLEAN
  /\ exit_requested \in BOOLEAN
  /\ running \in BOOLEAN

(***************************************************************************)
(* Whatever fails on the way, a recording that is over holds nothing, and  *)
(* the stream has its users and no others: an output is attached exactly   *)
(* while its recording has audio, so no assertion of attach and detach     *)
(* fails, and PipeWire's objects are there exactly while one is attached.  *)
(***************************************************************************)
NothingLeaks ==
  /\ \A o \in Outputs :
       /\ IsLive(rec[o]) => rec[o].held \cap VideoParts = VideoParts
       /\ ~IsLive(rec[o]) => rec[o].held = {} /\ ~rec[o].audio_active
       /\ rec[o].audio_active <=> AudioParts \subseteq rec[o].held
  /\ pw.active = {o \in Outputs : rec[o].audio_active}
  /\ pw.parts = IF pw.active = {} THEN {} ELSE PipewireParts
  /\ pw.started = (pw.active # {})
  /\ ~running => ~pw.inited

(***************************************************************************)
(* A file is there only while it is recorded to, or if the user was told   *)
(* that it was saved: a start that fails half way leaves none behind.      *)
(***************************************************************************)
NoFileIsLeftBehind ==
  \A o \in Outputs :
    /\ rec[o].file = "open" <=> IsLive(rec[o])
    /\ rec[o].file = "saved" <=> rec[o].reported \in {"complete", "incomplete"}
    /\ rec[o].file = "saved" => rec[o].in_file # {}

(***************************************************************************)
(* The user is told that a recording is complete if and only if nothing    *)
(* failed and nothing was lost, from its first frame to the trailer.       *)
(***************************************************************************)
ReportsAreTrue ==
  \A o \in Outputs :
    /\ rec[o].reported = "complete" => ~rec[o].harmed /\ rec[o].pending \cup rec[o].queued = {}
    /\ rec[o].reported = "incomplete" => rec[o].harmed

\* The tray shows a recording exactly while there is one, on whichever output.
TrayShowsRecordings == tray_recording <=> \E o \in Outputs : IsLive(rec[o])

\* The recordings share the stream as SharedStream says.
Stream == INSTANCE SharedStream WITH users <- pw.active, open <- pw.started
StreamIsShared == Stream!Spec
=============================================================================
