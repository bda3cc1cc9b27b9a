------------------------------ MODULE MCParts -------------------------------
(***************************************************************************)
(* The parts around the capture pipeline, side by side: the box of a       *)
(* selection; recordings and the audio stream they share; the audio clock; *)
(* the conversion of frames; the seat; the tray icon; the notifications.   *)
(*                                                                         *)
(* In these models the parts have no variable in common, so what holds of  *)
(* the steps of one holds in every interleaving with the others: part says *)
(* whose steps a behaviour has, and the others rest where they start.      *)
(* Parts with theorems are instantiated with these, for MCParts_proofs.    *)
(***************************************************************************)
EXTENDS SelectionBox

CONSTANTS Outputs, Solo,                               \* two outputs, and one
          DisableAudio,                                \* of Recording
          SampleRate, NsecPerSec, FrameSize,           \* of AudioClock
          MaxChunk, MaxSamples, MaxDelay,
          Padding,                                     \* of Rotation
          None, HasSelection, Selected,                \* of Seat
          Watchers, FewWatchers, Toggles,              \* of Tray
          Ring, Wrap, MaxFiles, FewFiles, MaxServers, MaxForeign \* of Notifications

VARIABLES part,
          pw, rec, tray_recording, exit_requested, processing,   \* of Recording
          next, dropped, sound,                                  \* of AudioClock
          image, transform, impl, step, stores,                  \* of Rotation
          kernel, from, half, vec, at, reg, stage,               \* of SimdBlocks
          pointer, trusted, keyboard, active, focused, shift, escaped, audio_off, videos, running,
          pointed, typing, pressed,                              \* of Seat
          sni, icon, out, in, watcher, alive, asked, items, counts, \* of Tray
          contexts, count, server_name, enabled, saved, calls, replies, server, servers,
          pending, notified, ids                                 \* of Notifications

-----------------------------------------------------------------------------
(* Constants and instances                                                 *)

\* Two pixels in a row, and a pointer on the second or beyond the first.
Row == [a \in Axes |-> 2]
OnRow == {[a \in Axes |-> -1], [a \in Axes |-> 1]}

\* One output: each way a start can fail, and all that can fail in a recording.
AllFaults ==
  { "loop", "core", "connect", "a_codec", "a_packet", "format", "packet", "audio_av_stream",
    "io", "header", "encode_video", "write_video", "encode_audio", "write_audio",
    "drain_video", "drain_audio", "flush", "trailer", "pw_loop" }

\* Two outputs and what is shared between them; with the clock of their sound.
SharedFaults == {"connect", "a_packet", "header", "encode_audio", "pw_loop"}

Writer == INSTANCE Recording_proofs WITH Outputs <- Solo, Faults <- AllFaults, running <- processing
Stream == INSTANCE Recording_proofs WITH Faults <- SharedFaults, running <- processing

\* Every small picture, and frames around the tiles of each implementation.
Around(cpu, ws, hs) == [fmt : {"yuv420"}, cpu : {cpu}, w : ws, h : hs]

Images ==
  [fmt : {"rgba32"}, cpu : {"fallback", "ssse3"}, w : 1..9, h : 1..9]
    \cup Around("fallback", {1, 2, 4, 6}, {1, 2, 4, 7})
    \cup Around("ssse3", {30, 32, 34, 66}, {32, 62})
    \cup Around("avx2", {62, 66, 130}, {64, 70})

Rotate == INSTANCE Rotation_proofs
Simd == INSTANCE SimdBlocks

\* Recordings of an output without a selection wait for the UI; with one everywhere, all start at once.
Seat == INSTANCE Seat_proofs WITH video <- videos
SelectedSeat == INSTANCE Seat_proofs WITH HasSelection <- Selected, video <- videos

\* A watcher may refuse the item, or answer after the call has timed out.
Tray == INSTANCE Tray_proofs WITH
          Refusals <- TRUE, Timeouts <- FALSE, MaxWatchers <- Watchers, MaxToggles <- 0
LateTray == INSTANCE Tray_proofs WITH
          Refusals <- FALSE, Timeouts <- TRUE, MaxWatchers <- FewWatchers, MaxToggles <- Toggles

\* A server that restarts, or one that hands its name over and lives on.
Notify == INSTANCE Notifications_proofs WITH
          Handovers <- FALSE, Length <- Ring,
          out <- calls, in <- replies, alive <- servers, asked <- pending, shown <- notified
HandedOver == INSTANCE Notifications_proofs WITH
          Handovers <- TRUE, Length <- Ring, MaxFiles <- FewFiles,
          out <- calls, in <- replies, alive <- servers, asked <- pending, shown <- notified

ASSUME PartsConstants ==
  /\ Solo \subseteq Outputs
  /\ Writer!RecordingOptions
  /\ Stream!ClockConstants
  /\ Rotate!ImagesAssumption /\ Rotate!PaddingAssumption
  /\ Seat!SeatOutputs /\ Selected = Outputs
  /\ Tray!TrayBounds /\ LateTray!TrayBounds
  /\ Notify!NotificationBounds /\ HandedOver!NotificationBounds

-----------------------------------------------------------------------------
(* Behaviours                                                              *)

selection == vars
recordings == <<pw, rec, tray_recording, exit_requested, processing>>
clock == <<next, dropped, sound>>
rotation == <<image, transform, impl, step, stores>>
simd == <<kernel, from, half, vec, at, reg, stage>>
conversion == <<rotation, simd>>
seat == <<pointer, trusted, keyboard, active, focused, shift, escaped, audio_off, videos, running,
          pointed, typing, pressed>>
tray == <<sni, icon, out, in, watcher, alive, asked, items, counts>>
notifications == <<contexts, count, server_name, enabled, saved, calls, replies, server, servers,
                   pending, notified, ids>>

PartsInit ==
  /\ part \in {"selection", "writers", "stream", "clock", "rotation", "simd",
               "seat", "selected", "tray", "late", "notifications", "handover"}
  /\ Init
  /\ IF part = "writers" THEN Writer!Init ELSE Stream!Init
  /\ Stream!Clock!Init
  /\ part # "rotation" => image = [fmt |-> "rgba32", cpu |-> "fallback", w |-> 1, h |-> 1]
  /\ part # "rotation" => transform = "normal"
  /\ Rotate!Init
  /\ IF part = "simd"
     THEN Simd!Init
     ELSE /\ kernel = [arch |-> "ssse3", plane |-> "rgba", transform |-> "normal"]
          /\ from = <<0, 0>> /\ half = 0
          /\ vec = 0 /\ at = 0 /\ reg = 0 /\ stage = "tile"
  /\ Seat!Init
  /\ IF part = "late" THEN LateTray!Init ELSE Tray!Init
  /\ part \notin {"tray", "late"} => watcher = Tray!Nobody
  /\ Notify!Init

\* The steps of each part.
SelectionNext == part = "selection" /\ Next
RecordingsNext == (part = "writers" /\ Writer!Next) \/ (part = "stream" /\ Stream!Next)
ClockNext == part = "clock" /\ Stream!Clock!Next
RotationNext == part = "rotation" /\ Rotate!Next
SimdNext == part = "simd" /\ Simd!Next
SeatNext == (part = "seat" /\ Seat!Next) \/ (part = "selected" /\ SelectedSeat!Next)
TrayNext == (part = "tray" /\ Tray!Next) \/ (part = "late" /\ LateTray!Next)
NotificationsNext == (part = "notifications" /\ Notify!Next) \/ (part = "handover" /\ HandedOver!Next)

PartsNext ==
  /\ UNCHANGED part
  /\ \/ SelectionNext /\ UNCHANGED <<recordings, clock, conversion, seat, tray, notifications>>
     \/ RecordingsNext /\ UNCHANGED <<selection, clock, conversion, seat, tray, notifications>>
     \/ ClockNext /\ UNCHANGED <<selection, recordings, conversion, seat, tray, notifications>>
     \/ RotationNext /\ UNCHANGED <<selection, recordings, clock, simd, seat, tray, notifications>>
     \/ SimdNext /\ UNCHANGED <<selection, recordings, clock, rotation, seat, tray, notifications>>
     \/ SeatNext /\ UNCHANGED <<selection, recordings, clock, conversion, tray, notifications>>
     \/ TrayNext /\ UNCHANGED <<selection, recordings, clock, conversion, seat, notifications>>
     \/ NotificationsNext /\ UNCHANGED <<selection, recordings, clock, conversion, seat, tray>>

PartsSpec ==
  PartsInit /\ [][PartsNext]_<<part, selection, recordings, clock, conversion, seat, tray, notifications>>

-----------------------------------------------------------------------------
(* Properties                                                              *)

\* See Recording: what a recording acquired is released, the stream has its users and no others, and no start
\* that failed half way leaves a file behind.
NothingIsLeftBehind ==
  IF part = "writers" THEN Writer!NothingLeaks /\ Writer!NoFileIsLeftBehind
  ELSE part = "stream" => Stream!NothingLeaks /\ Stream!NoFileIsLeftBehind /\ Stream!TrayShowsRecordings

\* See Recording: "complete" is said of recordings in which nothing failed and nothing was lost.
ReportedIsTrue == IF part = "writers" THEN Writer!ReportsAreTrue ELSE part = "stream" => Stream!ReportsAreTrue

\* See AudioClock: the frames of an encoder never go back in time nor stand still, their newest sample is heard
\* when it was presented, none is from before the start of the video, and nothing is lost or doubled between
\* chunks, nor taken from the other recording.
SoundIsInTime ==
  part = "clock" =>
    /\ Stream!Clock!PtsIncrease /\ Stream!Clock!NewestSampleIsOnTime
    /\ Stream!Clock!SoundStartsWithTheVideo /\ Stream!Clock!SamplesAreConsecutive

\* See Rotation: every store puts the reference's pixel into its own plane.
EveryStoreIsRight == part = "rotation" => Rotate!EveryStoreIsRight

\* See Rotation: no kernel reads past the image, no byte of the output is left unwritten, and no CPU refuses
\* what another converts.
ImagesAreWhole == part = "rotation" => Rotate!ReadsStayInside /\ Rotate!NothingIsLeftOut /\ Rotate!CpuDoesNotDecide

\* See SimdBlocks: every byte of a block ends where the turn puts it.
BlockIsTurned == part = "simd" => Simd!BlockIsTurned

\* See Recording: whatever the recordings do with the audio stream, each has it from attach to detach.
StreamIsShared == Stream!StreamIsShared

\* See Seat: keys act on the output the user points at, or else on the one with the keyboard.
ActiveIsPointedAt == IF part = "selected" THEN SelectedSeat!ActiveIsPointedAt ELSE Seat!ActiveIsPointedAt

\* See Seat: a recording has the audio choice of its key press, however long the UI kept it waiting.
RecordingKeepsItsChoice == Seat!RecordingKeepsItsChoice

\* See Seat: while an output records, no single Escape ends the session when the seat acts on no output.
OneEscapeKeepsTheSession == Seat!OneEscapeKeepsTheSession

\* See Seat: with Shift and Space a recording is without audio, if no recording of its output has waited for the
\* UI before; and the modifier is that of the active output.
ShiftTurnsAudioOffAtOnce == part = "selected" => SelectedSeat!ShiftTurnsAudioOff /\ SelectedSeat!ModifierFollowsFocus

\* See Tray: scran takes its icon for registered if and only if there is a watcher and it has the icon. Where
\* answers come too late for that, a watcher that has the item still shows the icon of what scran does, and the
\* reply to a registration finds scran owning its name.
IconIsShown ==
  IF part = "late" THEN LateTray!IconIsCurrent /\ LateTray!RepliesFindTheName ELSE part = "tray" => Tray!RegisteredIsShown

\* See Notifications: a click opens the file that its notification is about, or nothing.
ClickOpensItsFile == part \in {"notifications", "handover"} => Notify!ClickOpensItsFile

\* See Notifications: scran closes only notifications of its own that newer ones have overtaken; and with a
\* server that lives until it ends, every notification on the screen opens its file.
OpenOnesAreStored ==
  /\ part \in {"notifications", "handover"} => Notify!ClosesOnlyOvertaken
  /\ part = "notifications" => Notify!OpenOnesAreStored
=============================================================================
