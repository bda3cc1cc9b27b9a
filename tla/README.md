# A specification of scran

scran captures images and videos of Wayland outputs, of a selection or of whole
outputs. It is one thread and one loop: events of the keyboard, the pointer and
the compositor are handled one at a time, and everything the program does
happens in a handler. What makes it hard is not parallel execution but what
lies *between* two handlers. A capture of a whole output first has to take the
program's own UI off the screen, which takes a round trip to the compositor; a
frame is requested in one handler and answered in another, after the user has
pressed three more keys; a buffer that is needed may still be on screen; exit
is requested while a recording, a freezeframe and a hide are under way.

These modules model that core, the capture pipeline with everything that drives
it, and the parts around it that have a life of their own: the box of a
selection, the writers and the audio of recordings, the seat, the loop, the
clipboard, the tray icon, the notifications and the conversion of pixels. They
are checked with TLC on small instances, and the properties that matter most are
proved with TLAPS for every number of outputs, every option and every order of
events.

## The system

| Component | Source | State it keeps | Operations |
|---|---|---|---|
| Selection surface | `src/src/selection-surface.c`, `selection.c`, `event-handlers/surface/selection.c`, `event-handlers/buffer.c` | two buffers (busy, drew the capture UI), the frame callback, the mask of reasons it is disabled for, the transparent pixel | arm a frame callback, draw and commit, hide and release the hide, fuse off |
| Fullscreen pipeline | `src/src/capture/capture.c:84-268` | consumers that are active and that await the UI, the state of the UI, `exit_after_capture` | start and end a consumer, sync the UI, dispatch what waited for it |
| Image and video | `src/src/capture/capture.c`, `src/include/capture.h`, `event-handlers/image-copy-capture-frame.c` | the frame in flight and its consumers, the session it is created from, the stage of the video, `n_captures_in_progress` | start, stop, fail, finish; switch the session with the cursor |
| Freezeframe | `src/src/freezeframe.c`, `init/freezeframe.c` | stage, the buffer captured into, the buffer rotated into, a callback waiting for either | refresh, hide, show, finish; the first one at startup (`-z`) |
| Exit, stdout | `src/src/util/state-util.c`, `src/include/state-util.h` | `exit_requested`, `active_stdout_reservation` | request exit; reserve and release stdout (`-o -`) |
| Selection | `src/src/selection.c`, `src/include/selection.h` | state of the selection, frozen size | initialize, freeze, unfreeze, rebase, resize |
| Keyboard, pointer | `event-handlers/keyboard.c`, `event-handlers/pointer.c` | focus, the active button, the escape that only warned | the keys, motion, buttons, enter and leave |
| Seat | `src/src/seat.c` | which output the input belongs to, trust, the audio modifier | recompute the active surface |
| Main loop | `src/src/main.c` | whether it runs; what it polls and for how long | poll and dispatch, sync the sessions, update the UI, exit |
| Signals | `src/src/main.c` | the mask around the sleep, the flag that a signal came | SIGUSR1 grabs the focus |
| Audio | `src/src/pipewires.c` | one stream of PipeWire, iterated by the main loop; who uses it | attach, process, detach |
| Writers | `src/src/capture/write/*.c` | encoders, a muxer, what failed | start, write a frame, drain, finish |
| Clipboard | `src/src/clipboard.c`, `event-handlers/data-control.c` | sources that are offered, what they share, their count | offer, send, cancel, outlive the windows |
| Tray | `src/src/dbus/tray.c` | whether the item is named and registered, the icon | register with watchers that come and go |
| Notifications | `src/src/dbus/notification.c` | a ring of the last files with their ids | notify, close, open on a click |
| D-Bus connection | `src/src/dbus/` | the bus, its timers and what was read ahead | process, update what the loop waits for |
| Pixel conversion | `src/scranrot/` | none | turn to RGBA or to YUV 4:2:0: in C, SSSE3, AVX2 |
| Transforms, boxes | `src/src/util/util.c` | none | rotate, clamp and scale boxes |
| Everything else | `ui/`, `cursor.c`, `options.c`, `event-handlers/registry.c` ... | | set up once, or draw |

How they interact. A key or a button starts a capture: of the selection
directly (`capture_image_start()`, `capture_video_start()`), of the whole output
through the fullscreen pipeline. The pipeline asks the selection surface to hide
or to show the capture UI, and learns of it from presentation feedback; then it
dispatches the consumers that waited, who start an image, a video or a
freezeframe. Image and video share one frame per output; the freezeframe has its
own. The compositor's `ready` or `failed` finishes what was captured, which ends
the fullscreen consumer, which may bring the UI back for the next one.
`scran_request_exit()` gives up what still waits, asks recordings to stop, fuses
the surfaces off, and the loop ends once nothing is in progress any more.

What is hard:

- a consumer joins, ends or is given up while a hide or a show is on its way;
- an image and a video want different things of the UI, and one frame serves both;
- a stop, an exit or a switch of the session destroys a frame others wait for;
- one of several consumers fails to start, after others were started with it;
- a buffer is still read by the compositor when it is needed, so that a draw or
  a capture has to be made up for later;
- the compositor answers late, discards, fails, or hands a buffer back and it is
  drawn again before the feedback of the earlier commit arrives;
- a button is pressed in one state of the program and released in another;
- the counts and reservations that decide over exit and over stdout are taken
  and given back in different functions, on different paths;
- a recording freezes the size of what it takes, while drags, keys and answers
  of the compositor go on and the captured area follows the screen;
- one audio stream serves all recordings; each may fail in any of some thirty
  calls, at the start, on the way or at the end, and has to give back just what
  it got;
- the loop sleeps on file descriptors while work may lie in queues that no
  descriptor tells of, and a signal may come just before it sleeps;
- other processes (tray watchers, notification servers, whoever pastes) die, are
  replaced, number their things alike, and answer when they like;
- a kernel for blocks of 32 has to do images that no 32 divides.

Each is listed under "hazards" in `PROJECT.json`, at its line, with the
properties that catch it going wrong.

## The modules

```
SelectionSurface   one output's selection surface        selection-surface.c, selection.c
   OutputCapture   one output's pipeline                 capture.c, freezeframe.c
      Capture      what the outputs share                capture.c, freezeframe.c, state-util.h
         Scran     the variables, the handlers, Next     event-handlers/*, main.c
            ScranProperties    what must hold
               MCScran         the instances for TLC
               ScranInvariants    the inductive invariants, and their parts
                  Scran_proofs    what each function does, and the theorems
Exit               what exit promises                    (abstract)

SelectionBox       the box of a selection, the screen    pointer.c, selection.c, capture.c
SharedStream       what recordings may rely on           (abstract)
   Recording       writers and the stream they share     write/video.c, pipewires.c
AudioClock         the timestamps of the sound           pipewires.c
Rotation           kernels, tiles and edges              scranrot
   SimdBlocks      a block between load and store        scranrot, ssse3.c and avx2.c
Seat               foci, trust, the audio modifier       seat.c, pointer.c, keyboard.c
Tray               the tray item and its watchers        dbus/tray.c
Notifications      notifications and their servers       dbus/notification.c
   Recording_proofs, Rotation_proofs, Seat_proofs, Tray_proofs, Notifications_proofs
                   the theorems of each part; Recording_proofs has the clock's, too
   MCParts         these parts, side by side
      MCParts_proofs     the theorems of what MCParts checks, and of SelectionBox
MainLoop           what the loop waits for               main.c, dbus
Clipboard          sources and the keepalive             clipboard.c, data-control.c
   MCWaits         the loop, the clipboard, the tray: what must come to pass
      MCWaits_proofs     the theorems of the loop and of the clipboard
```

There are two kinds of module. The first five are the pipeline, in one state and
layered like the program's files. The others each take one part that the
pipeline treats as a choice, and in turn treat the pipeline as a choice: *when*
a recording starts is `Scran`'s subject and nondeterministic in `Recording`,
*whether* its writers start is `Recording`'s and nondeterministic in `Scran`. So
each shows what holds whatever the other does.

In the pipeline, the state of the program is `g_state`, and so is the state of
the model: the variable `g` is a record whose `outputs` are records shaped like
`struct scran_output`. A C function that changes that state is an operator from
state to state, in the module of its file and under its name in camel case:
`capture_fullscreen_start()` is `FullscreenStart`, `freezeframe_capture_refresh()`
is `FreezeframeRefresh`. Where a function also returns something, the predicate
next to it says what (`ImageStarts`, `FullscreenStarted`). An *action* is one
event handler, whole: everything it calls, in the order it calls it, is in the
operator that gives `g'`. Handlers are atomic because the program is single
threaded; between any two of them anything else may come.

- **SelectionSurface**: the buffers and the wait for one to be free, the frame
  callback of which at most one is outstanding, the mask of reasons for which
  nothing is drawn, the transparent pixel that a hide commits. `feedback` is the
  compositor's side: the queue of commits it has been asked to report on, in
  order. What is drawn is reduced to whether the capture UI is part of it.
- **OutputCapture**: requests and destruction of frames, the states of the UI
  (`SyncUi`, `AcquireUiHide`, `ReleaseUiHide`), the freezeframe's two waits for
  a buffer, and what exit does to one output. The assertions of the code become
  `Check(x, condition, where)`: a failed one is recorded and execution goes on,
  so that `NoAssertFails` is an invariant like any other.
- **Capture**: what involves more than one output or `g_state` itself: the
  reservation of stdout, exit, dispatch, start and finish of each capture.
- **Exit** is the abstract specification of scran's exit, in two actions: a
  handler, which may capture what it likes until exit is requested, and the
  return of the loop. `ExitIsKept` of `ScranProperties` is the refinement, with
  `waiting`, `fullscreen` and `frames` the consumers of all outputs.
- **Scran**: the handlers as actions. `seat` has the pointer's focus, the
  buttons that are physically held (of which the program only knows
  `active_button`), and the escape that only warned.

Around the pipeline, with the variables and actions named after the code:

- **SelectionBox**: `box`, which the pointer and the arrow keys move and resize
  (`pointer.c`, `keyboard.c`, `selection.c`), per axis, clamped and inverted as
  the code does it; the two buffers it is drawn into and the commits that the
  compositor has yet to answer; and `area`, which is what a capture takes and
  which follows the commit that was answered (`capture.c:20-40`). A recording
  freezes the size in between.
- **Recording**: every call that can fail of `capture_video_init_writers()`,
  `init_ffmpeg()`, `init_ffmpeg_audio()`, `scran_pipewire_start()`, encoding,
  draining, writing and finishing is a member of `Faults`; `held` and `pw.parts`
  are what has to be released. Of the data only this is left: whether a stream
  has something in its encoder, in the muxer or in the file.
- **SharedStream** is the abstract specification of the audio stream: it is open
  exactly while somebody uses it, each attaches and detaches once.
  `Recording!StreamIsShared` is the refinement, with `users <- pw.active` and
  `open <- pw.started`.
- **AudioClock**: samples are numbered, and `on_process()` with its rounding to
  nanoseconds, to frames of the encoder and to timestamps is followed for all
  recordings that begin at different times on one stream.
- **Rotation** and **SimdBlocks**: the entry points, the dispatcher with its
  divisible area and three edges, and the address every kernel stores a pixel
  at; and inside a block the packing, the lanes and the passes of interleaving.
- **Seat**: enter, leave and destruction of surfaces for pointer and keyboard,
  trust, the modifiers, Escape, and the audio choice that a recording carries
  through its wait for the UI.
- **MainLoop**: one action per stage of a turn of `run_main_loop()`, with the
  Wayland queue, the bus (descriptor, timer, messages read ahead, the limit per
  turn), the UI's clock and the signal, which is let through only in the sleep.
- **Clipboard**: `clipboard_update()`, the sources' `send` and `cancelled`, and
  the process that stays behind. Requests and events are queues, so a source may
  be asked after it was replaced.
- **Tray**, **Notifications**: scran, the message bus and the other side, with
  queues both ways; watchers and servers appear, die, hand their name over and
  answer late or with an error.

### Abstractions

In the pipeline's modules:

- Coordinates. A selection is its state, not its box: motion may change it.
  Whether an arrow key shifts anything is a choice. `SelectionBox` has the rest.
- Writers and audio. `ok` is whether `capture_video_init_writers()` succeeds,
  `written` whether a frame of the video could be written. Of audio only the
  failure that stops a recording is there (`AudioFailed`). `Recording` has the
  rest.
- Focus. The active output is the one the pointer is on, or any the keyboard
  may be on while it is on none, or none, and a key that does nothing is no step
  (with no output active, such a key would clear `escape_warned`; the model
  leaves it set). `Seat` has how the seat arrives there, and that key.
- With `--slurp` an image is printed instead of captured; the printing itself
  cannot be observed.
- Freezeframes are begun on an output whose freezeframe is idle. The dispatch of
  one that need not wait for the UI is spelled out for it alone; that nothing
  else can be waiting there is checked like an assertion of the code.
- `Check` covers the assertions that `Assertions` lists. The one on the dimensions
  of a recording (`capture.c:311`) needs coordinates, so it is checked with
  `SelectionBox`, where it fails (`empty_recording`).
- Event order. Feedback is answered in the order of the commits. Everything
  else comes in any order: that is more than a compositor does, so what holds
  here holds there.

Around it:

- `SelectionBox` has one output; when the pipeline hides or changes its UI is a
  choice, at any time. An axis is independent of the other except in the sizes.
- `Recording` forgets what is in a frame; libav keeps a frame, queues packets or
  writes them, as it likes. It writes to files: with `-o -` the code has no file
  to unlink.
- `SimdBlocks` follows one pixel through the registers: what the instructions do
  to its place does not depend on the data.
- `Rotation` says for each store which source pixel it is made from. The
  arithmetic that makes colours of pixels is left out.
- `MainLoop`'s handlers are what concerns the loop: requests they send, videos
  they start, the exit.
- In `Notifications` and `Tray` a file, an icon or a watcher is a number, and
  sd-bus takes every message it is given: what the servers and watchers do not
  answer, refuse or answer late is modelled, a failing call of sd-bus is not.

## What is checked

The runs of the pipeline are of `MCScran`, which names the sets of inputs. They
differ in options because options change which part of the code is reached; an
input that a question does not turn on only multiplies the states of the others.

The parts around the pipeline are checked side by side, in `MCParts` (safety,
action properties, the refinement) and `MCWaits` (liveness). In the models they
have no variable in common, so a property of one holds in an interleaving with
the others if it holds of that part's own steps: the variable `part`, chosen at
the start, says whose steps a behaviour has, and the variables of the other parts
rest. This is a sum of state spaces and not their product. Some parts are there
twice, with constants that make different things happen. Where a part has
theorems `MCParts` instantiates the module that has them, so that
`MCParts_proofs` can cite them.

| Run | Instance | Shows | Distinct states |
|---|---|---|---|
| `capture_ui` | one output that has to be rotated; S, Z, Return, Space, Escape, Tab; any feedback may be discarded | `TypeOK`, `NoAssertFails`, `AwaitedUiIsChanging`, `UiIsGoneFromCaptures`, `HideIsAnsweredOnce`, `CapturesAreCounted`, `FreezeframeHasItsBuffer`, `ExitIsKept` (`Scran` implements `Exit`) | 85 271 |
| `recording` | one output, a pointer and both sessions; Return, Space, Escape, arrows, buttons | `NoAssertFails`, `FrameServesItsConsumers`, `RecordedSizeIsFixed`, `GesturesHoldTheirButton` | 105 256 |
| `two_outputs` | two outputs, one with a selection from the command line, `-o -`, UI hidden; Return, Space, Escape | `StdoutHasOneWriter`, `NothingIsCutOff` | 40 451 |
| `exit_ends` | one output, exit after a selection; both sessions | `ExitEnds` | 74 457 |
| `ui_settles` | one rotated output with `-z` and `--slurp`; S, Z, Return, Space | `AwaitedUiSettles`, `FreezeframesEnd` | 19 286 |
| `parts` | twelve parts: `selection`, `writers`, `stream`, `clock`, `rotation`, `simd`, `seat`, `selected`, `tray`, `late`, `notifications`, `handover` | see below | 1 612 364 |
| `waits` | three parts: `loop`, `clipboard`, `tray` | see below | 319 996 |

What `parts` shows, by part:

| Part | Properties | In words |
|---|---|---|
| `selection` | `RecordedSizeIsKept` | while a selection is recorded, box and area keep the size of the writers, and neither leaves the output |
| | `AreaIsWhatIsShown` | once everything is answered, what is captured, shown and dragged is the same |
| `writers` (one output, all faults), `stream` (two outputs that share) | `NothingIsLeftBehind` | what is acquired is released, on every path; no failed start leaves a file |
| | `ReportedIsTrue` | the user is told "complete" only if nothing failed and nothing was lost |
| `stream` | `StreamIsShared` | the recordings implement `SharedStream` |
| `clock` | `SoundIsInTime` | timestamps increase, sound is in time with the picture, no sample is lost or doubled between chunks |
| `rotation` | `EveryStoreIsRight`, `ImagesAreWhole` | every byte written is the right one and none is left out, nothing is read outside, the CPU does not decide whether an image is converted |
| `simd` | `BlockIsTurned` | every byte of a block ends where the turn puts it |
| `seat`, `selected` | `ActiveIsPointedAt`, `RecordingKeepsItsChoice`, `OneEscapeKeepsTheSession`, `ShiftTurnsAudioOffAtOnce` | keys act where the user points; a recording has the audio choice of its key press; one Escape does not end a session that records elsewhere |
| `tray`, `late` | `IconIsShown` | scran takes its icon for shown if and only if it is |
| `notifications`, `handover` | `ClickOpensItsFile`, `OpenOnesAreStored` | a click opens its own file or nothing; only overtaken notifications are closed |

And `waits`:

| Part | Properties | In words |
|---|---|---|
| `loop` | `SleepsWithNothingToDo` | the loop never sleeps on work that is there already |
| | `TimersAreServed`, `SignalIsAnswered` | an expired timer, the clock of a recording and a signal are served, whatever floods the loop |
| `clipboard` | `SelectionIsKept`, `PastesAreOfOneCapture` | scran stays while it has the selection; what is pasted is of one capture |
| | `KeepaliveEnds` | it ends once something else was copied |
| `tray` | `StayingWatcherGetsTheItem` | a watcher that stays gets the item, whoever came before |

The properties are in `ScranProperties` and at the end of each module, with what
they say of the code. Five more runs, each of one property that the code does not
have, are the subject of *Where the code and what is said of it differ*.

### Bounds

- **Outputs**: one, or two where outputs meet: at stdout, at exit, at the
  freezeframes (Z acts on all), at the audio stream and at the seat. Two outputs
  have no other state in common, and the proofs below are for any number.
- **MaxFeedback**: a buffer of the surface is handed back only while fewer than
  this many commits are unanswered. With two buffers and the pixel of a hide,
  1 still lets a hide, a redraw and a show be outstanding together; the run that
  turns on a buffer being redrawn early has 2. The proofs have no bound.
- **Discards**: which feedback may be discarded: none, what a later commit
  replaced, or any. For liveness the compositor has to show something in the
  end, so `ui_settles` has `REPLACED`.
- **Axes, Extent, Positions** (`selection`): one axis of two pixels, and a
  pointer on the second pixel or before the first: enough for a box that is
  empty, one pixel or the whole axis, for clamping, inversion and both resizes.
  **MaxCommits** 2: one per buffer. The proof has any number of axes, any extent
  and any positions.
- **Faults**: with one output every distinct way a start can fail (of calls
  after which the same is held, one) and all that can fail later; with two, one
  of each stage of the shared stream. The refinement's proof has any faults.
- **SampleRate, NsecPerSec, FrameSize, MaxChunk, MaxSamples, MaxDelay**
  (`clock`): 3 samples in 8 units of time, so that no sample's time is whole;
  chunks that fill up to two frames and leave a rest, starts before, in and after
  a chunk.
- **Images** (`rotation`): every size from 1x1 to 9x9 for RGBA with tiles of 4,
  and for YUV sizes below, at, between and above the tiles of each implementation,
  so that each of the four calls is made or not; **Padding** 1. The proof has any
  size and any padding. `simd` needs no bound: all pixels of all blocks.
- **Watchers, FewWatchers, Toggles**: three watchers that may refuse, or two that
  may answer after the call has timed out, with two changes of the icon.
- **Ring, Wrap, MaxFiles, FewFiles, MaxServers, MaxForeign**: a ring of 2 that
  five files go round twice, with a counter that wraps at 4; two servers and one
  id of another program, which is what a wrong match takes.
- **Limit, MaxWayland, MaxBus, MaxSignals** (`loop`): a turn handles 2 messages
  and 3 may wait, so one is left in the queue that no descriptor tells of; the
  second signal comes while the first is handled.
- **MaxCaptures, MaxEvents** (`clipboard`): three captures, so that a source is
  replaced and its successor is, too.
- Nothing else is bounded. Every action and every disjunct of the next-state
  relations occurs in some run.

### Fairness

Liveness of the pipeline is checked of `FairSpec`. It assumes:

- the loop goes round (`poll` returns) and the outputs are initialised. That an
  output is outdated, and so redrawn, is *not* assumed of the loop: a redraw that
  the code forgets to ask for must show;
- the compositor answers feedback and frame callbacks, a capture frame that was
  *forced*, that is, one after whose request the surface was damaged, and a
  frame of a freezeframe;
- of two busy buffers one was replaced on screen and is handed back, and so is a
  freezeframe's buffer once it is not showing.

A frame that was not forced is *not* assumed to be answered: a compositor may
wait for damage for ever, and `capture_request_frame_forced()` is there because
of it. Nor is any user's input assumed. That is why `ExitEnds` is worth
checking: a recording that is asked to stop, and a session that is switched,
both have to force the frame they wait for.

The assumption is weak fairness of these events. It is written as
`[]<>(~pending) \/ []<><<event>>_vars`, with what enables an event written out,
which TLC evaluates faster than `ENABLED`. `pending` includes that the loop
runs, so nothing is asked of a compositor after the end.

`UserIsQuiet` is the premise of the three properties: a user who presses Return
on a selection again and again prolongs an exit, one who presses S again and
again a wait for the UI.

In `waits` (`WaitsFairness` joins what each module states as its own):

- `MainLoop`: the loop is scheduled (`WF(Step)`). What arrives is not assumed to
  arrive, nor to stop: that the bus or Wayland never falls silent must not starve
  anything. A signal is delivered only in a sleep that finds nothing else ready,
  since `epoll_pwait()` reports ready descriptors first; that some sleep does
  is `SF(SignalArrives)`.
- `Clipboard`: both loops of scran handle the events they are sent, and the
  compositor carries out `set_selection`. Nothing is assumed of those who copy
  and paste; that the selection is in the end not scran's is a premise of
  `KeepaliveEnds`.
- `Tray`: scran processes its messages, the bus passes messages on, and a watcher
  that lives answers. That one stays is a premise.

## What is proved

Every safety property that a passing run checks is a theorem, with one exception
that is named below. The theorems hold for all sets of outputs, all options, any
feedback outstanding, and all values of the other constants that the named
assumptions allow. Two need more, and say so: with `-p` an assertion fails, and
gestures are held on one output.

The pipeline, in `Scran_proofs`:

| Theorem | States |
|---|---|
| `TypeCorrect` | `Spec => []TypeOK` |
| `UiIsNeverCaptured` | `Spec => []UiIsGoneFromCaptures` |
| `AwaitingIsAnswerable` | `Spec => []AwaitedUiIsChanging` |
| `AssertsHold` | `Spec => [](~UsePressesOnly => NoAssertFails)` |
| `HideIsAnsweredExactlyOnce` | `Spec => []HideIsAnsweredOnce` |
| `CapturesAreCountedAlways` | `Spec => []CapturesAreCounted` |
| `FreezeframeHasItsBufferAlways` | `Spec => []FreezeframeHasItsBuffer` |
| `FrameAlwaysServesItsConsumers` | `Spec => []FrameServesItsConsumers` |
| `RecordedSizeIsAlwaysFixed` | `Spec => []RecordedSizeIsFixed` |
| `StdoutAlwaysHasOneWriter` | `Spec => []StdoutHasOneWriter` |
| `NothingIsEverCutOff` | `Spec => []NothingIsCutOff` |
| `ExitIsAlwaysKept` | `Spec => ExitIsKept`, the refinement of `Exit` |
| `GesturesAlwaysHoldTheirButton` | `Spec => []GesturesHoldTheirButton`, if `OneOutput` and `~UsePressesOnly` |

What `MCParts` and `MCWaits` check, of their own specifications:

| Theorem | States | Rests on |
|---|---|---|
| `SelectionPartIsRight` | `PartsSpec => [](RecordedSizeIsKept /\ AreaIsWhatIsShown)` | `SelectionKeepsItsSize`, `AreaIsAlwaysWhatIsShown` |
| `NothingIsEverLeftBehind` | `PartsSpec => []NothingIsLeftBehind` | `NothingEverLeaks`, `NoFileIsEverLeftBehind`, `TrayAlwaysShowsRecordings` of `Recording_proofs` |
| `ReportedIsAlwaysTrue` | `PartsSpec => []ReportedIsTrue` | `ReportsAreAlwaysTrue` of `Recording_proofs` |
| `StreamIsAlwaysShared` | `PartsSpec => StreamIsShared`, the refinement | `RecordingsShareTheStream` of `Recording_proofs` |
| `SoundIsAlwaysInTime` | `PartsSpec => []SoundIsInTime` | the theorem of this name of `Recording_proofs` |
| `EveryStoreIsAlwaysRight` | `PartsSpec => []EveryStoreIsRight` | `StoresAreAlwaysRight` of `Rotation_proofs` |
| `ImagesAreAlwaysWhole` | `PartsSpec => []ImagesAreWhole` | `ReadsAlwaysStayInside`, `NothingIsEverLeftOut`, `CpuNeverDecides` of `Rotation_proofs` |
| `KeysActOnThePointedOutput` | `PartsSpec => []ActiveIsPointedAt` | `SeatFollowsThePointer` of `Seat_proofs` |
| `ChoiceIsAlwaysKept` | `PartsSpec => []RecordingKeepsItsChoice` | `RecordingsKeepTheirChoice` of `Seat_proofs` |
| `ShiftAlwaysActsAtOnce` | `PartsSpec => []ShiftTurnsAudioOffAtOnce` | `ShiftActsAtOnce` of `Seat_proofs` |
| `EscapeAlwaysWarnsFirst` | `PartsSpec => OneEscapeKeepsTheSession` | `EscapeWarnsFirst` of `Seat_proofs` |
| `IconIsAlwaysShown` | `PartsSpec => []IconIsShown` | `RegistrationIsAlwaysShown`, `IconIsAlwaysCurrent`, `RepliesAlwaysFindTheName` of `Tray_proofs` |
| `ClickAlwaysOpensItsFile` | `PartsSpec => []ClickOpensItsFile` | `ClicksAlwaysOpenTheirFile` of `Notifications_proofs` |
| `OpenNotificationsAreStored` | `PartsSpec => []OpenOnesAreStored` | `OnlyOvertakenOnesAreClosed`, `OpenOnesAreAlwaysStored` of `Notifications_proofs` |
| `LoopSleepsWithNothingToDo` | `Spec => []SleepsWithNothingToDo` of `MainLoop` | |
| `SelectionIsAlwaysKept` | `WaitsSpec => []SelectionIsKept` | `ClipboardHolds` |
| `PastesAreAlwaysOfOneCapture` | `WaitsSpec => PastesAreOfOneCapture` | `ClipboardHolds` |

The theorems on the right are of the parts' own `Spec`, for all values of their
constants. Those on the left apply them to the instances of the runs: a behaviour
of `PartsSpec` is one of its part while `part`, which never changes, says so
(`RecordingsOfAPart`, `SeatOfAPart`, ...).

The assumptions are those named in the modules: `OutputOptions`, `CaptureOptions`,
`ScranOptions` for the pipeline, `SelectionBoxConstants` for the selection,
`RecordingOptions`, `SeatOutputs`, `TrayBounds`, `NotificationBounds`,
`ImagesAssumption` and `PaddingAssumption` for the conversion (a width, a height
and a padding are numbers), the bounds of `MainLoop` and `Clipboard`, and for the
clock `ClockIsFinerThanSamples` and `RoundingsAreSmall`. `PartsConstants` and
`WaitsConstants` collect them for the runs. They ask for types (a bound is a
number, an output is not `NoOutput`) and of the code's constants what they have:
the length of the ring divides the values of its counter (a power of two, as
`notification.c:40-43` asserts, and those of an `unsigned int`), a nanosecond is
shorter than a sample, and the few roundings in a timestamp add up to less than a
frame (at 48 kHz one of 1024 samples takes 21 ms). One bound is in a guard and so
in the theorems: the counter of the notifications does not come round while a
reply is on its way (`NoWrapInFlight`), which would take 2^32 files.

### The pipeline

A handler of scran calls functions that call functions, so the proof does not
go by cases over handlers and conjuncts of an invariant. It follows the code:
each function gets one lemma that says what it may do to the state, and a
caller's lemma follows from those of what it calls, because what they say is
transitive. The first part of `Scran_proofs` does this twice, with the relations
and invariants of `ScranInvariants`.

The first time is about what no step may do.

- For a surface, `Keeps(a, b)`: b is a surface, and covered (the transparent
  pixel on it, and disabled for `FULLSCREEN_HIDE`) if a is.
- For an output, `Follows(x, y)`: y is an output, no consumer joined or waits
  again, `UiIsGone` holds of y if it does of x, and so does `UiIsChanging`.
- For the whole state, `Obeys(s, t)`: the same of every output, where a consumer
  may join unless exit was requested; and nothing waits once it is (`GivenUp`).

Two parts of this are what an inductive invariant needs.

`UiIsGoneFromCaptures` is not inductive: a dispatched image needs a covered
surface *because* it was covered when the hide became pending, before there was
an active consumer. `UiIsGone` says so: in `HIDE_PENDING` and in `HIDDEN` the
surface is covered. It also needs that a dispatch happens only in a settled
state (`DispatchAwaitingObeys` assumes `UiSettled`, which
`SyncUiAndDispatch` checks).

`AwaitedUiIsChanging` is broken inside a handler: a consumer is entered in
`awaiting_ui`, and a presented feedback moves the UI to `SHOWN`, before
`capture_fullscreen_sync_ui_and_dispatch()` is called. `ObeysBut(s, t, o)` is
the relation that holds there, and `SyncUiAndDispatchRepairs` shows that the
call always makes up for it. A handler that forgot the call would leave a gap
at exactly that step of its proof.

`StepObeys` (every step obeys, `NextSteps`) then gives the first three theorems:
`UiInv`, that is `TypeOK` with `UiIsGone` and `UiIsChanging` of every output, is
inductive.

The second time is about what holds between any two handlers. `Sound` says it of
an output, with everything the assertions of the code rely on; but inside a
handler less holds, and what less depends on where. So there are three layers,
each with its lemmas:

- `Balanced` holds even while what awaited the UI is being dispatched: the
  compositor owes an answer to each pending hide, the count is that of the
  captures, a frame is in flight exactly for its consumers.
- `Steady` holds within a handler up to the sync that ends it. It adds that the
  consumers are what they say: one that awaits the UI has not begun, and one that
  is active has; and that a freezeframe waits for exactly one thing.
- `Sound` adds what the sync repairs: that the UI of a waiting consumer is
  changing, and that the frozen size belongs to a recording.

`SoundState` is `Sound` of all outputs with `StdoutIsOwned`, which relates
outputs: exactly the capture that writes to stdout has it reserved. `Quiet` and
`Calm` say what a step leaves alone, in particular `failed_asserts`: each `Check`
of the model is shown to find its condition true in a sound state. `SoundInv`,
with `TypeOK` and that the pointer's focus is a mapped surface, is inductive, and
the theorems from `AssertsHold` to `ExitIsAlwaysKept` follow from it. None of the
invariants is inductive alone: that a frame has its consumers is what the
assertions of the frame's handlers need, and so on in a circle. With `-p` the
assertion at `pointer.c:218` is excepted (`MayFail`): it does fail, as the run
`presses_only` shows.

`NothingIsCutOff` is about the end of the loop, which looks at the *sum* of the
captures of all outputs. It is about captures and who wanted them, and not about
the UI: Space and Escape end the loop while the hide that Space began is still
unanswered, since Escape gives up the consumer that waited for it. `EndInv` says what the last iteration has seen, and its
lemma about sums that a sum of counts is zero only if each count is.

`ExitIsKept` puts these together. `ExitInv` is `EndInv` with `GivenUp`: since
nothing waits after the request, the consumers that `Obeys` does not let join
are the active ones, and a step is a `Handle` of `Exit` (`HandlersAreHandled`).
The iteration in which the loop's condition fails is its `Return`
(`TheLoopReturns`): the sum is zero, so every count is, so there are neither
consumers nor a frame (`Counted`, `FrameIsShared`), before the iteration and,
by `EndInv` of the next state, after it; what it still does for the cursor and
the redraw therefore captured nothing. And after the end nothing runs, not even
the first content of an output, for there is none left to be mapped
(`TheEndIsFinal`).

**The buttons.** A gesture holds its button because the button was pressed to
begin it and is dropped wherever something else ends it. `Held` makes this
inductive: for each state of the selection it says which buttons may be active
(`ButtonsOf`), also where no gesture is under way: a complete selection has none,
or the release of a forgotten press would begin something. The functions are gone
through once more, for just two things: which leave the selection and the button
alone, and which drop the button with it (`selection_set_initialized()`,
`selection_freeze_size()`). It needs one output: `g_state` has one active button
and each output a selection. With two, TLC finds the pointer moving to the other
output with the button held, where it is released, and the gesture on the first
goes on. With `-p` a press of the other button makes scran forget the one that
began the gesture.

### The parts

- **Selection.** That the size is kept while a selection is recorded depends on
  everything that could still change it *not* being under way. `SelectionInv`
  says what each state of the selection leaves open: the box and all boxes drawn
  or committed lie on the output; a drag began on the output, and the box before
  it had the same size if it is a move; a recorded selection is `COMPLETE` or
  being moved. The steps that look dangerous, the answer to a commit from before
  the freeze and the clamped move, are lemmas of their own. `ScreenInv` is what
  `AreaIsWhatIsShown` needs: the newest commit shows what was drawn last, which
  is the box unless something that will redraw it is under way, and the area is
  the box once that commit is answered. It rests on `SelectionInv`, for an area
  refuses another size only while the size is frozen.
- **Recording.** `UsersInv`: an output is attached exactly while its recording
  has audio, only live recordings have it, and the stream is started while
  somebody is attached. Each function has a lemma about the stage and the audio
  of the recording it returns (`SameUse`) or about the users of the stream. The
  three steps of the refinement come from one lemma, `OneRecording`, that says
  which changes of a recording and of the stream are an `Attach`, a `Detach` or
  a stutter; a start whose encoder fails after it attached is a stutter.
  `LifeInv` is about leaks and reports: a live recording is `Whole`, it holds
  what it needs and its failure mask tells all that went wrong, and any other is
  `Over`, it holds nothing and what was reported of it is true. A start that
  fails at step i leaves what the steps before i acquired, and the lemmas about
  the ways back show that just this is released.
- **Audio clock** (at the end of `Recording_proofs`). `ClockInv` is what is known
  of each frame (`FrameKnown`), of the samples left over (`FifoKnown`) and of how
  they follow each other (`FramesKnown`). A rounded time is at most half a unit
  off (`ToNsecRounds`), so the time of a frame is off by as many halves as it has
  roundings (`ErrorsAddUp`, `FrameIsOnTime`). That frames increase from one chunk
  to the next, when the chunk's timestamp replaces the count of the samples left
  over, follows from both being on time, and this is where `RoundingsAreSmall` is
  needed: with frames of a few nanoseconds timestamps could stand still. Sound
  starts with the video because the number of samples to skip is rounded up
  (`SkipReachesTheStart`), and nothing is skipped once something was heard.
- **Rotation.** `RotationInv` says of each step of a conversion what is stored and
  read by then: that of the calls made so far, `Made`, each as its part of the
  image. No induction is needed. A kernel is a set of stores, one for each pixel
  of its blocks, and the blocks of a crop that they divide cover it
  (`BlocksCover`); each store is of the pixel that the turn asks for
  (`KernelTurns`). The dispatcher adds an offset to the output of a part, which is
  right for the part because turning and cropping commute (`OutputsAreMoved`), in
  the plane of luma and, at half the size, in those of chroma. That the parts
  cover the image is `PartsCover`: what the divisible area leaves is narrower than
  a tile, and an edge's crop is a tile. Products of two unknowns are what Z3 does
  not do, so the arithmetic of rows and columns is in lemmas of its own
  (`RowAndColumn`, `InsideRows`).
- **Seat.** `FocusInv`: the seat's idea of both foci is the compositor's, and the
  active output follows from it; trust is that of the present surface, which
  matters because the flag outlives surfaces. `ChoiceInv`: a recording that
  waits has the choice in `pending_off`, one that runs has it for good.
  `ModifierInv`: the modifier is of the seat's key and focus alone. It holds
  only where no recording waits for the UI, that is, where every output has a
  selection; `sticky_modifier` shows what happens otherwise.
- **Tray.** What scran and its watchers show depends on all that is on its way,
  so the invariants follow the messages by kind. `TrayInv` is about icons: what
  is on its way is of watchers that have the item, and the last icon on its way
  to a watcher is the one of now, or else the watcher will ask. It holds with
  timeouts, too. `RegistrationInv` is about owners, calls and replies: the last
  change of owners that scran will hear of is to the present one, calls are
  answered in order, and a reply to the present call tells whether the watcher
  shows the item. A timeout breaks it: the late reply is dropped and scran does
  not ask again. So `RegisteredIsShown` is proved for `~Timeouts` and not claimed
  otherwise.
- **Notifications.** `NotifyInv`: a message tells by its sequence how many files
  ago it was sent (`Placed`), so it finds the place of its file if and only if
  that has not been overtaken, even when the counter wraps; and an id of a server
  is of one file, whoever claims it: the screen, a message or the ring
  (`ClaimInv`). With servers that only follow each other `LivingInv` adds that
  ids come in the order of the files (`OrderInv`), so a reply never overwrites an
  id, and that what is on the screen is stored, or will be, or will be closed.
  A server that hands its name over and lives on breaks that.
- **Main loop.** `LoopInv` says what each stage of a turn has made sure of for
  those after it: from the bus's part on, what epoll watches and the timeout are
  those of the bus; from the signal's part on, no request is open, for the
  signal is masked; prepared means an empty queue and flushed requests.
- **Clipboard.** `CountInv`: the count is the number of sources that are alive,
  and a source is alive exactly while it is the selection, is about to be, or has
  a cancellation on its way. The places exclude each other (`PlacesInv`), so a
  source is counted down once. `OffersInv`: the newest source offers what is kept
  of the newest capture, which is why a paste is of one capture.

### Only model-checked

- Liveness (`ExitEnds`, `AwaitedUiSettles`, `FreezeframesEnd` and those of
  `waits`): under fairness, with `ENABLED`, out of the prover's reach.
- `BlockIsTurned` (`SimdBlocks`): it has no parameter. Every pixel of every block
  is run through the registers, so the run is itself a proof by cases.

## Where the code and what is said of it differ

- `presses_only`: with `-p`, `assert(active_button == SCRAN_BTN_NONE)`
  (`pointer.c:218`) fails at the release of the first click, since line 236 sets
  the active button for every accepted press.
- `button_inversion`: a left press during a recording of the whole output
  becomes the active button and does nothing. When the recording ends the size
  is thawed and the button kept, so that the *release* begins a selection: the
  inversion that `state.h:336-338` says must be prevented.
- `ui_shown`: `drew_fullscreen_ui` belongs to a buffer, and feedback to a
  commit. If the compositor hands a buffer back before it answers, and the
  buffer is redrawn with the UI, the answer to the earlier commit counts as the
  UI having been presented (`state.h:483`). Captures that want the UI may then
  start one frame early.
- `sticky_modifier`: Shift and Space record without audio (`src/README.md:215`).
  A recording that waited for the UI writes the choice of its key press into
  `audio_disable_modifier_active` when it is dispatched (`capture.c:101`), where
  it stays although Shift may have gone up or down meanwhile: the next Space
  records with the old choice. Without such a wait the choice is right
  (`ShiftTurnsAudioOffAtOnce`).
- `empty_recording`: a left click begins a selection of zero size, and Space
  completes and records it before the pointer has moved: the assertion on the
  dimensions in `capture_video_start()` (`capture.c:311`) fails.

One more difference is a premise of `AreaIsWhatIsShown` and not a run. The area
should be synchronous with the overlay that is drawn (`state.h:522`). When a
selection is completed, its box is set from the drag (`pointer.c:273-294`,
`selection.c:22-44`) without a redraw being asked for, and `update_ui()` notices
only a new *size*. So if an arrow key had moved the box during the drag, or the
pointer had left and come back elsewhere, the box is another one than the one
shown until something else redraws. `restated` marks this, and the property says
that it is the only such case.

And one is of words. `scranrot.h:20` says that all rotations are
counter-clockwise. The kernels, their tests and so `Rotation` store the pixel of
row y and column x of an image of height h in row x and column h - 1 - y for
`SCRANROT_TRANSFORM_90`, which is clockwise, and the other way round for
`SCRANROT_TRANSFORM_270`.

## What is not modelled, and the plan

Not modelled, and why:

- the encoding, muxing and PipeWire themselves (libraries): a choice of outcomes;
- drawing, damage, glyphs, cursors and colour arithmetic: pixels and layout,
  including the data of `src/src/scran-pixmap.c`;
- option parsing (`options.c`): its results are the constants;
- the registry and the geometry of outputs: collected once at startup, and fixed
  afterwards;
- the portal's session of global shortcuts: what it does to captures is that of
  the keys; how the loop serves its bus is in `MainLoop`;
- the rectangles of damage and the crop of frames (`util/util.c`).

What remains, in the order of what it adds:

1. **Recording composed with `Scran`**: the frames, stops and exits of the
   pipeline as those of the writers, in place of the choices on both sides.
2. **Boxes of damage and the portal's session**, as modules of their own.
