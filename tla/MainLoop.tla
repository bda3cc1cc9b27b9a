------------------------------ MODULE MainLoop ------------------------------
(***************************************************************************)
(* The main loop as what it waits for: a Wayland queue that is prepared    *)
(* for reading, the D-Bus connection with its timers and its limit per     *)
(* turn, the UI's clock, and a signal that is let through only while the   *)
(* loop sleeps.  What handlers do is left out but for what concerns the    *)
(* loop: requests and calls they send, videos they start and the exit.     *)
(***************************************************************************)
EXTENDS Integers, FiniteSets

CONSTANTS
  Limit,        \* sd_bus_process() calls in a turn
  MaxWayland,   \* bound: Wayland events on their way
  MaxBus,       \* bound: D-Bus messages on their way
  MaxSignals    \* bound: SIGUSR1 sent

ASSUME LoopBounds == {Limit, MaxWayland, MaxBus, MaxSignals} \subseteq Nat /\ Limit > 0

VARIABLES
  at,          \* where the loop is
  wayland,     \* events: in the socket, in the queue; requests not flushed
  bus,         \* the connection: messages in its socket, read ahead, and its timer
  epoll,       \* the bus fd that epoll watches
  processed,   \* sd_bus_process() calls of this turn that did something
  portal_ms,   \* scran_portal_timeout_ms: -1, 0, or "deadline" of the bus's timer
  ui_ms,       \* scran_ui_timeout_ms: -1, or "second" until the UI's next one
  live,        \* whether a video records
  second_due,  \* the shown time is not the time any more
  signal,      \* SIGUSR1: sent and not handled; sig_focus_requested; sent so far
  running      \* no exit was requested, or a capture is in progress

vars == <<at, wayland, bus, epoll, processed, portal_ms, ui_ms, live, second_due, signal, running>>

NoFd == -1
Closed == [fd |-> NoFd, socket |-> 0, ahead |-> 0, timer |-> "none"]

\* scran_dbus_init(), which may fail.
Init ==
  /\ at = "prepare"
  /\ wayland = [socket |-> 0, queue |-> MaxWayland, requests |-> TRUE]
  /\ bus \in {Closed, [Closed EXCEPT !.fd = 0, !.timer = "armed"]}
  /\ epoll = bus.fd
  /\ processed = 0
  /\ portal_ms = IF bus.fd = NoFd THEN "none" ELSE "deadline"
  /\ ui_ms = "none"
  /\ live = FALSE /\ second_due = FALSE
  /\ signal = [pending |-> FALSE, requested |-> FALSE, sent |-> 0]
  /\ running = TRUE

-----------------------------------------------------------------------------
(* A turn of the loop                                                      *)

\* What an event handler may do to what the loop waits for.
Handled ==
  /\ live' \in BOOLEAN
  /\ running' \in BOOLEAN
  /\ running' => running
  /\ second_due' = (live' /\ second_due)

\* wl_display_prepare_read() fails while events are queued: they are dispatched first.  Those are what the
\* start left behind, from before there is a surface to start a video on.
DispatchQueued ==
  /\ at = "prepare" /\ wayland.queue > 0
  /\ wayland' = [wayland EXCEPT !.queue = @ - 1, !.requests = TRUE]
  /\ UNCHANGED <<at, bus, epoll, processed, portal_ms, ui_ms, live, second_due, signal, running>>

\* wl_display_flush() before the loop sleeps.
FlushedRequests(requests) == FALSE

PrepareRead ==
  /\ at = "prepare" /\ wayland.queue = 0
  /\ at' = "poll"
  /\ wayland' = [wayland EXCEPT !.requests = FlushedRequests(@)]
  /\ UNCHANGED <<bus, epoll, processed, portal_ms, ui_ms, live, second_due, signal, running>>

Readable == wayland.socket > 0 \/ (bus.socket > 0 /\ epoll = bus.fd)

\* Mutant: only the timeout of the UI counts while there is one.
TimedOut_UiFirst ==
  IF ui_ms = "second" THEN second_due
  ELSE portal_ms = "now" \/ (portal_ms = "deadline" /\ bus.timer = "expired")

\* The smaller of the two timeouts has passed.
TimedOut ==
  \/ portal_ms = "now"
  \/ portal_ms = "deadline" /\ bus.timer = "expired"
  \/ ui_ms = "second" /\ second_due

\* epoll_pwait() returns with what is ready; Wayland events are read and dispatched.
PollReturns ==
  /\ at = "poll"
  /\ Readable \/ TimedOut
  /\ IF wayland.socket > 0
     THEN /\ wayland' = [wayland EXCEPT !.socket = 0, !.requests = TRUE]
          /\ Handled
     ELSE UNCHANGED <<wayland, live, second_due, running>>
  /\ at' = "bus"
  /\ UNCHANGED <<bus, epoll, processed, portal_ms, ui_ms, signal>>

\* Mutant: the signal is let through all the time; one that comes after the check waits for the next event.
SignalsGetThrough_Always == signal.pending

\* The mask of epoll_pwait(): handlers run only while the loop sleeps.
SignalsGetThrough == at = "poll" /\ signal.pending

\* The handler of SIGUSR1 runs, and ends a sleep.
SignalArrives ==
  /\ SignalsGetThrough
  /\ signal' = [signal EXCEPT !.pending = FALSE, !.requested = TRUE]
  /\ at' = IF at = "poll" THEN "bus" ELSE at
  /\ UNCHANGED <<wayland, bus, epoll, processed, portal_ms, ui_ms, live, second_due, running>>

Busy == bus.ahead > 0 \/ bus.socket > 0 \/ bus.timer = "expired"

\* sd_bus_process(): a timer or else a message at a time.  It may read ahead, and a handler may make a call.
ProcessBus ==
  /\ at = "bus" /\ bus.fd # NoFd /\ Busy /\ processed < Limit
  /\ processed' = processed + 1
  /\ \/ bus.timer = "expired" /\ bus' = [bus EXCEPT !.timer = "none"]
     \/ bus.timer # "expired" /\ bus.ahead > 0 /\ bus' = [bus EXCEPT !.ahead = @ - 1]
     \/ bus.timer # "expired" /\ bus.ahead = 0 /\ bus.socket > 0
        /\ \E n \in 1..bus.socket, timer \in {bus.timer, "armed"}, fd \in {bus.fd, 1 - bus.fd} :
             bus' = [bus EXCEPT !.socket = @ - n, !.ahead = n - 1, !.timer = IF bus.timer = "none" THEN timer ELSE @,
                                !.fd = fd]
  /\ UNCHANGED <<at, wayland, epoll, portal_ms, ui_ms, live, second_due, signal, running>>

\* get_sd_bus_timeout_ms(): 0 for messages that were read ahead.
BusTimeout ==
  CASE bus.ahead > 0 -> "now"
    [] bus.ahead = 0 /\ bus.timer # "none" -> "deadline"
    [] OTHER -> "none"

\* Mutant: after the limit, the bus's timer alone is waited for.
PortalTimeout_TimerOnly == IF bus.timer # "none" THEN "deadline" ELSE "none"

\* After the limit there may be more to do: the loop does not sleep.
PortalTimeout == IF processed = Limit THEN "now" ELSE BusTimeout

\* The connection may have another fd after each turn.
WatchedFd == bus.fd

\* The rest of scran_dbus_update().
UpdateBus ==
  /\ at = "bus"
  /\ bus.fd # NoFd => ~Busy \/ processed = Limit
  /\ at' = "signal"
  /\ epoll' = IF bus.fd = NoFd THEN NoFd ELSE WatchedFd
  /\ portal_ms' = IF bus.fd = NoFd THEN "none" ELSE PortalTimeout
  /\ processed' = 0
  /\ UNCHANGED <<wayland, bus, ui_ms, live, second_due, signal, running>>

\* sd_bus_process() fails: the connection is given up, and the loop goes on without it.
BusFails ==
  /\ at = "bus" /\ bus.fd # NoFd
  /\ bus' = Closed
  /\ epoll' = NoFd
  /\ portal_ms' = "none"
  /\ processed' = 0
  /\ at' = "signal"
  /\ UNCHANGED <<wayland, ui_ms, live, second_due, signal, running>>

GrabFocus ==
  /\ at = "signal"
  /\ at' = "ui"
  /\ signal' = [signal EXCEPT !.requested = FALSE]
  /\ wayland' = [wayland EXCEPT !.requests = @ \/ signal.requested]
  /\ UNCHANGED <<bus, epoll, processed, portal_ms, ui_ms, live, second_due, running>>

\* Until the shown time of a video changes.
UiTimeout == IF live THEN "second" ELSE "none"

\* sync_outputs() and update_ui(); then the loop's condition.
UpdateUi ==
  /\ at = "ui"
  /\ wayland' = [wayland EXCEPT !.requests = @ \/ second_due]
  /\ second_due' = FALSE
  /\ ui_ms' = UiTimeout
  /\ at' = IF running THEN "prepare" ELSE "done"
  /\ UNCHANGED <<bus, epoll, processed, portal_ms, live, signal, running>>

-----------------------------------------------------------------------------
(* What goes on outside                                                    *)

Arrives ==
  /\ \/ /\ wayland.socket < MaxWayland
        /\ wayland' = [wayland EXCEPT !.socket = @ + 1]
        /\ UNCHANGED <<bus, second_due, signal>>
     \/ /\ bus.fd # NoFd /\ bus.socket + bus.ahead < MaxBus
        /\ bus' = [bus EXCEPT !.socket = @ + 1]
        /\ UNCHANGED <<wayland, second_due, signal>>
     \/ /\ bus.timer = "armed"
        /\ bus' = [bus EXCEPT !.timer = "expired"]
        /\ UNCHANGED <<wayland, second_due, signal>>
     \/ /\ live /\ ~second_due
        /\ second_due' = TRUE
        /\ UNCHANGED <<wayland, bus, signal>>
     \/ /\ signal.sent < MaxSignals
        /\ signal' = [signal EXCEPT !.pending = TRUE, !.sent = @ + 1]
        /\ UNCHANGED <<wayland, bus, second_due>>
  /\ at # "done"
  /\ UNCHANGED <<at, epoll, processed, portal_ms, ui_ms, live, running>>

Done == at = "done" /\ UNCHANGED vars

Step ==
  \/ DispatchQueued \/ PrepareRead \/ PollReturns \/ SignalArrives
  \/ ProcessBus \/ UpdateBus \/ GrabFocus \/ UpdateUi

Next == Step \/ BusFails \/ Arrives \/ Done

\* The loop is scheduled, and some sleep finds nothing ready but the signal; what arrives arrives as it likes.
Spec == Init /\ [][Next]_vars /\ WF_vars(Step) /\ SF_vars(SignalArrives)

-----------------------------------------------------------------------------
(* Properties                                                              *)

\* The loop sleeps only when nothing that is there already waits for it: its requests are on their way, no
\* queued event, no message that was read ahead, no signal that was seen, and no bus that epoll does not watch.
SleepsWithNothingToDo ==
  at = "poll" =>
    /\ wayland.queue = 0 /\ ~wayland.requests
    /\ ~signal.requested
    /\ epoll = bus.fd
    /\ bus.ahead > 0 => portal_ms = "now"

\* A timer of the bus that has expired, such as that of a call without an answer, is handled, whatever the
\* limit, the UI's clock and a flood of messages do, unless the connection fails or the loop ends.
BusIsServed == (bus.timer = "expired") ~> (bus.timer # "expired" \/ at = "done")

\* A signal to grab the focus is answered, whenever in the turn it comes.
SignalIsAnswered == signal.pending ~> (~signal.pending /\ ~signal.requested) \/ at = "done"

\* The time of a recording that is shown keeps up.
ShownTimeKeepsUp == second_due ~> (~second_due \/ at = "done")
=============================================================================
