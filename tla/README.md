# A TLA+ model of carnine

carnine is a car computer: a power supply board (an ATmega with its firmware in
`src/powersupply/RaspberryPower`) switches a Raspberry Pi with the ignition, a backend
process on the Pi (`src/backend`) talks to the board over a serial line and to other
programs over a Unix socket, and a frontend shows the GUI. This directory holds
specifications of the board and of the backend, the TLC runs that check them and the
proofs that hold for every value of their constants.

Paths below are relative to `src/` of the repository; `RaspberryPower.c:643` is a line.

## The system

| Part | State it keeps | Operations | Talks to | Hard part | Correct when |
|---|---|---|---|---|---|
| Firmware control, `RaspberryPower.c` | state machine, four timers, alive counter, configuration in RAM and EEPROM, relays, self hold | a pass of the main loop: second, one branch of the machine, one command | UART; ignition, USB, Dig3 (halted Pi) | pins and commands in any order; resets in the middle of a command; windows and timers that outlive their purpose | the Pi loses its supply only at the end of a shutdown window; relays follow the state; the board holds itself while the Pi is powered; configuration and EEPROM agree |
| Firmware UART, `serial.c` | two rings with indices and a count | `SendByte`, `GetDataIn`, receive and data register empty interrupts | control, line | the interrupts and the main loop share the counts; full rings; an overflow reset outside the atomic block | both directions are FIFOs; every call returns; everything accepted is sent |
| `BaseSerial` | handle, `readBuffer_`, `_run`, thread | `Open`, `Start`, `Loop`, `Write`, `Close` | tty, subclass | start and join of the thread; full buffer | the buffer stays in bounds; `Start` returns, if its notification is not lost; no callback after `Close` |
| `PowerSupplySerial` | `_shutdownInWork` | `AnalyseBuffer`, the `Handle` functions, scheduled shutdown | logind, `BackendController` by callback | frames cut by reads, joining in the middle of a frame, exceptions; lost answers, a refused shutdown, a latch that is never reset | each frame is handled once and in order, none is made up, a jam ends with an overrun between text lines; a healthy Pi is not taken for hung and halts before it is cut |
| `BackendController` | serial port | `Init`, `Start`, `Stop`, `PowerOffEvent`, `HandleWorkerMessage` | worker pipe | called from two threads | lives as long as its caller |
| `SocketController` | `_watchSockets`, `_fds`, two pipes, `_run` | accept, receive, hang-up, `SendAll`, destructor | clients, worker pipe | a vector shared by two threads without a lock; `_fds` rebuilt while it is scanned | events meet their sockets; broadcasts reach who stays; last words are read while the thread serves; the thread ends |
| `UdevController`, `MountPoint` | udev monitor | `HandleDeviceMessage` | worker pipe, libmount | an error disables the source | devices are announced |
| backend `main.cpp` | sd-event loop, controllers | start, `pipe_receive`, signals, end | all of the above | order of start and end, failures half way, two processes, what a crash leaves behind | after the event loop no thread outlives its objects; a shutdown completes; one process at most uses the board; nothing left behind keeps the next one from its socket and port; no signal is lost |
| `BackendConfig`, `CommandLineArgs` | configuration file | `Load`, `Pharse` | file system | a crash between creation and content of the file | the backend gets the port the file names |
| messages, logging, time | little | conversions | | | |
| frontend | GUI library (empty submodule) | | | | |

The board and the backend exchange one-byte commands (`+` alive, `$` power off, `!` and `?`
service mode on and off, `*n` delay, `#` debug, digits for relays) and frames
`STX id data ETX` once a second. The board in POWEROFF makes the backend tell its clients
and schedule a shutdown with logind; the halted Pi pulls Dig3 and the board cuts the supply.
`PROJECT.json` lists the components with their status and the hazards by line.

## Modules

| Module | Models | State and actions against the code |
|---|---|---|
| `PowerSupply` | `RaspberryPower.c` | Variables have the names of the C globals. `at` is the place in a pass of `MainLoop` (`timers`, `machine`, `uart`, or `argument` inside `GetDataIn` of a `*`), or says why the program does not run (`unpowered`, `resetting`, `draining`). One action per branch of the if chain (`PowerOn`, `CancelPowerOn`, ... `SwitchOff`), one per command of `Interpret`, `Timer1000ms`, and for the hardware `PowerUp`, `PowerLoss`, `ChipReset`, `WatchdogReset`, `PinChange`, `ReceiveByte`. |
| `PiPower` | what the board promises the Pi | The abstract specification: a phase, the supply, a countdown. `PowerSupply!KeepsPromise` is the refinement. |
| `PowerSupplyProofs` | | The theorems about `PowerSupply`. |
| `UartTransmit` | `SendByte`, `USART_UDRE_vect` | `pc` is the place in `SendByte`; each store of the overflow reset (`serial.c:105-107`) is a step of its own, the atomic block is one. |
| `UartReceive` | `GetDataIn`, `USART_RX_vect` | the test for data, the wait and the atomic block are separate steps. |
| `ByteFifo` | what each direction promises | The abstract specification both rings refine. |
| `UartTransmitProofs`, `UartReceiveProofs` | | The theorems about the two directions, with the refinements of `ByteFifo`. |
| `TelegramParser` | `BaseSerial::Loop`, `AnalyseBuffer` | `Read` is the overrun test and `read`; then `AnalyseBuffer` looks at one byte a step (`pos`, `lastEnding`): `EndOfTelegram`, `EndOfLine` with its exception, `OtherByte`, and `MoveRest` behind the last one. `reader` says which of the two runs. The board appends bytes to the tty at any time. A payload is one symbol. |
| `TelegramParserProofs` | | The theorems about `TelegramParser`. |
| `SocketController` | `SocketController.cpp`, `SendAll` and the destructor on the main thread | `pc` and `pos` are the place of the thread in `Loop`; `main`, `sendAt`, `target` that of the main thread in `SendAll` and the destructor. |
| `SocketControllerProofs` | | The theorems about `SocketController`. |
| `Backend` | `main.cpp`, `BackendController`, `BaseSerial::Start`/`Close` | EXTENDS `SocketController` with the serial thread and the start and end of the process (`phase`), its failures included: no epoll, and no pipe for the socket thread, where main deletes the controllers beside the running serial thread (`Finish`) and the process ends in `std::terminate` (`Terminate`). |
| `BackendProofs` | | The theorems about `Backend`; EXTENDS `SocketControllerProofs`. |
| `PowerLink` | the Pi behind the board: `HandleSystemState`, `PowerOffSystemdBus`, `HandleWorkerMessage`, `Write` | EXTENDS `PowerSupply` and adds the Pi its relay supplies (`pi`: off, booting, up, hung, halting, halted). `Second` sends the status telegram, `HandleSystemState` answers it or schedules the shutdown, `Dig3Follows` is the halted Pi. One clock for both. `LoseTelegram`, `Hang`, `Cancel` and a refused shutdown are faults, counted since the Pi was powered. |
| `PowerLinkProofs` | | The theorems about `PowerLink`. |
| `Startup` | `main.cpp`, `BackendConfig`, `CommandLineArgs`, `BaseSerial::Open`, `UdevController::Init` | several processes, each of a user; `pc` is the place of each in `main`. They share the configuration file, the path of the socket with its owner and the lock of the port. `Crash` strikes anywhere, `Signal` as far as the code has prepared for it. What a process does while it serves is `Backend`. |
| `StartupProofs` | | The theorems about `Startup`. |
| `MC...` | | Instances for TLC: the sets of commands, frames and clients. |

Definitions marked `Mutant` are faulty variants of the definition that follows them; nothing
uses them. Each stands for a plausible bug that breaks a property of the module, which shows
that the property can fail.

## What is abstracted

* LEDs, ADC values, debug texts, logging and wording. Debug text occupies the UART only, and
  that `SendByte` always returns is checked in `UartTransmit`.
* A second may elapse in any pass of the main loop. This covers the counting of milliseconds,
  including the ticks lost to the non-atomic `Int1msCount--`.
* Supply: the board runs while the ignition, USB or its self hold supplies it. `draining` is
  the endless loop of `SwitchOff` without USB, left when the supply is gone.
* The transmitter: a byte written to `UDR0` while it is full is ignored. `lineDrains` says
  whether the line takes a byte per millisecond, as 38400 baud do; it never changes.
* A passed position in `SendAll` is a load of the element and a write to it. A load while
  `push_back` moves the vector may give a freed element. Number reuse of descriptors is not
  modelled, a client is one connection. Writes to closed connections fail: systemd ignores
  SIGPIPE for its services unless told otherwise.
* `read` takes all bytes the socket holds, so two messages before one read are one text.
* `_run` of both threads is a plain `bool`; its store is modelled as visible to the thread,
  whose loop calls functions the compiler cannot see into.
* `readBuffer_[-1]`, which the search for STX may read, is no STX: the member before the
  buffer is `currentReadPos_`, a small number. The substitution of ESC is left out.
* In `PowerLink` the commands are those the backend sends, and the board hears them in order.
  Relays cannot be switched by hand. The Pi does what is due within the second it is due in;
  being late is a fault of its own. A telegram is its system state: the backend only logs the rest.
* In `Startup` a command line is a sequence of keys and values, a configuration file is absent,
  broken (no JSON), complete (names a port, or has no such key and means the default) or
  disabled (an empty port). A path is known by who is reached there and whose file it is: `/tmp`
  is sticky, so that only the owner and root remove it. The service names no `User=` and runs as
  root; by hand it may be root or not. `open` of the port may fail at any time (`missing`), be it
  absent or not permitted, and so may creating the configuration file. Signals sent before the
  event loop exists are lost and have no effect in the model, as in the code.
* The text command `off` is a hook for tests. The frames of the run contain it as a line of
  its own, though the firmware writes `Off`. A longer text whose last three letters are `off`
  is excluded (`OffAlone`): what `AnalyseBuffer` makes of it depends on where the reads cut it,
  and nothing sends one.

## Runs

| Run | Question | Bounds | Result |
|---|---|---|---|
| `ps_safety` | `RelayInterlock`, `HoldWhilePowered`, the refinement `KeepsPromise`; the Pi loses its supply when the ignition stays off (`IgnitionOffStopsPi`) or it falls silent (`SilentPiIsCutOff`), and gets it when the ignition stays on (`IgnitionOnStartsPi`), for the commands a backend or a harmless terminal sends | receive ring of 1, delay and windows of 1 or 2 s, alive counter modulo 6 | holds, 370 000 states |
| `ps_config` | `TypeOK`, `ConfigPersistent`, `WindowOnlyWhileStopping` for all kinds of commands, used and erased EEPROM | the same | holds, 1.6 million states |
| `ps_delay` | `PowerOnIsCancelled` | delay 1 or 3 s | violated, see below |
| `ps_drain` | `WaitsForIgnition` | commands `+`, `$`, `!` | violated |
| `uart_tx` | both threads of the transmitter, on a line that drains and on one that does not | ring of 4, two byte values, 2 retries | holds, 104 000 states |
| `uart_rx` | the receiver as a FIFO that drops only when full | ring of 4, two byte values | holds, 1 076 states |
| `telegram` | frames cut by reads, joined anywhere, jammed, overrun | 5 frames of 4 kinds, buffer of 4, up to 5 bytes behind | holds, 1.9 million states |
| `sockets` | the socket thread, two clients and the main thread | 2 clients, 1 message each, worker pipe of 1 | holds, 1.2 million states |
| `sockets_fds` | `WorkerPipeIntact` | array of 3 for 2 clients | violated |
| `backend` | start, event loop and end of the process with three threads | 1 client, worker pipe of 2 | holds, 202 000 states |
| `power_link` | board and Pi in a closed loop: `HealthyPiKept`, `StopsClean`, `LatchNotStale`, `SettlesInRun` | boots of 1, 2 or 4 s against a boot time of 3, windows of 3 and 4 s, 2 faults, receive ring of 2, alive counter up to 5 (`MaxAlive`) | holds, 302 000 states |
| `startup` | two processes, with failures, crashes and signals: `PortExclusive`, `AloneIsWhole`, `SignalEnds` | 2 processes of 2 users, 2 command lines | holds, 662 000 states |

Why the bounds are enough. The timers are scaled to one to three seconds: each still
expires, is renewed, is cut short by Dig3 and is left behind; the branches compare timers
only with zero or with the delay. The alive counter needs to exceed its cap of 3 by one
(`EnterRun` adds without the cap), so modulo 6. One waiting command is enough for the
control because at most one is read per pass; the ring itself is checked at its capacity
in `uart_rx`. A ring of 4 wraps, fills and empties, and the index arithmetic is the same
for all sizes that are powers of two. Frames of two to four bytes in a buffer of four overrun it with
a rest in the buffer and without, fill it exactly, and leave bytes in the tty behind a read
that took a whole buffer; five frames are more than buffer and tty hold together, so that a
reader that no overrun frees is found out. `Recovers` asks for what it needs of the bound by
name (`EnoughToCome`): a jam that begins with too few bytes to come for an overrun is not judged.
Two clients let one come or go while the other
is served. That is too few for `BroadcastReaches`: an earlier form, which counted one missed
client for each that comes or goes, holds for two and fails for three, since one `push_back`
that moves the vector may spoil several loads. The proof found it; the form checked now is
proved for any number of clients.

In `power_link` a boot may be shorter than the boot time, end with it or be longer, and the
windows (15 and 5 s in the code, 4 and 3 here) are longer than the halt by one or two
failed attempts. Two faults are what the counter of the board can tell apart: a booted Pi
survives the first and not the second. `MaxAlive` only forbids the driver to switch off
again once the counter is that high: every boot the Pi does not answer adds one to it
(`RaspberryPower.c:668`), and it would take some 250 of them to wrap.

`IgnitionOffStopsPi` and `IgnitionOnStartsPi` exclude a `$` that waits for ever: each `$`
opens the shutdown window anew (`RaspberryPower.c:551`), so a sender that repeats it faster
than the window ends keeps the Pi powered. The backend has no code that sends it.

What `power_link` shows. The board gives a Pi no credit: an answer makes up for the second
that asked for it, and the boot leaves a reserve of one second for each answer, up to three.
Hence the conditions of `HealthyPiKept`: the Pi was up a second before its boot time ended,
and at most one telegram was lost since it was powered, however long ago. `StopsClean`
says that the supply of a Pi whose backend ran is cut after it has halted, as long as no more
attempts fail than the window has seconds to spare. `LatchNotStale` is the reason why
`_shutdownInWork`, which nothing resets, does no harm: the board always cuts a Pi it has told
POWEROFF, so the process that holds the latch never sees another RUN, not even after
`shutdown -c`.

What `telegram` shows of a jam. A reader that joins in front of a lone line feed throws at
every pass and handles nothing (`PowerSupplySerial.cpp:147`). While telegrams come the next
overrun ends this (`Recovers`). A text line under way at that moment may keep it jammed: if the
overrun comes between CR and LF, the LF is first again, and with text lines only this can
repeat for ever. `Recovers` therefore promises nothing while a text line is in the tty or being sent.

What `startup` shows. Nothing an earlier process left, by a crash or an end, keeps the next one,
if it runs alone, from its socket and its port. It removes the stale path and binds, unless the
file belongs to another user: `main.cpp:288` does not ask whether `unlink` succeeded, and `bind`
then fails. Its port is not locked, since a lock ends with its process; that the port is there
is not claimed, and a process that finds none serves without the board for good
(`BaseSerial.cpp:176`). Nor is it claimed that clients reach a process that got its socket from
systemd: an earlier one may have removed the path (see `main.cpp:424` below).
`PortExclusive` rests on the lock alone: two processes may well run at a time, of systemd and
by hand.

What `backend` leaves out by assumption or exception. `StartReturns` holds under
`SleepCoversStart`, and `ShutdownCompletes` if clients read what they are sent.
`CallbackTargetLives` is about the way out over `BackendController::Stop`. When
`SocketController::Start` fails after the serial thread was started (`main.cpp:367`), main
deletes the BackendController while that thread still runs, and the process ends in
`std::terminate`. `LastWordsRead` is about the thread while it serves: at its end it closes
every connection, read or not (`SocketController.cpp:87`).

### Disagreements

* `ps_delay`, `RaspberryPower.c:643`. The POWERON branches ask for `powerOnTimer` below or
  equal to `powerOnTime`. A `*1` after two seconds of a delay of three makes it greater: the
  board stays in POWERON, with the display on, and ignores the ignition, although the
  comment at line 635 says "Cancel Power on".
* `ps_drain`, line 233. Ignition that returns while the capacitor drains keeps the board
  supplied in a loop that never looks at it. The comment at line 216 has it "Wait for Power
  on with Klemme 15".
* `sockets_fds`, `SocketController.cpp:117`. Nothing limits the clients to the length of
  `_fds`, "Max clients Listen + 2": with the sixth the entry of the array lands on
  `_backendPipe`.

Further ones no run states as a property, because the documents are too vague to be one or
speak of something outside the models:

* `RaspberryPower.c:659`. Ignition that is off at the end of the boot leads to POWEROFF with
  no window, and the Pi, which may have finished booting, is cut in the next pass;
  `documents/pi.md:11` promises a timeout. `PiPower` has this case as a window not owed.
* `main.cpp:424`. Every way out unlinks the path of the socket, also the one that systemd
  listens on (`tools/systemd/carnine.socket:6`), and also when a second backend ends because
  its argument is missing: clients can no longer connect although a process serves.
* `PowerSupplySerial.cpp:75`. The log says "proceeding with immediate shutdown" when
  ScheduleShutdown fails; the code does nothing until the next telegram.
* `PowerSupplySerial.cpp:84`. The log advertises `shutdown -c`; the board still cuts the Pi
  at the end of its window (`Cancel`).
* `documents/backend.md:6`. `--c <FileName>` is documented, `GetParamValue` needs
  `--c=<FileName>`; the first form ends with "Missing Commandline Parameter".
* `documents/backend.md:13`. A watchdog message with state true is listed and does nothing:
  the service mode is never left (`BackendController.cpp:95`).

## Fairness

* `PowerSupply!FairSpec`: the processor goes on executing passes, a powered board starts, a
  second elapses again and again. Nothing is assumed of the pins or of the sender.
* `UartTransmit!FairSpec`: the main loop runs on, a pending interrupt is taken, and the line
  shifts if `lineDrains`. New calls of `SendByte` are not assumed.
* `TelegramParser!FairSpec`: the board sends a status every second, epoll is level triggered
  and wakes the reader as long as bytes wait, and the thread goes on in `AnalyseBuffer`.
* `Backend!BackendFairness`: the threads run. Clients read what they are sent; without this
  a blocking `write` in `SendAll` stops the event loop for good. After a shutdown was
  scheduled systemd sends SIGTERM, and the event loop, which serves its sources in turn,
  takes the signal in the end although messages keep coming (strong fairness).
  `SleepCoversStart` states the timing `BaseSerial::Start` relies on: the notification of a
  thread that first sleeps 500 ms comes after the main thread reached `cv.wait`. Without it
  the notification is lost and `Start` never returns.

* `PowerLink!FairLink`: the processor runs, seconds elapse, and the Pi answers, boots and
  halts when it is due (the promptness of the model). Driver, clients and faults are free:
  `SettlesInRun` asks for them to stop.
* `Startup!FairSpec`: a process goes on executing `main`. Neither a start, a signal, an
  edit of the file nor the absence of crashes is assumed.

## Proofs

`PowerSupplyProofs` proves, for every set of commands, every content of the EEPROM, all
durations, every size of the receive ring and every width of the counters that the
assumptions `TimesAssumption` and `BytesAssumption` admit:

| Theorem | Property |
|---|---|
| `TypeCorrect` | `TypeOK` |
| `ConfigSurvives` | `ConfigPersistent` |
| `WindowSafe` | `WindowOnlyWhileStopping` |
| `InterlockSafe` | `RelayInterlock` |
| `HoldSafe` | `HoldWhilePowered` |
| `PromiseKept` | `KeepsPromise`, the refinement of `PiPower` |

The inductive invariant is `IInv == TypeInv /\ WindowOnlyWhileStopping /\ RelayInterlock /\
SupplyInv`.

* `TypeInv` is `TypeOK` with `ConfigPersistent`. Neither is inductive alone: a refused `*`
  reloads `powerOnTime` from the EEPROM, and that byte is a valid delay only because it
  agrees with the configuration in use. One lemma per group of variables shows that a step
  preserves it, one step per action.
* `WindowOnlyWhileStopping` and `RelayInterlock` are each inductive beside it.
* `SupplyInv` says which places of the program are reached without self hold, and that
  without reset commands the program is neither caught in an argument nor reset with self
  hold. Without it a reset or a loss of supply could, as far as the invariant knows, strike
  while the Pi is powered, and neither `HoldWhilePowered` nor the refinement would follow.

`PromiseKept` shows that `Init` maps to `PiPower!Init` and each action, from a state of
`IInv`, to an action of `PiPower` or to a stutter. `RelayInterlock` is conditional on a
sender without relay commands, and `PiPower` has the constants `Manual` and `Resettable`
for boards that accept relay and reset commands: then the supply may move at any time, and
the refinement says no more.

`StartupProofs` proves, for any number of processes and users and every command line:

| Theorem | Property |
|---|---|
| `OnePort` | `PortExclusive` |
| `AloneComesUp` | `AloneIsWhole` |

The inductive invariant adds to the types and `PortExclusive` that an ended process has
nothing open (`OffIsClosed`), that whoever counts as alone really is (`AloneRuns`), where a
process may have a socket of its own (`OwnIsBound`), and what a process alone relies on
between its steps (`Undisturbed`): before it binds the path is free or of another user, a path it has bound stays
its own, and its port is never locked. `AloneIsWhole` does not follow without the last, since
it speaks of the end of the way up only.

`UartReceiveProofs` and `UartTransmitProofs` prove, for every size of the rings, every set
of bytes and more than one retry:

| Theorem | Property |
|---|---|
| `UartReceiveProofs!TypeCorrect` | `UartReceive!TypeOK` |
| `CountCorrect` | `UartReceive!CountMatchesRing` |
| `RealByte` | `TakesRealByte` |
| `RingIsFifo` | `ReceivesInOrder`, the refinement of `ByteFifo` |
| `UartTransmitProofs!TypeCorrect` | `UartTransmit!TypeOK` |
| `CountCorrect` | `UartTransmit!CountMatchesRing` |
| `IdleCorrect` | `IdleIsReset` |
| `TransmitterIsFifo` | `TransmitsInOrder`, the refinement of `ByteFifo` |

The receiver needs no strengthening: its three invariants are inductive together. The
transmitter has `Calling`, which says what `SendByte` still knows at each place (there is
room when it writes, it has not waited too often when it waits again), and `Draining`: on a
line that drains a full ring has room after one wait, so with more than one retry
(`UartAssumption`; the code has four) the overflow reset is never reached. That reset is
three stores beside an interrupt that changes the same variables, and nothing said of the
count or of the order survives it; only `TypeOK` and `IdleIsReset` do, and they are proved
with it. For the refinements a lemma gives the slot of the i-th waiting byte without the
modulus, and each step is shown to leave the sequence, append to it or drop its head.

`PowerLinkProofs` proves, for every boot time, every length of a boot, a window and a halt,
and any number of faults:

| Theorem | Property |
|---|---|
| `LinkTypeCorrect` | `LinkTypeOK` |
| `BoardOfTheLoop` | `LinkSpec` implements `PowerSupply!Spec` |
| `LatchSafe` | `LatchNotStale` |
| `HealthySafe` | `HealthyPiKept` |
| `StopsCleanly` | `StopsClean` |

`BoardOfTheLoop` carries every theorem of `PowerSupplyProofs` into the loop: what the Pi
sends reaches the board as bytes received inside its main loop. It needs room for two bytes
in the ring (`RxCapacity > 1`). `LatchSafe` follows from `LinkInv`: a Pi without supply
has neither the latch nor a telegram, and a POWEROFF under way means a board in POWEROFF. `HealthySafe` adds an account of the answers: what `piAlive` holds,
what is on its way and what faults took is never less than `Reserve` demands at that point
of the boot. It needs that `piAlive` stays below the wrap of `uint8_t`
(`MaxAlive + 2 < ByteMod`), which the run bounds and the code does not. `StopsCleanly` adds
the same account for the window of a shutdown: the seconds it owes the Pi (`OwedInv`) and
those it has to spare (`SpareInv`).

`SocketControllerProofs` proves, for any number of clients and every length of `_fds` that
holds the listening socket and the pipe:

| Theorem | Property |
|---|---|
| `TypeCorrect` | `SocketController!TypeOK` |
| `EventsSafe` | `EventsFitSockets` |
| `LastWordsSafe` | `LastWordsRead`, while the thread serves |
| `BroadcastSafe` | `BroadcastReaches` |
| `PipeSafeForFew` | `WorkerPipeIntact`, for clients as many as the array has room for |
| `WakeUpNotLost` | the write of the destructor to `_internPipe` reaches the thread (`ThreadWakes`) |
| `DeathAnnounced` | `DeathDecided`: who is told "selbstmord" can rely on main's end |

The inductive invariant is `SocketInv == TypeOK /\ Shape`. Its core is that a descriptor is
in one place only: watched, in the hands of `HandleAccept`, or in the listen queue
(`Watched`, `Accepted`, `Queued`). So the handler of one entry cannot take away what
`poll` reported for a later one (`Fits`), and every rebuild of `_fds` leaves no event behind
that would belong to a moved entry. `Handling` keeps, from the read to the close of an entry
that hung up, that its connection has been read to the end. The listening socket and the
pipe are never erased, so that a thread main waits for finds the pipe in its next poll
(`WakeUpNotLost`). And nothing is watched twice: `_fds` is overrun by one client too many,
as in `sockets_fds`, and never by fewer that come and go (`PipeSafeForFew`). `WakeUpNotLost`
and `DeathAnnounced` are what `ShutdownCompletes` and `DeathIsFinal` need beside fairness.

`BroadcastReaches` needs `SendInv` beside it, and that the set of clients is finite
(`ClientsAssumption`), since it counts. Whoever was told stands in front of `sendAt`
(`ToldBefore`), so nobody is told twice: elements only move to the front. `Lost` are the
clients that stay, were not told and are passed already, the one in `target` that is about
to be written not among them; they are at most `disturbed` (`LostFew`). An erase in front of
`sendAt` moves one element past it and counts one; an accept counts all clients, for its
`push_back` may free the array under every load until it is done (`Moved`). The end of
`SendAll` finds every element passed, so that the missed are the lost.

`TelegramParserProofs` proves, for frames of any length, every size of the buffer and of the
backlog, and any cut of the bytes into reads:

| Theorem | Property |
|---|---|
| `TypeCorrect` | `TypeOK`, the bound of `readBuffer_` among it |
| `NothingInventedSafe` | `NothingInvented` |
| `FramesHandledOnceSafe` | `FramesHandledOnce` |
| `ThrowsFirstOnly` | the exception of `AnalyseBuffer` is thrown at the first byte of the buffer only, and only by a reader that lost bytes |

The inductive invariant `ParserInv` ties the reader to what the board sent.

* `Row`: the stream is a row of frames without gaps, each with one ending, its last byte.
* `Suffix`: `readBuffer_`, the tty and the rest of the frame under way are the end of the
  stream. An overrun or a flush drops bytes from the middle of the line, but what the reader
  holds is again a piece without a gap: both drop everything older than what they keep.
* `Scanned`: `lastEnding` is the last ending in front of `pos`.
* `Handled`: what was handled are frames of the row, in order, that end at or before
  `lastEnding`. This is why a pass that throws, and is repeated over the same buffer, handles
  nothing twice: it throws before it has handled anything (`ThrowsFirstOnly`).
* `Undamaged`: while no byte was lost the buffer starts behind an ending, and every frame that
  matters and ends at or before `lastEnding` was handled.

A telegram then ends at its ETX, and the search back for STX stops at its own first byte or,
if that was lost, leaves the buffer: no byte of another frame lies between. The proof rests on
`FramesAssumption`: inside a frame there is no second STX, ETX or LF. In the firmware a
telegram is STX, a code above 5, printable characters and ETX, and a text line is printable
and ends with CR LF. What is under way when the backend starts is the end of such a frame.
With binary payloads the theorems would be false.

`BackendProofs` proves of the whole process:

| Theorem | Property |
|---|---|
| `CallbackSafe` | `CallbackTargetLives`, on the way out after the event loop |
| `ProcessOfSockets` | `BackendSpec` implements `SocketController!Spec` |
| `ProcessEventsSafe` | `EventsFitSockets` |
| `ProcessBroadcastSafe` | `BroadcastReaches` |
| `ProcessLastWordsSafe` | `LastWordsRead`, until the end of the socket thread |

`CallbackTargetLives` is inductive beside the states of the serial thread, with and without
the assumption `SleepCoversStart`. `ProcessOfSockets` carries the theorems of
`SocketControllerProofs` into the process: what the serial thread and udev do is posting to the
worker pipe, and main's way up and down is a stutter but for the destructor. It needs
`CallbackTargetLives`, for nobody may post when the last thread has been joined, and that the
socket thread is joined last (`JoinedLast`).

Every invariant the passing runs check is a theorem, as are the action properties and the
refinements. Only model-checked are the liveness properties, as fairness and ENABLED are out
of the prover's reach: `IgnitionOffStopsPi`, `IgnitionOnStartsPi`, `SilentPiIsCutOff`,
`SendReturns`, `Flushes`, `Recovers`, `StartReturns`, `ShutdownCompletes`, `DeathIsFinal`,
`HungUpIsClosed`, `SettlesInRun` and `SignalEnds`.

## Not modelled

* `main-org.c`, a predecessor of the firmware no build file of the board uses.
* `MountPoint` (a search in a library's table), logging, time formatting, the frontend (a
  shell around a library that is not in the repository), build scripts and tools.
* The decoding of volume labels, the rotation of log files and the statistics of the timer.
* `ShutdownSystem` and `PowerOnAmp`, which nothing in the repository calls.
* Exceptions that leave a callback of sd-event, and a missing entry in the password database.
* The `catch(...)` of `SocketController::Loop` (lines 76-82) and what throws into it: `SO_PEERCRED`
  does not fail on a connected Unix socket, and a `read` of the bytes FIONREAD has counted, or of
  none, does not either. Taken, it would close a connection unread.
* The two lists of arguments of `CommandLineArgs` beyond `GetParamValue`, which `main` alone reads.

## Plan

1. What the remaining liveness properties need beside fairness, as theorems: that an overrun with
   no text line under way leaves no jam (`Recovers`), and that a signal finds its handler or its
   source wherever it strikes (`SignalEnds`).
2. A run for the lost notification of `BaseSerial::Start`.
