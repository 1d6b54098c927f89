# TLA+ models of the System Master Controller firmware

The repository is the firmware of a test station controller: an MSP432E411Y
that runs TI-RTOS and drives displays, amplifiers and relay boxes over serial
lines, with digital inputs and outputs of its own, commanded over TCP and USB.
This directory models the parts where several tasks, a reset or a periodic
scan meet, checks them with TLC and proves what matters most with TLAPS.
Paths below are relative to `src/`.

## 1. The system

| Component | Source | State it keeps | Model |
|---|---|---|---|
| Flash file system | `System/FlashFileSystem/FlashFileSystemStorage.c` | SPIFFS media, mount state, a semaphore, a gate | `FlashFileSystem`, `FlashStore` |
| TCP binary remote control | `Devices/RemoteController/TCPRemoteControllerBinary.c` | sockets, semaphore of sockets, one worker, timeout task and Event per client | `TCPBinaryServer` |
| Device list and queues | `Devices/Devices.c`, the task of every device | list of devices, one message queue and Event each | `DeviceMessages`, `DeviceChannels` |
| EEPROM configuration | `System/EEPROM/EEPROMStorage.c` | sections in the EEPROM and in RAM, address register | `EEPROMStorage` |
| Discrete inputs | `DiscreteIO/DIO.c` (`DI*`) | scan state, counters, value and mode per channel | `DiscreteInputs` |
| Discrete outputs | `DiscreteIO/DIO.c` (`DO*`) | level, mode, bypass, blink counters | `DiscreteOutputs` |
| Configuration of the pins | `.../DiscreteIO/TCPBinaryCMD_DiscreteIO.c`, `SystemMasterInit.c` | the port, the copy in RAM, a copy per command | `DIOConfiguration` |
| Start of the system | `main_tirtos.c`, `SystemMasterInit.c` | none of its own | initial states of the above |
| Serial interfaces | `Interfaces/IFUART.cpp` | transfer gate, driver enable pin and its one-shot clock, receive buffer and automata | `SerialPort` |
| ALTO Multinet, relay controller | `Devices/ALTOMultinetDevice` | list of workers, a queue of relay requests and a frame each, the command under way | `RelayController` |
| AVDS and Rosen devices on RS-485 | `Devices/AVDS/AVDSRS485Device.c`, `Devices/Rosen/RosenRS485Device.c` | the command under way; the units keep whether they were initialised | `RS485Devices` |
| ALTO amplifier, Forte, generic devices | `Devices/...` | the command under way | task loop in `DeviceMessages` |
| USB console and USB remote control | `Devices/USBSerial` | the command under way | as tasks in `FlashFileSystem` and `EEPROMStorage` |
| ASCII remote controller, HTTP handlers, internal flash storage | | | not reached in this firmware |
| Analog monitor, SPI DAC, CAN test, external flash | | | not modelled: cyclic or test code, pure I/O |

How they interact. `SMC_initThread` (priority 11, the highest) opens the flash,
reads the device descriptions, adds a device for each and then ends; the hook
of the network stack (`NDK/tcpEchoHooks.c`) later adds the TCP remote
controller. A TCP worker (priority 2) decodes a frame and either answers at
once, after it has called into the flash, the EEPROM or the discrete I/O, or
sends a message to a device (`xDevice_sendCharDataMsg`). The device (priority
2 to 7) works on it over its serial line and sends its answer as a message to
the device of the TCP remote controller (5), which writes it to the socket.
USB tasks (3) call the same flash and EEPROM functions. `DIOTask` (7) scans
the inputs and outputs every tick, whatever the commands are doing.

What is hard: tasks of different priorities on shared state with and without
locks, a scheduler that preempts by priority but does not slice time, resets
at any moment (power, the 1 s watchdog, a command, the boot loader), state
kept across a blocking call, and descriptors that outlive their connection.
`PROJECT.json` lists each hazard at its line with the properties that cover
it, or why none does.

What each component has to get right:

* flash: one operation at a time, the locks given back on every path, no reset
  on command in the middle of a write, a description never half replaced;
* TCP server: neither a socket nor a permit lost or counted twice, every task
  of a connection ends, an answer goes to the client that asked;
* device messages: no message lost, duplicated or overtaken, no wakeup missed;
* EEPROM: what was set is what the next start reads, and the defaults of a
  first start are complete;
* inputs: bounces filtered and not counted, a press and a release seen in the
  end; outputs: a bypass overrides, a blinking output goes on blinking;
* pin configuration: what is saved is what is in use;
* serial port: no request cut off by the clock that disables the driver, the
  driver never left enabled, no answer taken for that to a later request;
* AVDS: a unit that was reset is found out and initialised again;
* relay controller: inputs follow the last request for them, a trigger restores
  the gate, a good status tells the truth, one worker for each box, for ever.

## 2. The modules

Every action is one step between two points at which another task, a timer or
a reset can interfere; a label (`pc`, `spc`, `wpc`, ...) says where a task is.
`PROJECT.json` maps each definition to the lines it stands for.

**FlashFileSystem.** Each operation has one frame: `Pend` (the semaphore
`hSFFS_semInitialized`, FIFO), `Enter` (`hSFFS_gateMount`), `Mount` with its
formatting of an empty flash, the work, `Unmount`, `Leave`, `Post`. The work
is one action per SPIFFS call that another reader could see the effect of.
`xSFFS_lockMemoryForReboot` stops after `Enter`, at the label `locked`, and
`Reboot` follows. `Crash` resets at any point and keeps only the media. Every
caller passes `BIOS_WAIT_FOREVER`, so pends do not time out. `FlashStore` is
the promise to the rest of the system: a store with one owner at a time that
only its owner changes, and that can be frozen. `FlashFileSystem` implements
it under `store <- flash, owner <- gate, frozen <- Frozen`.

**TCPBinaryServer.** The server (`Listen`, `Accept`, `CreateWorker`,
`TakePermit`), the worker (`StartWorker` to `ReleasePermit`) and the timeout
task (`Timeout*`) of each connection. `sockets` maps a descriptor to the
connection it stands for now, because `close` frees the number for the next
client; `requests` keeps what devices have yet to answer. `leaked` is history:
permits taken for a worker whose creation failed.

**DeviceMessages.** The list of devices, senders that scan it, and the loop of
every device task. `Queue_enqueue` and `Queue_dequeue` of SYS/BIOS are not
atomic, so each is two steps on the links (`LinkLast`, `MoveTail`; `Unlink`,
`FixTail`). `CanRun` is the scheduler: no ready task of higher priority, and
none of the same priority in progress. `prio`, chosen among `Priorities` when the
system starts, is what the types of the devices in the flash make it. `DeviceChannels` is the promise, one FIFO
channel per device; `Channel(d)` reads the content of the queue off the links.

**EEPROMStorage.** Sections of words, the copy in RAM, and the peripheral with
its one address register: `Program` sets it, `WriteWord` writes and advances.
`EEPROMProgram` polls and takes no lock, so a task is interrupted only by one of
higher priority. `INFO_init` is `BootFails`, `BootReads`, `BootDefaults`. The
layout is the one of `EEPROMStorage.h`, scaled down, with the word of the
memory test inside the input/output section as it is there. `disturbed` and
`damaged` are history: which accesses have interfered, and what may have left
words that nobody set.

**DiscreteInputs**, **DiscreteOutputs.** A tick of `DIOTask` is one step, since
it preempts the workers and they never preempt it; a command is five calls,
each a critical section of its own, and ticks fall between them. `PinChanges`
is the world: it is separate from `Tick`, and nothing is assumed of it. History:
`lows` counts low samples, `settled` says that the scan has been in its idle
state since the configuration last changed, `ticked` that the outputs have been
updated since.

**DIOConfiguration.** Who overwrites whom, item by item of the section: `setDIODirection`
copies the section, sends its response, which may block, and writes the section
afterwards (`SetDIODirection`, `WriteSection`); the other commands write before they
send. What is used is not what is saved: delays become ticks (`InTicks`), and
`Started`, which is `vDiscreteIO_init`, makes one of two fixed configurations of a
saved `pinConfig` and closes the bypasses. `commanded` and `overlapped` are history: the
items that a command has set since the start, and those whose last command ran
beside another that was in its `send`.

**SerialPort.** `bIFUART_transfer` under its gate (`Enter`, `Flush`, `Enable`,
`Written`, `StartTimer`, then `ReadByte`, `ReadRaw`, `Sleep`, `Leave`), the clock
of the driver and `Task_sleep` (`Tick`), and the line and the unit at its other
end (`Drain`, `Answer`, `Ignore`, `Arrive`). Bytes are tokens of a frame; `age`
tells tokens of the transfer in the gate from older ones, which the code cannot.
`damaged` is what the clock has done to a request; `stale` and `quick` are
history (see section 6).

**RS485Devices** composes the port with the two device tasks that use it (AVDS:
`Boot`, `Periodic`, `Reinitialise`, `Command`; Rosen: `Rosen`) and with an AVDS
unit, which answers only once it has been initialised and forgets that when it is
reset (`Hear`, `Answers`, `UnitReset`).

**RelayController.** Discovery (`Discover`), a worker for each relay box (`Wake`,
`TransferRemote`, `GoOn`) and the device task, whose commands are up to seven
steps (`Command`, `ReadGate`, `SetInput`, `Sleep`, `SetGate`, `DetailedStatus`,
`Respond`). A transfer is one step here, since the gate of `SerialPort` admits one
at a time; `Outcomes` says what may come of it, a lost frame and the answer to an
earlier transfer included. `asked` is history: what was last asked of each input;
`gateWas` and `sure` are history of the command (section 6).

The modules meet through their assumptions and not through shared variables:
`DIOConfiguration` takes the EEPROM as RAM, which is what `StoredAsSet` of
`EEPROMStorage` says; the tasks that call into the flash are `Remotes` of
`FlashFileSystem`; the requests of `TCPBinaryServer` travel over
`DeviceMessages`; that transfers do not overlap, and that an answer may be old,
which `RelayController` relies on, is what `SerialPort` shows.

## 3. What TLC checks

| Run | Configuration and bounds | Shows |
|---|---|---|
| `flash` | 2 remote tasks and the startup task, 2 files, 2 descriptions, one of them loadable, every command; 525 473 states | exclusion, semaphore never lost, mounted only inside, replies fit their buffers, startup devices, reboot lock, no truncation, `StoreSpec`; operations complete and reboots happen |
| `tcp_server` | 2 clients, 1 descriptor, 1 permit, 2 accept failures in a row; 115 339 states | permits conserved, sockets returned, Event outlives a client that is not silent, timeout task ends, server serves |
| `tcp_handle` | 2 clients, 2 descriptors, 2 permits | **violation** of `ResponseToItsClient` |
| `devices` | 2 senders that send 2 and 1, 3 devices of which two share an identifier and the list holds two, 2 blocks of memory; all priorities equal, or senders of 6 and devices of 5; 213 574 states | no wakeup missed; with equal priorities no message lost, `ChannelSpec`, and every message handled without help of the timer |
| `devices_preempt` | one device between senders of higher and lower priority | **violation** of `NoMessageLost` |
| `eeprom_storage` | 5 sections of 1 to 3 words, a worker and a USB task, 3 commands, resets at any word; 747 417 states | `StoredAsSet`, `NothingUnset` |
| `eeprom_preempt` | the same | **violation** of `ProgramStores` |
| `inputs` | one channel, 5 modes, two sets of delays up to 2 ticks, counts up to 2; 812 260 states | bypass value, debouncing, no bounce counted, press and release seen in the end |
| `outputs` | one channel, periods up to 3 ticks; 42 226 states | an open bypass overrides, blinking goes on |
| `dio_configuration` | 2 workers, 2 pins, commands of each kind for one of them, 2 configurations of either direction; symmetry; 290 180 states | saved as used, copies current |
| `rs485` | one port, an AVDS and a Rosen task; clock, FIFO and read timeout of 2 ticks, 2 tokens in the receive buffer; 808 460 states | no request cut off, answers are own, driver released; a unit that was reset is initialised again |
| `relay` | a relay box that routes to itself, a temperature box, 1 input, frames of 2 requests, memory for 3; 340 168 states | inputs follow requests, gate restored, good status true, one worker per box; each box served for ever |

Why the bounds are enough. In `flash` the remote tasks begin once the startup task
has released the storage, so that one waits while the other works; a third would only
wait longer in a FIFO queue, and the proofs cover any number. One descriptor is the case in
which its reuse bites at once, and one permit that in which the server waits.
Two devices with one identifier are the case in which one call sends two
messages; two blocks are fewer than these calls could use, so allocation
fails too. Sections of two and three words are enough to be cut in the middle,
and to be overrun. Delays of 0, 1 and 2 are the three cases of the counters
(`> 1`, `= 1`, `0`); a debounce delay of 0 is left out of the configurations
(see section 6). Channels of the outputs share only the synchronous counter, whose
maximum a command for the one channel changes as one for another would. In
`DIOConfiguration` an overlap needs two workers; the second pin is what a section
that is written back must not change. In `devices` senders that preempt the devices
can come between any two of their steps; senders that preempt each other as well
are in the proof of `WakeupsKept`, and in `devices_preempt`. In `rs485` the clock is no shorter than the
FIFO takes and the read no shorter than the clock, which are the cases of the code
(2 ticks more than 16 bytes take, and timeouts of 30 ticks or more, which
is longer at the default of 115 200 baud and at every rate from 5 715 on; the
rate is configurable, and at a slower one a read may end before the clock); two tasks are
the one whose clock runs and the one that is cut. Two tokens are less than a
frame, so the receive buffer overruns. In `relay` the box
routes to itself, because a queue is then filled by the very answer that its
frame gets. What the temperature box adds is frames from another sender: discovery may
take it for the relay box and give it a worker, whose answers route requests to a
relay box that has none yet. The queue goes
from empty to one more than a frame. The proofs cover any number of
boxes, inputs and requests. No state constraint is used; the
bounds (`MaxErrors`, `MaxSent`, `MaxSets`, `MaxVal`, `MaxDelay`, `MaxTicks`) are
constants in the guards or in the inputs.

Symmetry is used only in `dio_configuration`, which has no liveness property. No run switches
deadlock checking off.

Fairness, and why the code justifies it.
* `FlashFileSystem`: weak fairness of every step of an operation. A task inside
  one waits for the semaphore, the gate or the flash, and, in the commands that list
  files or read one (`FlashFileSystemStorage.c:1005`, `:1099`), for `send`, which they
  call with both locks held. So a client that does not read holds up every operation
  until its `send` ends, because the client reads again or because the connection
  breaks: the fairness assumes that one of them comes. Priorities starve
  nobody because tasks block, and a controller that hangs is restarted by the
  watchdog. No request and no crash has to happen.
* `TCPBinaryServer`: the tasks go on; `recv` returns because the receive timeout of 5 s
  is set on the socket, and the pend of the timeout task because it has one.
* `DeviceMessages`: strong fairness of each task's steps: `CanRun` goes on and
  off as others preempt it, and the senders' calls are bounded, so that every
  task is scheduled again and again. `Tick` is not fair: delivery must not need it.
* `DiscreteInputs`, `DiscreteOutputs`: `DIOTask` runs every tick, and a command
  that began goes on. Nothing is assumed of the pin or of further commands.
* `RS485Devices`: the tick, the FIFO and the task in the gate go on. Strong
  fairness of the AVDS device's next request: the gate admits waiting tasks of one
  priority in the order in which they came, and the device waits in it again at
  every event of its periodic clock. The unit need not answer, and its resets and the
  Rosen device's requests may go on for ever.
* `RelayController`: weak fairness of discovery and of each worker, whose loops
  wait only for the port and for their sleeps. Strong fairness that an unknown relay
  box is found when its turn comes: a box that is asked again and again answers
  once, and then there is memory for its worker. Commands need not come, and the
  workers' frames may all be lost.
* `EEPROMStorage`, `DIOConfiguration`: only safety.

Each property of a passing run has a mutant: a definition of the same module,
marked `Mutant`, that breaks the code as a plausible mistake would (a lock not
given back, a value set in the wrong order, a counter not reloaded). With it
in place of the real definition the run finds the property violated.

## 4. What is proved

`tlapm` checks 6113 obligations in eight modules, each for every value of the
constants that the assumptions of its model allow. TLC evaluates those assumptions
in the runs. Each proof has an inductive invariant, a lemma for each action
that it keeps it, and the theorems that follow. Every invariant and action property
that a run checks is the statement of a theorem; what no theorem states is liveness.

**FlashFileSystemProofs**, for every number of remote tasks, files and
descriptions. None of the properties is inductive: that two
tasks are not inside an operation depends on the count of the semaphore, which
depends on who waits. `IInv` adds to the types what a label implies about the
request (`OpInv`) and `LockInv`: the gate belongs to exactly the task whose
label is between enter and leave; at most one task is between pend and post;
the semaphore is 0 while one is and 1 while none is; tasks in the queue are
blocked, each once; before the storage is opened nobody is anywhere. From it
follow `TypeCorrect`, `OneHolder`, `SemaphoreKept`, `GateFree`,
`RebootLockFreezes` (no step changes the flash between the reboot lock and the
reset) and `ImplementsStore`: `Spec => StoreSpec`, each step a step of `FlashStore`
or a stutter. On top of it `MountInv` (mounted only while a task is at a label of
the work), `SizeInv` (what was counted or stat'ed is what will be read, since the
one task inside is the only one that changes the flash) and `StartInv` (what the
startup task has loaded so far) give `MountedInside`, `RepliesAlwaysFit`,
`StartupMatches`. `NeverTruncated` follows from `IInv` step by step.

**TCPBinaryServerProofs**, for every number of clients, descriptors and permits.
`PermitsConserved` is inductive together with what labels say of the server and the
workers (`WorkerInv`): the count includes the permit that the server owes for a worker it has created and
not yet counted. `SocketInv` ties an open descriptor to the one connection
whose worker has yet to close it, and `EventInv` the Event to the timeout task
and the flags that the worker has posted. Theorems: `TypeCorrect`,
`PermitsKept`, `SocketsReturn`, `EventOutlives`.

**DeviceMessagesProofs**, for every number of senders, devices and nodes of
memory, any identifiers and any priorities. Two invariants. `Base` holds whatever the
priorities: it says which steps a task is between, that it has a node there, and
(`Woken`) that from the place where a device finds its queue empty to where it waits, a
message that is linked has an event that is set or about to be posted. From it follow
`TypesKept` and `WakeupsKept`, also for tasks that preempt each other between
any two steps, and although messages may then be lost.

`IInv` holds between tasks of one priority (`OnePriority`), as the
TCP workers and the AVDS and Rosen devices have (2). What is in a queue is known only from a walk along its
links, so `IInv` names the walk: there is a sequence of nodes for each
device, such that the links, the tails and the owners of the nodes agree with it. `Shape`
says that the next links are those of the sequences, that no node is in two places, and
that each tail is the last node unless a task is about to move it; `Owned` that a node
is allocated exactly when a sender holds it, a queue has it or a device processes it.
`OneRuns` (at most one task is between the two steps of an enqueue or
dequeue) is what keeps the two steps apart, and comes from the scheduler. That the recursion
of `Channel` finds the sequence that the links follow is a lemma by a least
counterexample (`WFMin` of the library): two functions that satisfy
one recursive equation would differ first somewhere. From it follow `MessagesKept` and the
refinement `QueuesAreChannels`: `Spec => ChannelSpec`. Their statements carry `OnePriority`,
and are false without it: that is the run `devices_preempt`, with the priorities of the TCP
remote controller (5) and of two devices that answer it (6 and 2). Tasks that share a
queue cannot do with less: when two senders have one priority and the device is
above or below both, TLC finds the same violation (with priorities 2, 2 and 5, or 5, 5
and 2, in place of that run's), since the one interrupts the other between the two steps.

**EEPROMStorageProofs**, for every layout of the sections and every number of tasks and
commands. `SoloInv` says that the address register is at the word of the one task that
programs, unless another has moved it (which is then in `disturbed`);
`StoredInv` that up to that word the EEPROM agrees with RAM; `PhaseInv`
how far a first start has come, and `UnsetInv` what a reset may leave behind a valid
check word. Theorems: `Stored`, `Complete`.

**DiscreteInputsProofs**, for every delay and every set of configurations. A debounced
reading depends on the whole way from `UP`: `FilterInv` says that in `DEBOUNCE` the
counter and the low samples so far exceed the delay, and that past it the counter is
used up; `EdgeInv` that the previous sample of an edge mode is the debounced one.
Theorems: `BypassKept`, `DebounceProved`, `CountProved`.

**DiscreteIOProofs**, for any channels, periods, workers, pins and values, about
`DiscreteOutputs` and `DIOConfiguration`. Once a tick has followed the
command, the level is the bypass value, inverted or not (`LevelInv`), so that
another tick computes the same. `SavedAsUsed` is not inductive, because a section is
written from a copy made earlier; with `CopyCurrent` (the copy is right but for items
whose commands overlapped) it is (`PinsInv`). A start is a step of this proof, and forgets
what was commanded. Theorems: `OpenBypassOverrides`, `SavedConfigurationInUse`, `CopiesAreCurrent`.

**RS485DevicesProofs**, for any kinds of request and any lengths of clock, FIFO and
timeout with FIFO <= clock <= timeout. `OldInv` says that before its write nothing on the line is of the transfer in the
gate, `OwnInv` that after the flush everything received is, unless `stale`;
`FifoInv` that what is leaving is in the FIFO or being written, and that the FIFO is
empty before the clock runs out; `TimeInv` that the clock runs out before the
read does, and stands still before the next write unless `quick`. Theorems: `RequestsWhole`, `AnswersFresh`, `DriverReleases`.

**RelayControllerProofs**, for any boxes, inputs, routings and commands. A command is a
path that forks at what was read of the gate; `GateInv` says at each place what the
bits and the history have to do with the gate, `SureInv` what an acknowledgement
has to do with the input until the answer goes out, while workers' frames come in
between. `IsInjective(list)` is inductive by itself.
`InputsFollowRequests` speaks of a box to which nothing is on its way, so `FollowInv` says
what holds while something is: an input is unknown, or what was asked for last is what it
will be once the frame and then the queue have been performed (`After`). Filling a frame
splits the queue and leaves that as it is (`AfterSplit`), a request that is queued
becomes the last (`AfterAppend`), one that is dropped leaves its input unknown, and a lost frame matters only for inputs that the queue does
not set again (`AfterLastOnly`). The requests of one answer are a recursive
function (`QueuesAll`); that all of them keep the invariant is again a least counterexample
(`RoutesKept`). `Listed` says that only a box in the list has a worker, so that
a new worker has no frame. Theorems: `OneWorker`, `GatesPutBack`,
`GoodStatusTrue`, `RequestsFollowed`.

Only model-checked: liveness (`OperationCompletes`, `RebootHappens`,
`TimeoutTaskEnds`, `ServerServes`, `MessageHandled`, `EdgesSeen`, `BlinkAlternates`,
`Reinitialised`, `BoxServed`), which is beyond the prover. No module declares a
RECURSIVE operator: the library's induction theorems take an operator as a parameter and
cannot be used, so that the two recursive functions (`Channel`, `QueuesAll`) are
handled by least counterexamples, as said above.

## 5. Where the code and what is said of it disagree

Three runs expect a violation; `PROJECT.json` quotes the lines.

* `tcp_handle`. A request that waits for a device keeps the descriptor of its
  client. When the client leaves and another gets its number, the response
  goes to the wrong client.
* `devices_preempt`. ALTO Multinet (priority 6) and AVDS (2) both answer into the
  queue of the TCP remote controller (5) with `Queue_enqueue`. The first may
  preempt the second between its two assignments; a message is then unreachable
  for good. `devices` shows that equal priorities are safe.
* `eeprom_preempt`. A USB command may preempt a worker within `EEPROMProgram`;
  the worker goes on at the address that the USB command has left, and writes its
  words behind the other's section.

## 6. Conditions that the properties name

Each of these is a behaviour of the code that the models have and that a
property excludes by name, so that the reader sees what the guarantee is worth.

* `StoredAsSet` excludes runs of the memory test: its word at 0x200
  (`EEPROMStorage.h:61`) lies within `tEEPROM_DIOCfgData`, which takes 396 bytes
  from 0x080.
* `NothingUnset` excludes what is in `damaged`. `"cut"`: a reset cut the first
  programming after the check word, which is stored with the first section and vouches
  for all. `"blind"`: a command came while the EEPROM was not available. A start without
  the EEPROM gives defaults to the main section only (`EEPROMStorage.c:397`), so that the
  command changes its entries among the zeros of the others, and saves them.
* `StoredAsSet` and `ProgramStores` compare the EEPROM with RAM, which a start reads from
  it. After a reset in the middle of a programming the two agree on a section that is
  part old and part new: neither the code nor a property notices.
* `StartupDevicesMatch` speaks of the start that could mount the flash. When the mount
  fails, `xSFFS_readDevicesConfiguration` returns 0 as it does for a flash without
  descriptions (`FlashFileSystemStorage.c:766`), and no device is loaded: the property
  allows no other number.
* `EventOutlivesWorker` speaks of a connection until a pend of its timeout task has
  expired (`silent`): then the task deletes the Event, although the client may just have resumed
  and its worker be about to post it. `SocketsReturned` does not forbid that the second
  of the two closes of a descriptor (worker and timeout task) ends the socket of a
  client who was given the number in between.
* `NoneLostAmongEquals`, `ChannelSpec` and `MessageHandled` speak of tasks of one priority
  (section 5 has the others); `WakeupNotLost` of any.
* `EdgesSeen` (its first half), `DebounceFilters` and `BouncesNotCounted` speak of a scan that has settled. Debouncing
  that is switched off between two states of a release and on again may find
  `DEBOUNCE` with a counter of 0, and then never reads the key as down. A debounce
  delay of 0 does the same at once.
* `BypassOverrides` speaks of the level once a tick has followed the command.
  `setDOConfiguration` calls `DOSetBypass` before `DOSetBypassEn`, so that the
  value that comes with the command that opens the bypass is not applied.
* A blinking output is on while `DOA >= DOBCtr`, and `DOBCtr` runs from 0 to
  `DOB`: `DOA + 1` ticks of `DOB + 1`. `BlinkAlternates` asks only for the alternation.
* `PermitsConserved` counts a worker that runs before the server has taken its
  permit: one client more than the semaphore allows is served.
* `ServerServes` excludes a semaphore whose permits were all lost to workers that could
  not be created (`leaked`).
* `SavedAsUsed` and `CopyCurrent` exclude items whose commands overlapped with a direction
  command. For an item that no command has set since the start they ask for what the
  start makes of the section, which is not always what was saved: of a `pinConfig` it
  takes the direction only and makes `IN_PU | INT_BOTH_EDGES` or
  `OUT_OD_PU | STR_LOW | OUT_LOW`, and it opens no saved bypass
  (`SystemMasterInit.c:385`-`:419`). The other items it takes over, in ticks.
* `NotCutOff` excludes `quick`: the clock of the driver is one for all transfers of a
  port and sending does not stop it. After a transfer that reads no answer, or that
  took an old one, the next may enable the driver and write while that clock still
  runs, and is cut when it runs out. A transfer that waits for a
  fresh answer outlasts the clock.
* `AnswersOwn` excludes `stale`: an answer that comes between the flush and the end
  of the read is taken for the new one's (nothing in a frame tells), and a flush without
  memory drops nothing.
* `Reinitialised` excludes a request that the clock has cut, for the reason above.
* `InputsFollowRequests` excludes `Unknown`: a frame that was lost is not sent again,
  a command for an input overtakes the requests for it that are still queued, and a request
  is dropped when its box has no worker or there is no memory
  (`ALTOMultinetDevice.c:592`-`:613`). A request dropped for any other reason violates it.
* `GateRestored` excludes `gateWas = Unknown`: without an answer
  `xALTOMultinet_readGateFrom` returns 0, which reads a virtual gate as
  physical, and the trigger then leaves it physical; and a lost request to put it back.
* `AnswerMeansDone` excludes what is not `sure`: any good acknowledgement on
  the line is taken for the own one, and a worker may send another request for the
  input before the command is answered. Of a trigger it speaks of the last
  acknowledgement only, which overwrites that of the first half.

## 7. Not modelled, and why

* `vDevice_remove` and the kill event of device tasks: no caller.
* `xStorageFFS_write`, `xStorageFFS_read` and the HTTP handlers of the flash: no
  caller that is reached; likewise the ASCII remote controller and the internal
  flash storage.
* The second flash device: commented out in the configuration of the driver.
* The content of frames and responses, checksums, logs, indicators: formatting
  that no property is about.
* Drivers, the network stack, SPIFFS and SYS/BIOS: external, modelled by what
  the code relies on (marked external in the map).
* Failure of a programming of the EEPROM (`EEPROMStorage.c:315`): its result is
  ignored by the code, and the model's EEPROM does not fail.
* `IFUART.cpp`: opening and closing a port, `changeSpeed`, `receiveDataSimple` (the
  Forte manager's three messages) and the ALTO frame reader, which is one step of
  `RelayController`. The AVDS reader is modelled as far as where a frame ends; that it
  misses a frame which follows a noise byte equal to the preamble is within `ReadByte`.
* Layout and checks of frames. Answers of the Multinet are not checked for address or
  function by the code, and AVDS answers for their checksum only; both are in
  the models as answers that may be old. What a response puts into the message to its
  sender is not: the answer to `setDOValue` reads the output at the index of
  the command and before the next tick (`TCPBinaryCMD_DiscreteIO.c`).
* `xDevice_add` writes the fields of an entry after it has put it into the list
  (`Devices.c:90`): its callers are the startup task, which has the highest priority,
  and the network hook, which adds the TCP remote controller.
* A message for which there is no memory is dropped without notice
  (`Devices.c:182`); the model drops it too, and no property asks for more.
* A description that cannot be read leaves the fields of the one before it in `devInfo`
  (`FlashFileSystemStorage.c:794`); the model counts devices, not their fields.
* Discovery always uses `IF_SERIAL_6`, while the port of the device is a parameter; the
  model has one port. What the kill event of that device leaves behind (workers, list).
* USB: the console and the binary remote control are two tasks over the vendor's
  composite device. What they share with other tasks, the flash and the EEPROM, is
  modelled with them as tasks; their own parsing is not.
* Production tests and firmware upgrade, as commands: they drive pins and hand over to
  the boot loader and keep no state, apart from the memory test, which is in
  `EEPROMStorage`, and the reset, which is in `FlashFileSystem`.
* ALTO amplifier, Forte manager, generic devices, analog monitor, CAN test, external
  flash, UDP servers: one task each that sends a frame and waits for an answer, or
  samples in a cycle, with no state that another task or a step before could disturb.

## 8. How the project grew, and what is left

Order of the modules: the flash first, since every remote controller goes through
it and a reset can hit it; the TCP server and the device queues, where tasks of
different priorities meet; then the configuration and the scan; then the serial
port, the devices on it and the relay controller, where time, lost and
late frames matter. All of them are proved about.

Left, in order of use:

1. The AVDS and ALTO receive automata byte by byte, against a reference definition
   of a frame over bounded streams.
2. `RelayController` over two instances of `SerialPort`, for a Multinet whose
   discovery and workers are on different ports.
3. The USB tasks, with connection and disconnection in the middle of a command.
