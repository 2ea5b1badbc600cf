# A verification project for the BachelorGoGo robot

The repository holds the firmware of a small remote-controlled robot: an Atmel
SAM4S with a WINC1500 Wi-Fi module, a NAND flash and PWM-driven motors, under
FreeRTOS 7.3.0. A phone app connects over Wi-Fi Direct, sends control commands
over UDP and settings over TCP, and receives status messages. All of the
project's own code is in `src/RobotControlProgram v0.2/src/` (paths below are
relative to it); `ASF/` is vendored. There are no tests and no documents beside
the comments in the code.

## 1. Inventory

| Component | State it keeps | Operations | Correct when |
|---|---|---|---|
| **Control loop task** (`freertos_tasks.h:166-262`) | the command it holds (`control_buf`), its copy of the settings, two flags, two time-outs | read settings, receive input, drive the actuators, check the two time-outs | it never follows a command for too long; it stops when commands stop; new settings reach it |
| **Message handler** (`protocol.c:11-256`, `654-681`) | the globals `iPower_save_mode`, `iAssisted_drive_mode`, `uiVideo_quality` | parse a control message, parse a settings message, apply defaults | one message gives one command; an ACK means that all copies of the settings are in force; no send finds a full queue |
| **WINC task** (`freertos_tasks.h:63-120`) | none of its own | restore the settings at boot, start Wi-Fi, wait for the interrupt's semaphore and handle its events | no event is lost; the robot always ends up with settings |
| **FreeRTOS** (`ASF/thirdparty/freertos`) | queues, tick count, ready, delayed and pending lists | reset, send, receive, peek; stamp and check a time-out; delay; take and give a semaphore; suspend and resume; tick; round robin | as its documentation says |
| **Networking** (`network_module/Networking.c`) | five socket handles, `network_is_connected`, `host_udp_port`, receive buffers | establish, socket callback, listen, send status, connect and disconnect | handles are neither leaked nor used after a close; a lost connection can be established again |
| **Wi-Fi P2P** (`network_module/WiFi_P2P.c`) | `device_name`, `peer_address` | connection callback, start, set device name | the name the module advertises is the name in use |
| **Status sender task** (`freertos_tasks.h:122-164`, `protocol.c:273-652`) | simulated battery level | every 20 s: peek the name, format, send | a connected robot reports periodically; the packet says what the values are |
| **Settings store** (`nand_flash_storage/`) | the first good block | init, write a page, read a page, erase | what was written last is what a restart reads |
| **PWM, servos, propeller** (`pwm_generator/`, `servos/`, `propeller_motors/`) | clock and channel registers | start, set speed, set position | the duty cycle stays within its range; channels are independent |
| **LED task** (`freertos_tasks.h:54-61`) | a pin | toggle each second | - |
| **WINC1500 driver** (`ASF/.../winc1500`) | socket table, `gu8Interrupt`, the registers it shares with the module | interrupt handler, receive a message, send a request, socket and close, reply callback | no message is lost or overwritten; no wake-up is lost; a request arrives whole |
| **Remote control app** | - | not in the repository | - |

### How they interact

    app --UDP/TCP--> WINC1500 --interrupt, semaphore--> task_winc
                                                          | socket callback
                                                          v
                                               network_message_handler --> flash
                                     control queue / settings queue / name queue
                                          |               |              |
                              receives    v         peeks v       peeks  v
                                    task_control_loop            task_send_status
                                          |                              |
                                          v                              v
                                      actuators                    UDP to the app

The three queues hold one item each. The handler refreshes a queue by emptying
it and sending to it: two calls, between which the other tasks run. All tasks
have the idle priority, so they share the processor in slices of one tick
(1 ms), and any step of one may come between any two steps of another.

### What is hard here

- **Interleaving.** Refreshing a queue in two calls; the settings in four places
  that are written one after the other; a socket handle that two tasks write.
- **Time.** Two time-outs in one loop, the first of which hides the second;
  commands that age in a queue before they age in the loop.
- **Failure.** Results that nobody looks at (flash, sockets), endless loops as
  error handling, power lost while a block of the flash is erased.
- **Order.** Events of a connection that is gone; control messages that erase
  each other.
- **Limits.** Queues of one item, a handful of sockets, an 8-bit value from a
  float, a tick count that wraps.

`PROJECT.json` lists each hazard with its line.

## 2. Plan

Order, most important first; a step is a module or two with runs and theorems.

1. *(done)* **Control path**: `FreeRTOS`, `RobotQueues`, `ControlLoop`,
   `MessageHandler`, their composition `RobotControl`; the abstract `DeadManSwitch` and
   the refinement in `RobotAges`. Type invariant, queues, copies of the settings,
   ages of commands, liveness; proofs of all the safety properties.
2. *(done)* **Time-outs and store.** `TickCount`: the tick count with its width, stamps
   and checks across a wrap, against the time-outs of `FreeRTOS`. `SettingsStore`: blocks,
   erasures, writes, reads, failing blocks and power losses at each step; the abstract
   `PersistentSettings`. All their safety properties are proved.
3. *(done)* **Networking.** From the interrupt upwards: `HostInterface` (interrupt, registers,
   `hif_isr`) with the abstract `MessageDelivery`; `Sockets` and `Networking` (both tasks over one socket
   table, links that come and go, late replies); `HostSend` (the way out, which two tasks share).
4. *(done)* **The scheduler**: `Kernel` (delays across the wrap, the suspended scheduler, the
   semaphore and its interrupt) with the abstract `BinarySemaphore`.
5. *(done)* **Actuators**: conversions from coordinates to registers with their widths.
6. *(open)* **Packets**: the digits of `generate_status_packet` and `generate_settings_packet`. They are
   last because the first is only called with three constants and a counter of two digits, and the
   second, when a connection is made (`Networking.c:59`), with the globals of the task that calls it.
7. *(done)* **More proofs**: `OneMessageDrives`, `SettingsReachLoop`, the safety properties of `HostSend`,
   `Kernel`, `Networking` and `Actuators`. All safety properties of the passing runs are proved.

## 3. The modules

| Module | Models | State and actions in the code |
|---|---|---|
| `FreeRTOS` | queues and time-outs | operators only. A queue is a sequence; a time-out is the ticks since its stamp and the ticks to wait. Each queue call and each check is one critical section, hence one step; `TickCount` shows what stamping in one step leaves out |
| `RobotQueues` | the three queues and their items | `controlQueue`, `settingsQueue`, `nameQueue` are the three handles; an item is a pair, a record, a name |
| `ControlLoop` | `task_control_loop` | `loopPc` is the next access to something shared; the other variables are the task's locals. `driven` is the command that the last pass sent to the motors. Peeking or receiving, and stamping, are separate steps, as they are separate calls |
| `MessageHandler` | `network_message_handler`, `apply_default_settings`, boot of `task_winc`, `wifi_set_device_name` | `winc` is the next access to something that outlives the call; `msg`, `tokens`, `coords`, `powerAng` and the counters are locals; `deviceName`, `current`, `stored` are the globals and the flash |
| `RobotControl` | both tasks, the tick, the arrival of messages | composes the two; `lag`, `settingsAge` and `passes` say what the scheduler does at least |
| `RobotAges` | nothing new: history variables | ages of the command in the queue, in the loop, at the motors |
| `DeadManSwitch` | the abstract specification | the output follows commands that are recent enough, or is released |
| `TickCount` | `xTickCount`, `xNumOfOverflows` and one time-out over them | `stamp` is the `xTimeOutType`, `wait` the ticks to wait; the two assignments of `vTaskSetTimeOutState` are two steps, `xTaskCheckForTimeOut` (a critical section) is one |
| `SettingsStore` | `nand_flash_storage.c`, called by `task_winc` | `page` is page 0 of each block, `marked` their marks; `i`, `block` and `buffer` (`write_buffer`) are the file's variables; an erasure, a page write and a power loss are steps; `settled` and `failed` are histories of the last write |
| `PersistentSettings` | the abstract specification of the store | between writes nothing changes; a write leaves the new message, the old one or nothing |
| `HostInterface` | `isr`, `hif_handle_isr`, `hif_isr`, `hif_receive`, `m2m_wifi_handle_events` (`m2m_hif.c`, `nm_bsp_sam4s.c`) | `pc` is task_winc's next access to something that the interrupt or the module changes; `gu8Interrupt` is loaded and stored in two steps; `line`, `buffer`, `waiting` are the module |
| `MessageDelivery` | its abstract specification | a channel that delivers in order and at most once, and all messages if it is not lossy |
| `Sockets` | `gastrSockets`, `socket`, `close` and the requests of `socket.c` | `used`, `receiving` are flags of the table; `replies` is what the module still owes, by the session it was asked in; `silent` is a history of the handles with a request that no reply comes for |
| `Networking` | `Networking.c`, `wifi_cb`, the events of `m2m_ip_cb`, `task_send_status` | an action is an event with its whole handler, cut where the other task can interfere: the flag, `udp_status_socket` and the UDP handles |
| `HostSend` | `hif_send`, called by `task_winc` and `task_send_status` | `pc[t]` is the next bus transfer of task t; `length`, `request`, `address`, `bell` are the registers; the module's buffers are external |
| `Kernel` | `vTaskDelay`, `vTaskIncrementTick`, `vTaskSuspendAll`, `xTaskResumeAll`, `vTaskSwitchContext`, `xSemaphoreTake`, `xSemaphoreGiveFromISR` | `at[t]` is where a task is; the lists are the kernel's lists; `owed` is a history of the ticks that a delay still has to last, `tooLate` one of a give that no unlocking saw |
| `BinarySemaphore` | the abstract specification of the semaphore of task_winc | gives merge, each take uses one up, and work follows each |
| `Actuators` | the drive of the motor and the servos in `task_control_loop`, down to the registers | one pass of the loop is one action; `duty`, `ra`, `rb` are the registers |
| `MC...` | the instances of the runs | |
| `...Proofs` | the theorems of a module | |

Definitions whose comment begins with "Mutant" are plausible bugs. Nothing uses
them: they show that each property can fail.

### Abstractions

- A message is its command and its tokens; a token is a tag and a value that
  already is an `int8_t`. The text, `strtok` and the conversion from a float are
  abstracted. The specifier `CMD*CT` is itself a token with no known tag, and like
  any token it clears the queue; the model keeps that.
- A byte of `coords` or `power_ang` that was not written is `Unset`, and reads as any
  value at the send. The `strtol` end pointers that are not initialised
  (`protocol.c:139-152`) are not modelled: what writing through them does cannot be
  said in terms of this program.
- Speeds and angles are left out: `driven` is the pair they are computed from.
- The flash after a write holds the message, what it held before, or nothing the
  handler recognises, since the result of the write is ignored (`protocol.c:193`). That
  these are the outcomes is what `SettingsStore` shows (`KeepsPromise`).
- A page is a message, erased (`0xFF`, which the handler does not recognise) or torn. A
  torn page is taken not to be recognised either: a page that the power loss turned into
  a different complete message would need a model of the chip's bits. Any block may be marked
  at first; the write erases it all the same (`nand_flash_storage.c:88`). Whether the erasure
  removes the mark is up to the chip. Any erasure or write may fail, on any block and at any
  time, and be reported to have failed after it reached the page.
- `TickCount` has one time-out and one task. A scheduler that is suspended holds ticks
  back and delivers them together; the time-outs count delivered ticks.
- `Receive` is enabled only when the handler is idle: the WINC task handles one
  callback at a time, and the messages wait in the Wi-Fi module.
- `HostInterface` takes the semaphore to be one that loses no give, which is what `Kernel` shows
  when its interrupt is masked in critical sections. The transfers of one `hif_receive` are one
  point. A malformed header (a corrupted size, a group that does not exist, a size of 0) has the end of
  a header that could not be read, with the interrupt masked or not (`m2m_hif.c:488-542`).
  Power saving is off (`M2M_NO_PS`), so waking and sleeping touch no register.
- `Networking` gets its events without bus faults, in the order of the module. A request may fail
  (`hif_send` gives up, as `HostSend` shows): then it is taken not to have reached the module, and no
  reply comes. The program looks at the result of `connect` only. Equal replies of closed
  sessions are merged, replies that the program ignores are left out, a connection that
  is accepted has a handle that is free on both sides, and the session number does not
  wrap. What happens inside a handler before its first access to shared state belongs to
  the action. The moment between emptying and filling the name queue, which
  `MessageHandler` models, is left out here.
- `HostSend` takes a bus transfer to be one step. In the code a transfer is itself a sequence of
  SPI commands that the other task can cut into, so the real interleavings are worse. The
  control and the data part are written in one step.
- `Kernel` has the tasks that matter to each other: those that delay, `task_winc`, one that never
  blocks, the idle task. Only the critical section of `prvUnlockQueue` is cut in two, for the
  interrupt that it does not mask; the others are one step, so the run `kernel_unmasked` shows one
  way to lose a wake-up and not all of them. A tick that comes in a critical section
  comes at its end.
- `Actuators` computes with whole numbers. Where the exact number of ticks is whole, the floating
  point of the code may be one below, and both are allowed.

### Scheduling assumptions

`LoopTicks` and `GapTicks` bound the ticks between two passes of the control loop,
and between emptying and filling the settings queue. The control loop never blocks
and at most five tasks of equal priority (with the idle task) take slices of one
tick each, so both are about 5 in the real system, against 300 and 10000 for
the two time-outs. Messages may arrive at any rate. What keeps changes of the settings apart is the
handler itself: before it empties the settings queue it writes to the flash, each write begins
with an erasure (`nand_flash_storage.c:87-88`), and an erasure waits 3 ms in a loop of its own
(`nand_flash_raw_smc.c:298-300`). As `task_winc` gets slices of 1 ms and shares them with the control
loop, the loop has at least two slices of its own meanwhile, in which it passes hundreds of times.
`FlashPasses` is the number of these passes; 3 are enough for all that is proved. With fewer, the
control loop could find the settings queue empty on each pass, break each time before it looks at
the input, and keep the motors running.

Fairness is weak, on the loop, on the handler and on the tick: the round robin runs
every ready task, and time passes. Nothing is assumed of arrivals. That the round robin does
so is no longer an assumption only: `DelaysEnd` of `Kernel` says that a task that was delayed
runs again.

Elsewhere:

- `HostInterface`: weak, on the interrupt handler and on the task. The line is level
  sensitive, so an enabled interrupt comes.
- `Networking`: none. The module may never answer and the app may fall silent, so the
  properties are all about safety.
- `HostSend`: weak, on the steps of each task. The module need not answer.
- `Kernel`: strong on the tick and on each task's steps. A task that always gets a new
  slice gets something done in one of them, since a slice is a millisecond and interrupts
  are rarer than instructions; a tick is only held up by critical sections.

## 4. Runs

| Run | Shows | Instance |
|---|---|---|
| `commands` | `TypeOK`, `SendNeverFull`, `OneMessageDrives`, `CopiesAgree`, `AckMeansApplied`, `SettingsReachLoop` | 9 messages: a command as coordinates, one that names X twice, one as power and angle, one with half of each; two complete settings messages with two names, two incomplete ones; junk. They come at any rate. 3.4 million states |
| `dead_man` | `StaleInputStops`, `ImplementsDeadMan`, `SilenceStops`, `CommandTakesEffect` | one command, one settings message, at any rate, inputs valid for 1 tick, settings for 3. 1.1 million states |
| `store` | `SettledIsStored`, `KeepsPromise` | 3 blocks, any of them marked, all of them failing at will; 3 messages, so that a message that was replaced can be told from the last two. 48 thousand states |
| `store_first_worn` | that `SettledIsRestored` fails (below) | the same without marks |
| `ticks` | `NeverLate`, `EarlyOnlyIfTorn`, `IsTimeOut` | 6 tick values, 3 overflow values, waits up to 4 ticks: the count wraps inside the stamp, between stamp and check, and back to the value of the stamp |
| `host` | `NoCountIsLost`, `TaskIsWoken`, `BufferIsHeld`, `EveryMessageAnswered`, `DeliversInOrder`, `Delivers` | 3 messages of 1 to 3 parts, 2 faults at any transfer |
| `network` | `ConnectedOnLink`, `TcpSocketsAreOpen`, `LinkIsUsed`, `CommandIsHeard`, `OrphansAreKnown`, `CommandSocketStays` | 3 TCP and 2 UDP handles, 1 stale reply or 1 request without one (failed, or lost with the link) at a time, tasks preempted anywhere. 6.0 million states |
| `kernel` | `SuspensionExcludes`, `OneListEach`, `DelayedBeforeWrap`, `NeverLate`, `NeverEarly`, `DelaysEnd`, `NoLostWakeup`, `IsBinarySemaphore` | two delays, of 1 and of 2 ticks, over a tick count of 3 values; 1 missed tick; the interrupt masked in critical sections |
| `kernel_unmasked` | that `NoLostWakeup` fails (below) | a tick count of 4 values, 2 missed ticks, one more task that never blocks, the interrupt not masked |
| `actuators` | `SidesAreKept`, `MoreIsMore` | 25 coordinates: the ends of the byte, of the servos and of the motor, and the squares where a byte would wrap |
| `host_send` | `AloneArrives`, `LeaksAreBounded`, `EverySendReturns` | two tasks, 3 messages, 2 buffers, 2 sizes, 1 poll, 1 fault. 2.7 million states |
| `host_send_overlap` | that `SuccessArrives` fails (below) | the same with 2 messages of one size, 2 polls and no fault |

Bounds: the time-outs are 1 to 3 ticks and `LoopTicks`, `GapTicks` 1, the smallest values
at which a time-out can expire before, in and after any step, with the settings
time-out longer than two passes, as the proofs require and the real values satisfy.
Values are two or three, enough to tell a mixed-up command from a right one.
`FlashPasses` is 3, the smallest number that the proofs allow and far below the real one.
Ages stop at `MaxAge`, which is above the bound they are compared with; that nothing
is lost by it follows from `StaleInputStops`. The type invariants of `RobotAges`, `SettingsStore`,
`TickCount` and `HostInterface` are proved (section 5) and not checked again in runs. Deadlock is checked, except where a bound ends the behaviour (the messages of the host
runs) or the system really may stop: the control loop never blocks, even when `task_winc`
hangs, and the kernel always has a tick to come.

The real module has 7 TCP and 4 UDP handles; the program uses at most three and two at
a time, so three and two are the smallest table in which all can be open, and small
enough for the leaks to fill it. Three messages in `host_send` are the smallest number at which a
call that gave up leaves an answer behind, another leaves an address behind, and a third one
must tell both from its own. A tick count of 3 values lets every delay wrap, and two
delays let the lists hold a task each on both sides of the wrap. A message of 3 parts
has a header, a part that is not the last and a last one.

What the properties say:

- `StaleInputStops`: the motors never follow a command that was queued more than `AgeBound`
  ticks ago. With the real constants the bound is 2 * (300 + 8 * 5) = 680 ms, not the 300 ms
  that the name `TASK_CONTROL_INPUT_VALID_TIME_MS` suggests. The doubling is real: a
  command can wait in the queue for one validity period and be held for another.
- `ImplementsDeadMan`: the same and its liveness, as a refinement of `DeadManSwitch`.
- `SilenceStops`: it holds wherever `task_winc` is, even spinning on a refused name.
- `CommandTakesEffect`: a queued command reaches the motors unless a later token
  clears the queue.
- `OneMessageDrives`: a message drives the robot by its first two tokens that are coordinates (or a power and an
  angle). Tokens are counted and not named (`protocol.c:78`), so X twice counts too: the robot is driven by the
  second one and by whatever byte the stack held for Y, which the property allows, and not by a value of
  another message, which it does not.
- `AckMeansApplied`, `CopiesAgree`, `SendNeverFull`: what the non-atomic updates of the settings amount
  to, seen from outside.
- `SettingsReachLoop`: the loop runs with the settings in the queue, but for `SettingsWait` ticks after the
  queue was last emptied. That is the settings time-out and a little more: the loop looks for
  settings only when it has expired, so of several changes in one validity period it reads the last.

- `KeepsPromise`: what a restart finds changes only by a write: to its message, or to nothing, or not at all. If
  the writes go to another block than the read looks at, that can be a message from many writes ago. Nothing is
  possible even when the user saves nothing: the handler writes a restored message again
  at each start, and the power can fail during that write.
- `NeverLate`, `EarlyOnlyIfTorn`, `IsTimeOut`: why `FreeRTOS` may leave the wrap out. What it
  leaves out with it is one early time-out, if the tick interrupt wraps the count
  between two instructions, once in 49 days: the control loop then reads the queue early.

- `DeliversInOrder`, `Delivers`: the first is the refinement of `MessageDelivery`. Whatever fails, the
  program never sees a message twice or out of order. It sees each of them in the end, or a transfer
  failed that is not the retried read of the register: that costs the message, although
  `m2m_hif.c:587` says "we will try forever untill we get that interrupt", since the retry comes
  after the interrupt was cleared.
- `TaskIsWoken`: the argument why a level-sensitive interrupt that masks itself, a counter and a
  binary semaphore do not lose a message between them. An RX done that reached the module and was
  reported to have failed is the exception: it leaves the interrupt masked.
- `ConnectedOnLink`, `TcpSocketsAreOpen`, `LinkIsUsed`: what the socket variables mean over
  any order of events. A link that is up is used, being established or being taken down, and an attempt to
  establish it, on handle 0 too, has an answer to come. The exception (`silent`) is real: a `recv` whose
  request failed is not tried again (`Networking.c:56`), so the link stays unused until it is lost. And as 0
  is a valid handle (`socket.c:478`) which `network_disconnected` takes for none (`Networking.c:329`), an
  attempt on handle 0 outlives its link; when its answer is lost with the link, or was never asked for, no later
  link is established.
- `OrphansAreKnown`: the steps at which the program forgets an open handle. They are all
  leaks that the code has: a second ACCEPT, a listening socket with handle 0, a status that overwrites the handle
  of one whose SENDTO event has not come, which a refused `sendto` never brings (`Networking.c:302-315`),
  and the end of one status that clears the handle of the next. Another leak, which stays in a variable, is the
  socket of a settings transfer whose receive failed (`Networking.c:184-208`).
- `CommandIsHeard`: holds until a task was preempted inside `socket()` or `close()` by the other
  one's (`sliced`), since `socket()` looks for a free entry and marks it in two steps that both tasks may be in.
  `CommandSocketStays` says what is left when it was. The other exception (`silent`) is a `bind` or a `recvfrom`
  whose request failed: nobody looks at the result (`Networking.c:127`, `273`), and the robot hears no
  command until the link is lost.
- A robot that starts with the default settings has no name in its queue and never sends a status
  (`freertos_tasks.h:141`), although `freertos_tasks.h:122` says "periodically": in `Networking` these are the
  behaviours in which `named` is false for good, and `OpenStatus` is never taken.
- `SettledIsStored`: a message that was written successfully stays in the first block that its write did not fail
  on. Where a restart looks is another question (below).
- `NeverEarly`, `NeverLate`, `DelaysEnd`: a delay lasts as long as it should, across the wrap and across a
  suspension. `DelayedBeforeWrap` is the `configASSERT` of `tasks.c:1676`.
  `SuspensionExcludes` does not depend on the interrupt's priority, which the theorem shows and the run, with
  the interrupt masked, does not.
- `NoLostWakeup`, `IsBinarySemaphore`: the lock counts of the queue do what their comments say, if the
  interrupt is masked where the code thinks it is.
- `SidesAreKept`, `MoreIsMore`: the casts to bytes in `freertos_tasks.h:230-238` and the limits of the drivers
  never turn an input into its opposite, and more input never gives less. The driver refuses a duty cycle longer
  than the period, but the speed is cut at 100 before (`propeller_motors.c:25-26`), so that does not happen.
- `AloneArrives`: success means delivery, for a call that does not overlap with another, after any
  failures of earlier ones.
- `LeaksAreBounded`: a call that gives up leaves its request standing or its buffer reserved
  (`m2m_hif.c:364-378`), and nothing ever frees it. A call leaks one buffer at most, and a call that succeeded
  and was not overlapped none.

**Disagreements.** `nand_flash_storage.c:115` says "Data is written to the first good
block." The write takes the first block that can be erased and written, and leaves the
others without a mark; the read takes the first one whose spare byte is `0xFF`. When
an earlier block fails without a mark, they are different blocks: the message was
written successfully, and a restart restores an older one, which may have been replaced several
times, or nothing. The run `store_first_worn` shows it. The same happens when the first block has a mark and
can be erased and written: the read passes over it. The theorem `SettledStored` shows that the message is in
the flash, `SettledRestored` that it is restored when the first block has no mark and
the write did not fail on it. The others, each with its run:

- `kernel_unmasked`: the interrupt of the Wi-Fi module has priority 0, which critical sections do not mask
  (`config/FreeRTOSConfig.h:135-138`). If it comes between the last test of the lock count and its
  reset (`queue.c:1301`, `1324`), `task_winc` sleeps on a given semaphore; as the interrupt masks itself
  until RX done, for ever.
- `host_send_overlap`: `task_winc` and `task_send_status` call `hif_send` without a lock. Both can read the same address,
  write to the same buffer and return success.

`servos.c:8` says that the servos start at 5% (extreme left); they start at 7.5% (the centre). This
is a comment about a constant, and has no run.

## 5. Proofs

Proved for all values of the constants that satisfy the named assumptions
(`QueuesAssumption`, `LoopAssumption`, `HandlerAssumption`, `ScheduleAssumption`,
`AgeAssumption`, `StoreAssumption`, `TickAssumption`, `HostAssumption`, `KernelAssumption`, `CoordinatesAssumption`,
`SocketsAssumption`, `NetworkingAssumption`, `SendAssumption`;
the runs evaluate them):

- `RobotControlProofs`: `TypeCorrect`, `QueuesNeverFull`, `IdleCopiesAgree`,
  `AckedSettingsApply`. One inductive invariant `Inv` serves these four. The properties
  speak of the end of a message or of the moment of a send; to get there, `Inv` says
  for each place of the handler which copies it has updated (`Copies`), that the message
  in hand is complete (`InHand`), what the rest of the copies hold meanwhile
  (`Agreement`), and what is different while the flash is restored (`Booting`).
  `CommandsAreWhole` proves `OneMessageDrives`, for any messages, from a second
  invariant, `CommandInv`: the tokens still to parse are the rest of the message, and the pair and
  its counter are what the tokens before have made of them (`Scanned`), so that a pair whose
  counter is 2 was written by the last two tokens that count, both of this message.
  About `RobotAges`: `StaleInputsStop`, `AgedTypeCorrect` and `RefinesDeadMan`, the safety half
  of the refinement. The invariant bounds each age by what is left until the loop
  reads the queue again, `Due`: a tick lowers `Due` by one and no other step raises it.
  `Due` counts the remaining input time-out, the passes after it, and what the loop
  loses to an empty settings queue; that this loss is finite is where the passes of the loop during a write to the
  flash enter (`FlashPasses`): they bring it out of any row of breaks before the next one can begin.
  `SettingsAreRead` proves `SettingsReachLoop` with nothing assumed of arrivals. The invariant
  `SettingsInv` counts, while the loop runs with other settings than those in the queue, how many ticks it
  needs until it reads them (`SettingsDue`) against how long ago the queue was emptied (`InTime`).

- `SettingsStoreProofs`: `StoreKeepsPromise`, `SettledStored`, `SettledRestored`, `StoreTypeCorrect`, for any
  number of blocks, any marks and any failures. A page changes only in a write in progress, to its message or to
  something that is none, and a mark disappears only together with the page behind it. `SettledStored`
  follows from the order of the blocks: those before the one written have all failed.
  `SettledRestored` has its condition inside the formula: the first block has no mark and is not in `failed`.
- `TickCountProofs`: `TimeOutsNeverLate`, `EarlyTimeOutsAreTorn`, `WholeTimeOutsAgree`,
  `TickTypeCorrect`, for all widths. The invariant says how far the counters are from the
  stamp, with one wrap at most in between (`Stamped`), one overflow further when the stamp
  is torn, and that adjusting loses no tick (`Accounted`).
- `HostInterfaceProofs`: `HostTypeCorrect`, `NoCountLost`, `BufferHeld`, `TaskWoken`, `MessagesAnswered` and `HostDelivers`, the
  safety half of the refinement of `MessageDelivery`. One invariant, `HostInv`, has a part for each concern:
  when the interrupt is masked and what is counted (`InterruptInv`), who owns the module's
  buffer (`BufferInv`), that message numbers grow (`NumberInv`), who will wake the task (`WakeInv`),
  and which RX done is still due (`AnswerInv`). A history of what failed
  (`failed`) carries the exception of `TaskWoken` through the invariant.
- `KernelProofs`: `SuspensionIsExclusive`, from what each place of a task says about the scheduler
  (`SuspensionInv`); `WakeupIsNotLost`, which adds where the queue is locked and that the lock count is
  positive when a give met a waiting task (`LockInv`): at any priority of the interrupt a wake-up is lost only to a give
  between the last test of the lock count and its reset (`tooLate`), and there is none if the interrupt is masked; and
  `TakesOncePerGive`, the safety half of the refinement of `BinarySemaphore`, for any priority.
  `ListsApart`, `DelaysSorted`, `DelaysNotLate` and `DelaysNotEarly` rest on one invariant, `DelayInv`:
  each task is in one list (`EachOnce`, `Listed`); the running task is ready, or is at one of the few places
  where it has left the ready list (`RunsReady`); the lists hold the wake times before and after the
  wrap; and what is owed to a sleeping task is what its wake time leaves, less the ticks that
  are missed (`Accounts`). The last makes "not early" inductive: `owed` falls when a tick comes, the
  lists change only when it is counted. What `xTaskResumeAll` makes of any number of missed ticks is the lemma
  `IncrementedIs`, by induction over the ticks, and what a removal leaves of a list is `OnlyIs`, over its
  length; `Induction` derives both from the order of the natural numbers.
- `NetworkingProofs`: `ConnectedHasLink`, `TcpSocketsStayOpen` and `LinksAreUsed`, for tables of any
  size. A link that is not up is not in use, and only handle 0 can outlive one (`LinkInv`). What
  makes this inductive are the replies: a handle that is being established has an answer to come, or is in
  `silent` (`AnswerInv`), and as handle 0 is not closed with its link, the requests made for it must be known to
  be over (`ZeroInv`), or a late CONNECT would be taken for the answer on a link that is gone. Every other
  call on the socket table leaves these replies alone; `Keeps` states that once and `OthersKeep` proves it
  for each function of `Sockets`.
  `CommandSocketIsKept`, `DropsAreFour` and `CommandsAreHeard` are about UDP. A handle that socket() has
  returned and no variable holds yet is in hand only between two places of one task (`HandInv`); the command
  socket, and a listening socket other than handle 0, belong to a connection (`HeldInv`). That
  is enough for the first two: each step that takes a handle from a variable is one of the four, or has closed
  the handle. The third holds while no task was preempted inside socket() or close(): the two tasks then never have the
  same handle (`OwnInv`), a task between socket() and the assignment has one in use
  (`StatusInv`), and the command socket has a bind or a receive to answer, or is in `silent`, which the session number
  tells from the late replies (`HeardInv`, with `Hears` as the counterpart of `Keeps`).
- `HostSendProofs`: `AloneMessagesArrive` and `LeaksAreOfFailures`, for any number of tasks, messages, buffers,
  polls and faults. The registers belong to nobody, so the invariant follows a call that
  nobody overlaps (`Progress`): once the module has answered, no request stands and no bell rings, so
  nobody but the caller touches the buffer; the message is nowhere else until the bell. After the bell it may still
  wait in the buffer while other calls begin (`Arriving`), and none of them gets an answer before the module has
  taken it. `NoLeak` counts: the buffers in use and the request that stands are no more than the calls that have
  asked for one or failed or were overlapped, and the bell.
- `ActuatorsProofs`: `TiltKeepsSide` and `SteeringIsMonotone` (`MoreIsMore`), for all coordinates that fit a signed
  byte. Each conversion is monotone: a longer vector has the longer root (`RootsOrdered`), and the integer root exists
  because a set of numbers has a least member (`RootIs`); a faster motor has the longer pulse; more degrees give the
  smaller compare value, but for the tick that rounding may cost. The invariant `RegistersInv` says that the registers
  are those of the last coordinates: no pulse is longer than the period, so `pwm_channel_update_duty` never refuses one.

Only model-checked: liveness and the fairness of the refinements, which are out of the prover's
reach. Every safety property that the passing runs check is also proved.

## 6. Not modelled

- The text of messages and packets: `strtok`, the conversion from floats, the formatting in
  `generate_status_packet`. Of `generate_settings_packet`
  (`Networking.c:59`) no more than the formatting is left out: the task that calls it owns the globals that it reads.
- `wifi_init`, `wifi_p2p_start` and the start of the module: one sequence of driver calls at boot, whose errors
  stop the task. Whether an interrupt comes before the semaphore exists (`main.c:61`) is up to the module.
- `nand_flash_storage_erase`, the second propeller and the wheels: never called.
- Below a register access: the SPI protocol, the timers, the flash controller. The vendored
  drivers are modelled where tasks, interrupts and the module meet in them, and FreeRTOS where
  the program calls it: no priorities, mutexes, task deletion or blocking with a time-out,
  which the program does not use.
- A write through an uninitialised pointer (`Networking.c:80-81`, `protocol.c:139-152`) and a coordinate that
  does not fit a byte (`protocol.c:43`): undefined, and not a choice over outcomes that could be named.
- The app and the Wi-Fi module are the environment; the definitions that stand for the module
  are marked external in `PROJECT.json`.
