# A verification project for rpi-project

The repository is the software of a line following car on a Raspberry Pi: five
kernel modules for its sensors, buzzer and motors, the user space libraries
over them, a serial link to a Pico, and the programs that drive the car. This
directory holds TLA+ models of the parts where threads, devices and failures
meet, TLC configurations that check them on small instances, and proofs,
checked by TLAPS, of what matters most for every size.

Paths below are relative to the root of the repository.

## 1. The system

| Part | Source | State it keeps | Operations |
|---|---|---|---|
| Message queue | `user_space/uart/uart_queue.c` | ring of 64 strings, `head`, `tail`, `count`, a mutex, a condition variable | `queue_init`, `queue_push`, `queue_pop`, `queue_is_empty`, `queue_destroy` |
| Serial link | `user_space/uart/uart_thread.c`, `uart.c` | `tx_queue`, `rx_queue`, `stop_flag`, `rx_callback`, `uart_fd` | start, stop, `uart_send`, `uart_receive`, `uart_set_rx_callback`, two thread loops |
| Line following program | `user_space/test/a04/a04_test.c`, `tcrt5000_thread.c`, `hcsr04_thread.c` | history of sensor codes, two derail counters with start times, obstacle state, `node_active`, `stop_flag` | `logic`/`handle_state`, `my_distance_cb`, the main thread's start and end |
| the same with UART and MQTT | `user_space/test/a05/a05_test.c` | as above, a `uart_rx_cb` and an MQTT connection | as above; does not call `motor_open` |
| earlier versions | `user_space/test/a01` .. `a03`, `test1` | subsets of a04 | |
| Motor library | `user_space/sensors/motor/motor.c` | `motor_fd`, `motor_state`, `motor_mutex` | `set_left_motor`, `set_right_motor`, `stop_all_motors`, `set_pwm_period`, movements |
| Keyboard program | `sensors/motor/test_motor.c`, `motorgpt/user.c` over the functions of `motor.c` | `motor_state` | keys, commands, `cleanup_and_exit` |
| Motor driver | `kernel_space/motor/motorv1.c` | four pins, two PWM channels, `period_ns`, `left_speed`, `right_speed`, `global_motor_dev` | 14 ioctls, open, release, probe, remove, init, exit |
| Line sensors | `kernel_space/tcrt5000/*.c`, `sensors/tcrt5000/tcrt5000.c` | GPIO mapping, the device node | read of three pins, init, exit |
| Ultrasonic sensors | `kernel_space/hc_sr04/hc_sr04.c`, `sensors/hcsr04/hcsr04.c` | pins, GPIO mapping | trigger, echo wait with timeouts, pin ioctls |
| Buzzer | `kernel_space/buzzer/buzzer_k.c`, `sensors/buzzer/buzzer.c` | `buzzer_on`, GPIO mapping | write, read, ioctl |
| Scripts | `kernel_space/kernel_script/*.sh` | which modules and overlay are loaded | `device_load.sh`, `device_unload.sh` and one pair per device |
| Vehicle application | `user_space/main.c`, `logic.c` | `my_route`, `stop_flag`, `node_active`, emergency state | MQTT commands, node handling, emergency stop |
| Route | `user_space/route/route.c` | list of actions and a position | create, next, reset, reverse, free |
| MQTT client | `user_space/mqtt/mqtt_client.c` | the client, a user callback | init, publish, subscribe, close |

`motorgpt/` holds a copy of the motor driver next to `user.c`, `MEME5101Project/` holds older copies
of the buzzer and UART code, `car_elf/`, `test_elf/` and `modules/` are binaries.

### How the parts interact

    a04/a05 main ---- pthread_create / join ----+---------------+
       |                                        |               |
       | (unlocked start of the wheels)   tcrt thread     hcsr thread
       |                                   logic()      my_distance_cb()
       |     node_active, derail counters, stop_flag <-- shared --> |
       v                                        v               v
    motor.c  (motor_mutex; motor_state)  <-- calls ----------------
       |  ioctl                                 |  read          |  read
    motorv1.c (no lock)                  tcrt5000_driver       hc_sr04
       |                                        |               |
    L298N bridge, PWM                    tcrt5000_hal -- GPIO -- buzzer_k

    uart_send --> tx_queue --> TX thread --> uart_fd --> Pico
    uart_receive <-- rx_queue <-- RX thread <-- uart_fd <-- Pico
                                     +--> rx_callback (may call uart_send)

    vehicle application (main.c, logic.c)
    console --> main thread ---+-- stop_flag, node_active, my_route --+
    broker --> libmosquitto thread (mqtt_message_callback) -----------+
                               +-- tcrt thread: logic, handle_node ---+--> motor.c
                               +-- hcsr thread: emergency_stop -------+--> mqtt_publish

* Shared variables: `stop_flag`, `node_active` and the derail counters, and in
  the vehicle application `my_route` and what it points to, are plain globals of
  the programs, read and written by three or four threads without a lock.
* The only locks are `motor_mutex` and the mutex of each queue.
* Calls from a callback: `my_distance_cb` runs on the hcsr thread and drives the
  motors; the UART callback runs on the RX thread and may send.
* Processes: whatever happens to a program, the kernel closes its devices, and
  `motor_release` stops the wheels. The driver's state outlives the process.

### What is hard, and what must hold

The complete list, each entry at its line, is under `hazards` in `PROJECT.json`.

* **Queue.** A push signals one waiter while another popper may already be on
  its way to the mutex; the three integers of the ring wrap independently.
  It must be a linearizable bounded FIFO and no wakeup may be lost.
* **Link.** Starts and stops that fail half way, a close that fails and keeps the
  descriptor, a full `rx_queue` that nobody drains, a stop that joins a thread
  waiting for a message. Messages must be sent in order and once, nothing may use
  a closed descriptor or a destroyed queue, the callback must miss nothing, and
  the stop should return.
* **Line following.** Two threads steer and reset the same counters; a
  measurement that began before the stop acts after it; a failed ioctl leaves the
  mutex locked. The car must stand before an obstacle, stop when it has lost the
  line, and stop for good at the end of it.
* **Motors.** The driver has no lock and several threads call it; a percentage
  becomes a duty cycle, a percentage and a duty cycle again, in 32 bits; a process
  may die in the middle of a call. The wheels must do what the last call asked, at
  that speed, and stop with the process.
* **Kernel modules.** Every allocation may fail, a program may open a device
  before the init that made its node has returned, and the overlay goes before the module, with
  a program in the driver or not. What is unloaded must hold nothing; each use of memory
  that is gone, and each loss of a sensor pin, must come from one of the causes known.
* **Vehicle application.** The MQTT thread replaces, frees and resets the route the
  tcrt thread walks; `next_step` is a read and a write; the flag that ends the
  threads is also the one a start message clears; the client is destroyed while
  others publish. A route's steps must be taken in their order, the shutdown must
  take nothing from a thread that still runs, and afterwards the vehicle stands.

## 2. The modules

| Module | Models | Uses |
|---|---|---|
| `BoundedFifo` | what a queue promises: call, take effect at one instant, return | |
| `UartQueue` | `uart_queue.c`, every critical section a step | refines `BoundedFifo` |
| `UartQueueProofs` | theorems about `UartQueue` | extends `UartQueue` |
| `UartLink` | `uart_thread.c` and `uart.c` over two queues at their specification | |
| `UartLinkProofs` | theorems about `UartLink` | extends `UartLink` |
| `LineFollower` | `a04_test.c` with the two sensor threads and the motor library | |
| `LineFollowerProofs` | theorems about `LineFollower` | extends `LineFollower` |
| `MotorDriver` | the ioctls and the release of `motorv1.c` | |
| `MotorCtrl` | `motor.c`, the line following program's calls of it and the keyboard program | extends `MotorDriver` |
| `MotorCtrlProofs` | theorems about `MotorCtrl` and its driver | extends `MotorCtrl` |
| `MotorWheelsProofs` | theorems about what the wheels of `MotorCtrl` do in the end | extends `MotorCtrlProofs` |
| `Route` | `route.c` without its pointers | |
| `RouteProofs` | theorems about `Route` | extends `Route` |
| `VehicleApp` | `main.c`, `logic.c`, `mqtt_client.c`, the memory of routes and the two sensor threads | extends `Route` |
| `VehicleAppProofs` | theorems about `VehicleApp` | extends `VehicleApp`, `RouteProofs` |
| `KernelModules` | init, exit, probe, remove of the five modules, the load and unload scripts | |
| `KernelModulesProofs` | theorems about `KernelModules` | extends `KernelModules` |
| `MC...` | instances for TLC | |

`map` in `PROJECT.json` gives for every definition the lines it stands for.
An operator with `Mut` in its name, such as `FullMutOffByOne`, is never used by a
specification: it is a variant with a plausible bug of the definition that follows
it, and each property is known to fail when its variant takes that definition's place.

### State and actions against the code

**UartQueue.** `head`, `tail`, `count`, `data` and `mutex` are the fields of
`uart_queue_t`. `pc[t]` says where thread t is: `PushCall`, `PopCall`, `EmptyCall`
are the calls, `Lock` is `pthread_mutex_lock` and also the part of
`pthread_cond_wait` that takes the mutex back, `PushFull`/`PushStore`,
`PopWait`/`PopTake` and `EmptyTest` are the bodies under the mutex, `Unlock` the
return. `Fit` is the `strncpy` into a slot of `UART_DATA_MAX` bytes: two strings
with the same prefix become the same. `SpuriousWakeup` is the wakeup POSIX allows,
and the signals `uart_thread.c` sends without the mutex. `queue_init` leaves the
slots as they were, so `Init` allows any stored strings.

**UartLink.** `main` is the place of the thread in `uart_thread_start` or
`uart_thread_stop`; `tx` and `rx` are the places of the two threads; `fd` is
`uart_fd`, where `"stale"` is the number a failed close leaves behind (then
`uart_open` returns at once and every write fails). Each failure of the start has
its action (`StartOpen`, `StartTx`, `StartRx`, `UndoSignal`, `UndoJoin`). A queue
operation is one step, as `UartQueue` has shown it to be; a pop of the empty queue
waits and tests again. `rx_queue` and the callback are both fed by the RX thread.
`StartInit` empties both queues and takes no notice of who is in `uart_receive`: a
receiver between its test (`ReceiveTest`) and its pop (`ReceivePop`) then finds nothing
and waits, and `overtaken` remembers whose call began before the last `queue_init`.
The histories `accepted`, `fate`, `nread` and `handled` number the messages.

**LineFollower.** `at[t]` is the next statement of thread t that reads or writes
shared state, `call[t]` what is left of a motor call as a sequence of operations
(`lock`, `left`, `right`, `stop`, `unlock`), so other threads run between them.
`TcrtCount` writes a counter from the value `TcrtLogic` read, because the
increment is not atomic; the hcsr thread's reset can fall in between. Ages stand
for differences of `gettimeofday` and `time`, capped at the value they are compared with
(a reset sets `derail_time` to 0, which is ages ago: `DerailTime`), and a
counter is capped at `DERAIL_SET_COUNT`, above which it is only compared.
The speeds that `handle_state` asks for are kept, since `clamp_speed` lifts the slower wheel back to `SPEED_MIN`.

**MotorDriver, MotorCtrl.** An ioctl is a sequence of operations on pins and
channels and ioctls of several threads interleave. `Mul` is a product modulo the
word, `AsInt` the reading of it as an `int` by `pwm_config`, `Configure` a
`pwm_config` whose failure skips the `pwm_enable` after it. `body[c]` is what is
left of the library call of c. `process` is the program that runs and how far it
is: the line following one, or the keyboard program in its interactive or its
command mode, which keeps `motor_state`: written before the ioctls by
`set_left_motor` and `set_right_motor`, after it by `stop_all_motors`, and by the
keys `+`, `-` and `0` themselves. `cleanup_and_exit` may interrupt a call as a
signal does. `Direct` issues the four ioctls for both wheels, which no program of
the repository uses. `Exit` ends the process anywhere; `motor_release`
needs no ioctl in progress, as the kernel drops the file after them. `asked` is a
history: what the last call asked of each wheel.

**KernelModules.** `Order[m]` lists what the init of m takes, `Ignored[m]` the
failures it does not test, `Undone` what its error paths give back (`UndoneChar` for
those of a character device), `GivenBack[m]`
what its exit gives back. `Take`, `GoWithout` and `TakeFails` are one step of an
init. The scripts are sequences of commands, in the order of the scripts; a command that fails ends
the script except in `tcrt_load.sh`, `tcrt_unload.sh` and for `dtoverlay`, whose result
nobody tests. `RemoveOverlay` therefore comes before the `rmmod` of `motorv1` and unbinds its
driver, with files open and a call in it or not (`motor_remove`); `AddOverlay` with `motorv1`
still loaded probes a second device (`"again"`), or fails to (`"freed"`, as in
`RegisterDriver`: the pointer is set and what it points to is gone). `IoctlTest` is the test
of the pointer in `motor_ioctl`, `IoctlUse` the last use that follows (those before it
change nothing here); `inside` says that a call is between them. `hc_sr04_ioctl` makes an
output or an input of a pin (`Told` are the sensor pins programs name). `refused`, `pulled` and `commanded` are histories of the three things
that explain what goes wrong. `fault` records the first misuse of memory and stops everything,
since what happens afterwards is undefined.

**Route, VehicleApp.** A route is its steps and `current`. In `VehicleApp` every
function of the program is a sequence of statements, named as the function:
`todo[t]` is what thread t still has to execute, and between two statements any
other thread may run. `Command` is one turn of `main_loop`, `Message` one call of
`mqtt_message_callback`, `TcrtReads` and `HcsrReads` one turn of a sensor thread's
loop, `ThreadEnds` its end. `heap` holds every route ever allocated; `free_route`
leaves `my_route` pointing at it, and `route` is the parameter of `handle_node`.
`next_step` is two statements, `NextStep` (the read of `current`, with the history
`last`) and `AdvanceRoute` (the write). `client` tells a live client from one
destroyed by a failed `mqtt_init` or by `mqtt_close`. `Misuse` takes a statement
that would follow a pointer to what is gone: `fault` records it and everything ends.
Two statements may be such by themselves (`Wild`): the write through `node_type`, which nobody sets, and
`Scan`, the parsing of a route message without its bracket, which starts 9 bytes after null.

## 3. What each run checks

Every instance below is explored completely.

| Run | Instance | Shows |
|---|---|---|
| `queue` | 2 pushers, 2 poppers, 2 slots, 3 strings of which 2 share a prefix | ring consistent, no lost wakeup, refinement of `BoundedFifo`, a message is delivered while someone pops |
| `link` | 2 slots, 3 sends, 3 chunks, 2 starts, 1 receiver | order and accounting of messages, no use after close, callback misses nothing, a single receiver waits only if the link was started again during its call, the TX thread ends when it is told to and has a message |
| `follower` | history 3, count 3, codes 0 2 3 5 6 | mutex given back, derail counters count only the latest blank readings and stay below the history |
| `follower_live` | history 2, fair | an obstacle that stays holds the car; the end of the line ends the program with stopped wheels |
| `motor` | 2 threads, percent 4, word 64, period 8, speeds 0 2 3, arguments -1 3 5 | the wheels end up as the last call asked; a dead process turns no wheel; the keyboard program's status is true |
| `vehicle` | codes 5 and 7, a route of 2 steps, 2 routes, each near reading an emergency; devices open or not; fair | no step of a route skipped; sensor threads outlive neither route nor client at the shutdown; the client is destroyed last; the vehicle stands afterwards; the shutdown ends if the motor device is open (in `main.c` as it stands it is not) and no start message comes |
| `modules` | five modules, all devices used, one sensor pin named to `hc_sr04` | nothing held by an unloaded module; each misuse of memory by the line sensors (none), `buzzer_k` and `motorv1` has its cause, and so has each loss of a sensor pin |

Five more runs end in a counterexample; see section 5.

### The bounds, and why they are enough

* `queue`: two slots make the ring full, empty, and wrap; two threads on each side
  are needed for the lost wakeup (one popper asleep, another overtaking it).
  RingInvariant and WakeupSafety remove the bounds for the safety part.
* `link`: `MaxSend` and `MaxRead` exceed `QueueSize`, so both queues fill and
  overflow; two starts give a second session on top of a failed close, with the
  histories of the first still there.
* `follower`: the counters are capped where the code only compares them, the ages
  at the limits they are tested against. History 3 with check length 2 keeps the
  relation of the source (10, 5 and 3), in which a trend is visible in part of the
  history only. The proofs are for every length.
* `motor`: percentages of 4 in place of 100 and words of 64 in place of 2^32 keep
  what the properties depend on: the default period is a multiple of a percent, and
  products stay below the word. A third thread changes nothing that was found.
  The arguments of the command mode lie below, within and above the range of a
  percentage, and a key changes the speed by a quarter of it.
* `vehicle`: two routes are a current one and a replaced one, which is all a thread
  can tell apart: the parameter of `handle_node` and `my_route`. Two steps give a
  first, a next and no next one; a turn and a number that stands for none give both
  ways a node ends. Codes 5 and 7 are the ones with the longest handling; what code 0
  does is the beginning of what 5 does, and a correction is a drive, which a node has
  as well (`vehicle_start` adds code 2). `MaxNear` is 1 for 3, so an
  emergency comes with any near reading: the readings before it change nothing but the
  counter, which `VehicleTypes` bounds for every `MaxNear`, and only put it off. The
  devices are closed, as in `main.c`, which never opens the motor or the ultrasonic
  sensors, or open, as the program needs them to be: with `Opened = {FALSE}` alone no
  wheel would ever turn and every statement about wheels would be empty.
* `modules`: the scripts and the inits are unbounded. One open file per device and one call in
  `motor_ioctl` at a time stand for any number: a second one only repeats what the first can do.
  One pin in `Told` is enough for the ioctl to matter, and leaves pin 9, which only `buzzer_k` changes; the
  theorems are for every set. The run `modules_unload` has programs that open the motor only: nothing else takes part in what it shows.

Deadlock is checked in `queue` and `motor`. It is not in the others, whose systems
really stop: the link after its last start, the line follower and the vehicle
application when they have ended, the kernel and the vehicle at a fault (and bounded
sends and reads).

### Fairness

* `UartQueue`: a thread in a call goes on (WF), and gets a mutex that is free
  again and again (SF): its competitors sleep or block in the device between their
  calls. Nobody is obliged to call, and no spurious wakeup is promised.
* `UartLink`, `TxFairSpec`: only the TX thread is fair. `FairSpec` adds the RX
  thread, whose reads return, and the thread that has begun a start or a stop.
* `LineFollower`: each thread and the clock are weakly fair; a motor operation is
  strongly fair, as the sensor threads sleep 20 and 100 ms between readings. No
  fairness is assumed of what the sensors report.
* `VehicleApp`: main, once it executes a command, and the two sensor threads are
  weakly fair, as threads the kernel schedules. The mutex is held for one statement
  or for ever, so weak fairness is enough. Nothing is assumed of the thread of
  libmosquitto, and nobody has to give a command.

## 4. What is proved

| Theorem | States | For |
|---|---|---|
| `RingInvariant`, `RingTypes` | TypeOK, MutexHeld and RingConsistent always hold | every finite set of threads, every set of strings, every size |
| `WakeupSafety` | NoLostWakeup always holds | the same |
| `RingIsFifo` | ImplementsFifo: `UartQueue` implements `BoundedFifo` | the same |
| `LinkTypes` | TypeOK always holds | every finite set of receivers, every queue size, every bound on sends, chunks and starts |
| `NothingUsedAfterClose` | NoUseAfterClose always holds | the same |
| `NothingLostOnTheWay` | TxAccounting always holds | the same |
| `NothingKeptFromTheCallback` | CallbackInOrder always holds | the same |
| `ReceiveBlocksOnlyInARace` | ReceiveDoesNotBlock always holds | the same |
| `DerailCounting`, `CountersBelowHistory` | DerailEvidence and DerailCountBounded always hold | every history length, threshold, count and delay |
| `DerailNeverStops` | the derail branch is never taken if the count is at least the length of the history | the same; the source has 10 and 10 |
| `MutexGivenBack` | MutexReleased always holds | the same, with the motor device open (`MotorOpens`, as in a04) |
| `FollowerTypes` | TypeOK always holds | the same, the motor device open or not |
| `WheelsStopWithProcess` | NoProcessNoTurning always holds | every set of threads, word width, period and set of speeds |
| `MotorTypes` | TypeOK always holds | every set of threads and of speeds, every word width and period that `WordAssumption` allows |
| `NoIoctlFails` | `ret[c]` is always 0 | the same |
| `WheelsDoAsAsked` | WheelsAsAsked always holds | the same |
| `DisplayedStatus` | StatusIsTrue always holds | the same |
| `WayBackTwice` | `reverse_route` applied twice is the route itself | routes of every length |
| `VehicleTypes` | TypeOK always holds | every set of codes, orders of at most 15 numbers, number of routes and limit of near readings |
| `StepsInOrder` | NoStepSkipped always holds | the same |
| `JoinedBeforeFreed` | SensorsOutlived always holds | the same |
| `ClosedLast` | ClientOutlivesUsers always holds | the same |
| `StandsStill` | StandsAfterShutdown always holds | the same |
| `ModulesClean` | NothingLeftBehind always holds | every set of used devices and of pins named to `hc_sr04` |
| `MisuseExplained` | MisuseHasCause always holds | the same |
| `PinLossExplained` | PinLossHasCause always holds | the same |
| `ModuleTypes` | TypeOK always holds | the same |

Assumptions: `ThreadAssumption`, `SizeAssumption`, `FitAssumption` of `UartQueue`
(finitely many threads, a ring of at least one slot, truncation is idempotent);
`ReceiverAssumption`, `QueueAssumption`, `BoundAssumption` of `UartLink` (finitely many
receivers, a queue of at least one slot, the bounds are numbers); `HistoryAssumption`,
`CodesAssumption`, `DerailAssumption`, `ObstacleAssumption` of `LineFollower`;
`OpenedAssumption`, `CodesAssumption`, `OrdersAssumption`, `BoundAssumption` of `VehicleApp` (a
message has at most 15 numbers, as `handle_route` allows); `WordAssumption` of `MotorDriver`
(full power is more than 1 percent, 100 in the code; the period is a multiple of it, and
their product fits into the word: 200000 * 100 is less than 2^32) and the assumptions of
`MotorCtrl` about speeds and threads (`MainAssumption`: the main thread is one of the clients,
and no client is called "free", the value of a mutex that nobody has); `BusyAssumption`, `ToldAssumption` of `KernelModules`.
`WheelsStopWithProcess` and `WayBackTwice` need none of them. `MutexGivenBack` has a
condition in its statement, `MotorOpens`; the run `follower_no_motor` shows what happens
otherwise. TLC evaluates every assumption.

**The ring.** The ring equation alone is not inductive: a push that is about to
store must hold a string, and a thread in a body must be alone there. `Inv` is
TypeOK, CallOK (a thread between a call and its return is of the kind that makes
that call, with an argument if it pushes), MutexHeld and RingConsistent.
`RingAfterStore` and `RingAfterTake` are the two facts of modular arithmetic.

**No lost wakeup.** While someone sleeps, every message has an awake popper.
`MoreAwake` covers the steps that only add awake poppers. A take removes one message
and one awake popper. A wait is only made with `count = 0`. A push adds
a message, and if anyone sleeps its signal adds an awake popper. The counting is
done with the theorems about cardinalities of finite sets.

**The ring implements a queue.** The refinement maps the slots between `head` and `tail`
to a sequence, and each thread to a call that has or has not taken effect. It rests
on `Inv`: a body runs alone, so the whole of it is one step of the queue, and the store
at `tail` (`tail + 1` modulo the size afterwards) appends to the sequence, the take at
`head` removes its first element. The lemmas about places in the ring say that the sum
of `head` and a place, taken modulo the size, is a slot, that distinct places are
distinct slots, and that moving `head` by one moves each place by one. Waiting and being
woken map to stutters.

**The link.** `Alive` relates the place of the thread that starts or stops the link to
what exists: which threads can be running, whether the descriptor is open, whether the
queues live. `NoUseAfterClose` is a consequence: every `close` and `queue_destroy` is past
both joins, on the failure paths too. `Numbered` says that the fates of a session are
its messages in order and that the queue continues them up to `accepted`; `Dropped` that
only the last can be dropped, by a thread that is on its way out. Together they give
`TxAccounting`. `Heard` ties what the callback was given to the number of chunks read,
and `CallbackInOrder` is inductive with it. `Alone` says that a single receiver between
its test and its pop finds the queue not empty unless the link was started again
since its call began: nobody else takes from it, and a stop does not empty it.

**Derail counters.** A counter is written from a value read earlier, and the other
thread resets counters at any time. `CountPending` says that a pending increment has
its evidence in the history, and that the counter it is for holds no more than the value read
(it may have been reset since); `ResetPending` that a counter which is stale because
the line was just seen will be reset before the history grows by another blank
reading (or the program is ending). `TcrtMove`, `OtherMove`, `Untouched` and
`ResetMove` treat the steps that do not touch the counters and the resets alike.
That a counter stays below the length of the history is then a consequence: a count
needs a reading other than 0 in the history.

**The motor mutex of a04.** `MutexReleased` alone is not inductive. `CallOK` says what the
rest of a motor call can look like at each place: before the lock, between lock and
unlock (`Holding`), at the unlock (`Releasing`); `Owner` that the mutex is held exactly by
the thread whose rest is of the second kind. With the device open no operation fails,
so no call leaves early; that is where `MotorOpens` is needed.

**Types of the line following program.** `Types` adds to the invariants of the counters and
of the mutex the flags, the ages of a derailment and of an obstacle (`Ages`), and the ranges of the
history, the counters and the locals of the tcrt thread (`Bounds`: a count read is one
the counter could have).

**The way back.** `Decoding` says that whatever numbers a message carries become
actions, `ReverseSteps` that the way back has the same length and turns the right way
round at each place; the theorem follows from two facts of arithmetic about places.

**The end of a process.** `NoProcessNoTurning` says something of the pins only.
`AtRest` adds that without a process no call and no ioctl is left unfinished:
`NothingRuns` shows that then no step of one is possible, `ProcessEnds` that only `Exit`
ends a process, after the ioctls in progress, and that its release clears the pins.

**No ioctl fails.** An ioctl fails if a duty cycle exceeds the period, and could after an
overflow, a percentage above 100, or a period that changed. `Types` says that every
statement of the library carries a clamped percentage, every operation of the driver a
duty cycle within `DefaultPeriod` or a percentage within `Percent`, and that the period in
use is `DefaultPeriod`; `Fitting` is the arithmetic (no product wraps, a duty cycle is within
the period and turns back into a percentage of at most `Percent`), `DutyFits` the same
for `speed_to_duty_ns` with any number, the arguments of the keyboard program's command
line included. The handling of failed ioctls in `motor.c` is therefore never reached by these
programs.

**What the wheels do.** `WheelsAsAsked` compares `asked`, what the last call asked, with the pins
and the channels when every call has returned. Between these two moments lies every rest of a call, so
the invariant speaks of rests: `Fits(pin, pwm, speed, as, Q, T)` says, of the statements `Q` left of a call
and the operations `T` left of its ioctl, that each of them asks for what was asked
(`StmtFits`, `OpFits`) and that whatever none of them is going to set has its value already
(`WheelFits` for pins, duty cycle and enabled channel, `SpeedFits` for the stored speed). With nothing
left it is what the theorem claims. It is preserved because the calls have an
order (`InOrder`: the speed of a wheel before its direction, nothing after the unlock;
a driver that has just set a duty cycle from an old percentage sets it again when the wheel is
turned), because calls under the mutex run one at a time (`OneAtATime`, `CallsWhole`: what
waits for the mutex is a whole call, so it becomes the one asked for when it gets the mutex,
`LockTaken`), and because percentage to duty cycle and back is exact (`Exact`;
here it is used that the period is a multiple of `Percent`). `OperationFits` treats the
operations of the driver, `IssueFits` the operations an ioctl consists of, the lemmas ending in
`Started` the calls of the programs, `BetweenPrograms` the start and the end of a program.
`asked` is sure unless calls with and without the mutex have overlapped (`a04_test.c:502`),
and the theorem claims something only when it is.

**What the keyboard program shows.** `NotesInv` adds that while keys are read one thread calls, that
only speeds in range are asked, and that for each wheel either a statement is left which
notes its direction (`Noting`) or what is noted of it is what was asked. `StatusIsTrue` follows
with `WheelsInv` when nothing is left.

**The vehicle.** Threads of `VehicleApp` are programs: `todo[t]` is what is left to execute.
`Programs` says that what is left for a thread is made of its own statements, in a shape
which its handlers have and which every tail of it keeps (a `next_step` only as the
last but one, after its `has_next`; a rest of `shutdown_system` for main at the end), `Routes` and `Position` that
the route in use is one that lives, with a position that is 0 or follows the last step
taken, also while tcrt is between the reading and the writing of `current`. `Shutdown`
describes what main has done by what it has left of `shutdown_system`: `Quiet` (a sensor thread
that has ended has nothing left), `Powered` (the wheels turn only with the device open), `Ending` (which sensor threads are joined), `Freed`
(the route goes after both joins), `Closed` (the client goes after that). The theorems
about the shutdown follow from these conjuncts, each of which needs the others.

**Kernel modules.** `Inv` adds to what is claimed: only the module which the load script
is inserting is in its init (`OneInit`); a module holds no more than its exit gives back
(`Accounted`), and in its init no more than the steps behind it took (`SoFar`), so that
neither an exit nor an error path leaves anything (`Emptied`). For `MisuseHasCause`, `Life` adds
the lives of the modules: the driver of the sensors only over a HAL that has mapped the registers,
no node of that driver before its init is complete, a file open only on a loaded module, a call inside
`motor_ioctl` only with the file open, and a complete `motorv1` with its device as long as the overlay was
not pulled from under it (`MotorLive`). It is this last conjunct that the order of the scripts breaks, so it says
`~pulled`, and the theorem what remains.

For `PinLossHasCause`, `BuzzerFirst` says that the load script gets past its first command
only with `buzzer_k` loaded, whose init sets two of the pins to outputs, and `HalOver` that the
HAL of the line sensors is loaded over `buzzer_k` except while the unload script is between
the two, as long as no removal was refused; so no init of `buzzer_k` finds the HAL loaded.
`ScriptTypes` keeps the scripts within their commands, and `ModuleTypes` adds the ranges of the
other values (`Values`).

**Only model-checked.** Liveness under fairness (`PopProgress`, `TxEndsOnMessage`,
`ObstacleHoldsCar`, `LostLineStops`, `ShutdownStops`, `ShutdownEnds`), which is out of the
prover's reach; the properties of section 5 are violated, so there is nothing to prove of
them. Every invariant that holds, and the refinement, is a theorem.

## 5. Where the code and its comments disagree

Each of these is a run with a counterexample, listed under `findings`.

* `link_stop`, *StopReturns*: `uart_thread_stop` signals the TX thread, but
  `queue_pop` only re-tests `count == 0`; with an empty queue the join never returns.
  `TxEndsOnMessage` is the part that does hold.
* `follower_lost`, *LostLineStops*: a car that has lost its line never stops, for
  the history is as long as the count is high (theorem `DerailNeverStops`).
* `follower_no_motor`, *MutexReleased*: a failed ioctl in `stop_all_motors` returns
  with the mutex locked; a05 never opens the device, so its first stop does.
* `vehicle_start`, *SomebodyDrives*: `stop_flag` starts at 1, so the thread that reads
  the line may end before anything starts the vehicle; a start then clears the flag
  (`main.c:153`, `main.c:68`), the console reports that it runs, and nobody steers.
* `modules_unload`, *ExitSafe*: `motor_unload.sh` removes the overlay before the
  module, whose exit then reads through a null `global_motor_dev`.

Seen while modelling, and not turned into runs:

* after the stop at the end of the line a measurement under way can start both wheels
  again (`a04_test.c:188`), until the program ends (`ShutdownStops` holds);
* `motor_probe` sets `global_motor_dev` before anything can fail, so `motor_init` takes a failed
  probe for a complete one (`motorv1.c:851` says it waits for that) and writes to memory that has
  been freed (`motorv1.c:860`); one of the two causes in `MisuseHasCause`;
* `motor_ioctl` tests the pointer once (`motorv1.c:450`) and takes no lock; a call past the test
  follows a null pointer after `motor_remove`, or enables a channel between its
  `pwm_disable` and its clearing of the pointer;
* if the line sensor is in use when the modules are unloaded its modules stay, and the next load
  of `buzzer_k` makes outputs of pins 9 and 10, which `tcrt5000_hal.c:46` has made inputs
  (`refused` in `PinLossHasCause`);
* two threads in `uart_receive`, called non-blocking, may find one message, and one of them
  waits; a single one waits only if the link is started again during its call
  (`ReceiveDoesNotBlock`). No program of the repository calls `uart_receive` at all, and none
  starts the link twice;
* `IOCTL_SET_PERIOD` (`motorv1.c:470`) gives each channel the speed of the other wheel;
  the next speed puts it right, and the period is only set before any wheel turns;
* the sweep at `a04_test.c:220` is described with a speed of 25, which
  `clamp_speed` makes 40;
* `logic` may run although `node_active` is set, between the test and the call
  (`tcrt5000_thread.c:33`); `ObstacleHoldsCar` shows it does no lasting harm;
* `userspace_includes/uart_thread.h:26` says `uart_receive` returns 0 when there was
  nothing and a positive number when there was; it returns 0 for a string received;
* `a04_test.c:502` starts the wheels without `motor_mutex`; `WheelsAsAsked` is
  stated so that it claims nothing for a call that this overlaps;
* a buzzer device can be opened before `ioremap`, and while the init may still fail;
  `buzzer_k` keeps its region and cdev when its init fails, and is left out of
  `NothingLeftBehind`; `hc_sr04` tests nothing in its init, and is left out of `MisuseHasCause`;
* `hc_sr04_ioctl` takes any pin, those of the line sensors included (`PinLossHasCause`);
* a route message without the bracket after `"route":` is read from address 9 (`main.c:88`);
* `device_load.sh` reports success although an `insmod` in `tcrt_load.sh` failed;
* a route message frees the route a node is being handled with (`main.c:97`); at the
  shutdown the MQTT thread, which still runs, may use the route that main has freed;
* a start while `handle_node` runs can lose its reset (`route.c:48`), and the position
  announced at `logic.c:109` is read again, so it may be that of the reset route;
* `emergency_stop` is not latched: the next reading of the line drives on, and so does
  a stop command given in the middle of a node, whose handling goes on, with no
  thread left afterwards to stop the wheels before the shutdown does;
* the shutdown never ends if a start message comes between `main.c:124` and the joins;
* neither the motor nor the ultrasonic devices are opened by `main.c`: the first
  `stop_all_motors` keeps the mutex, and the commands 0 and 3 of the console then
  block for ever; `uart_thread_start` is not called either, so no lamp is lit;
* `mqtt_init` keeps the pointer of a client it has destroyed, and main subscribes on it;
* `node_type` is written through a pointer that nobody sets (`main.c:103`), and a
  failed `create_route` is not noticed;
* `move_forward` repeats the last speeds, so after a correction the wheels stay uneven
  (`logic.c:185` says both run at the same speed);
* `logic.c:74` means 5 cm and compares with 5, but the driver returns millimetres
  (`hc_sr04.c:87`);
* the numbers of the `hc_sr04` ioctls differ between driver and library.

## 6. Modelling choices

* `set_right_motor` lacks a `return`; its result is only logged, so it is left out.
* A join of a thread that was never created (a04, a05) returns at once.
* `queue_init` takes no lock. A start that falls inside a push or a pop, between two statements
  under the mutex, is not modelled: it would initialise a mutex that is held. Nor is
  `queue_destroy` modelled as waiting for a thread that sleeps in a pop of `rx_queue`.
* `uart_send` is called only while the queues are initialised. a05 stops the UART
  before it joins the hcsr thread, whose callback may send; what a destroyed mutex
  then does is undefined, and it is listed as a hazard.
* The wall clock only advances, and the milliseconds of `get_millis`, a `long` that may have 32
  bits, do not wrap.
* A product of speed and period can overflow above 42.9 ms and a period of zero
  divides by zero; no program asks for a period other than 200000 ns, and the
  model has only that one.
* `motorgpt/user.c` and `test_motor.c` differ from `motor.c` in the device's name, the
  first speeds and the mutex, which a single thread does not notice.
* `VehicleApp`: `main.c` and `logic.c` do not compile together as they stand (two
  definitions of `node_active`, `route` undeclared in `logic.c`, the type of a node).
  `route` in `logic` is taken for `my_route` and `node_active` for one variable.
* `my_route` is read and used in one statement, except by `handle_node`, which keeps
  the pointer it was called with.
* The write through `node_type` either faults or does no harm to what is modelled.
* The lamps, the buzzer and what is printed are left out; so is the read of the line
  sensor that fails, which changes nothing. Consecutive publications, and consecutive
  calls that set a motor, are one statement.
* `mosquitto_loop_stop` cancels its thread at any statement, but not while it waits
  for a mutex, and then joins it.
* `KernelModules` follows the pointers and the memory of the motor driver only; its channels and
  speeds are those of `MotorDriver`, whose device stays for as long as programs run. What a removal
  in the middle of an ioctl does to a channel is therefore in no model.
* The buzzer's and the sensors' read, modify and write of a function register is one step.
* Only the two complete scripts are run. `/dev/motor0` exists from the `mknod` of
  the script on.
* The library's 10 ms, 20 ms and 100 ms sleeps are left out: a step may happen at
  any time.

**Not modelled.** Terminal modes and what is printed; libmosquitto; the earlier
programs a01..a03, whose handlers are subsets of a04's; the echo measurement of
`hc_sr04.c` and the reading loop above it, which give one number per sensor that every
program must take as it comes, -1 included (the library's pin settings fail, because
the ioctl numbers differ, so what is measured depends on pins chosen elsewhere); the
state of the buzzer, a copy of the last value written that nothing else depends on;
UART and MQTT calls of a05 on top of the handlers of a04.

## 7. Plan

1. `HcSr04`: trigger, echo waits and their timeouts, the four sensors read in turn.
2. The motor operations of `LineFollower` and `VehicleApp` as abstractions of
   `MotorCtrl`.
