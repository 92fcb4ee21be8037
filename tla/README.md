# Verification of RG for Mac / minieap

RG for Mac is a menu bar app (`src/RGForMacApp/main.m`) that starts, watches and
stops `minieap` (`src/minieap-src/`), an 802.1X client for Ruijie networks. This
directory holds TLA+ modules of both programs, TLC configurations that check them on
small instances, and proofs that the TLA+ proof system checks for every instance.

## 1. Inventory

### Components

| component | state it keeps | operations | talks to |
|---|---|---|---|
| alarm scheduler (`util/sched_alarm.c`, `linkedlist.c`) | list of events, list of additions during a ring, `g_last_set_time`, the kernel timer | `schedule_alarm`, `unschedule_alarm`, `alarm_sig_handler` | calls back into the state machine and rjv3, from a signal handler |
| 802.1X state machine (`eap_state_machine.c`) | state, counts of retries, failures and rounds, the last frame, ids of its watchdog and its retry | `switch_to_state`, receive handler, watchdog, restart, Logoff | scheduler, driver, plugins, marker file, `exit` |
| process start and end, PID lock (`minieap.c`, `util/pid_lock.c`, `util/logging.c`) | PID file, the `flock` on it, `<pidfile>.online`, the log | start-up in eleven steps, exit handler, signals | other instances, the app, only through files and signals |
| drivers (`if_impl/`) | a capture handle, a stop flag | prepare, start, stop, send, destroy | libpcap, bpf or a raw socket |
| packet plugins (`packet_plugin.c`) | list of active plugins | hooks on frames sent and received | state machine calls them in order |
| rjv3 plugin (`packet_plugin/rjv3/`) | keep-alive key and number, count of successes, DHCP state, last frame | builds the vendor fields, keep-alive chain, second authentication | scheduler, `switch_to_state` from inside a hook |
| packet builder (`packet_builder.c`) | one builder for the process | set the fields, build | the thread and the SIGALRM handler |
| configuration (`config.c`, `conf_parser.c`) | the options, the file | defaults, file, command line, save | everyone reads it |
| digests, conversions (`rjv3_hashes/`, `md5.c`, `misc.c`, `gbconv.c`, `net_util.c`) | a context of a digest, else none | update and final, conversions, lookups | rjv3 |
| menu bar app (`main.m`) | flags of the start, stop, repair, probe and sleep flows | a 3 s tick, user commands, notifications, background jobs | minieap through files, signals and `ps` |

### What is hard here

* One thread, one SIGALRM. Every timeout runs *inside* whatever the thread was
  doing: between `alarm(0)` and `alarm(n)`, between a frame's copy and the switch
  it calls for, between two calls that fill in a packet, on the stack of `pcap_loop`.
* `switch_to_state` is re-entrant. A transition may switch state itself; the outer
  call then overwrites the state. rjv3 does it from a hook of the receive handler.
* Alarms are cancelled by an id kept in a static variable; an id that is
  overwritten or never stored leaves an alarm nobody can cancel.
* Instances share files only; each may stop between any two system calls, and a
  signal may come between any two steps of `main` and of `exit_handler`.
* What one run saves, the next one reads with another parser.
* The app decides on what it saw at a tick and acts in a later block; its scripts,
  probes and prompts answer whenever they like.

What makes each component correct:

* scheduler: no alarm early, none forgotten, none twice; the list is stable under
  traversal.
* state machine: always something to wake it; it gives up when told to and not
  before; a stop logs off.
* process: one instance at a time; the files name it; only the owner of the lock sends, unless it was told
  to do without;
  the Logoff leaves before the handle closes; a stop ends it.
* rjv3: heartbeats as long as there is a session; the wait for DHCP ends; properties,
  trailer, lease and echo key say what they were made from.
* builder: a packet is the one that was asked for.
* configuration: command line over file over defaults; a saved file loads to what was
  saved; a refused run leaves the files alone.
* app: at most one automatic repair; what is shown is of this session; a quit ends it;
  a session lost in sleep comes back; no false alarm.

The hazards, each at its line, are listed in `PROJECT.json`.

## 2. Modules

| module | models |
|---|---|
| `SchedAlarm` | the scheduler alone, any callers |
| `AlarmService` | what a caller may rely on (abstract); `SchedAlarm` implements it |
| `EapStateMachine` | the state machine on the scheduler, the frames, SIGTERM, the link |
| `Rjv3` (extends `EapStateMachine`) | the rjv3 and printer plugins, as hooks of the state machine |
| `PidLock` | several instances around the PID file and the marker |
| `Drivers` | the libpcap, bpf and sockraw drivers, as operators on a record |
| `Process` (extends `Drivers`) | one process from `main` to the end of `exit_handler`, its log, its signals |
| `RjProps`, `NetUtil`, `Digests`, `Gbconv` | property lists, lookups, digests and conversions, as operators |
| `Lists` | the selection from a list, as a recursive function (`SelectSeq` has no definition the proof system can use) |
| `Packets` (extends `RjProps` to `Gbconv`) | the shared builder, and what a frame carries |
| `Options`, `RjOptions` | words, lines and options of the program and of rjv3, as operators |
| `Config` (extends these two) | runs that load and save, one after the other |
| `AppDelegate` | the menu bar app against a minieap process |
| `SchedAlarmProofs`, `PidLockProofs`, `ProcessProofs`, `AppDelegateProofs`, `EapProofs`, `Rjv3Proofs`, `PacketsProofs`, `ConfigProofs` | theorems about the module of that name (`EapProofs`: `EapStateMachine`) |
| `MC*` | instances for TLC |

The header of a module says how its state corresponds to the code; `PROJECT.json` "map"
has the lines of each definition.

### SchedAlarm and AlarmService

The variables are the static variables of `sched_alarm.c`, the kernel's `timer`, and
the place of the main thread in `schedule_alarm`. A main thread's `schedule_alarm` is two
steps, because a SIGALRM may be delivered in between; a ring is `RingBegin`, one
`fire_single` per due event, the calls its callbacks make, and `RingEnd`. A list is a
set, ordered by id, as insertion orders it. Removal and insertion are one step each: a
signal in the middle of a pointer update is below the model.
`togo` is a ghost, the seconds until the time the caller asked for.
It stays at -1 once it is late, which keeps the model finite.

`AlarmService` has ids with seconds to go. An alarm that is live may run once its time has
come, may be cancelled, and is then gone. A cancel is the caller's call of `unschedule_alarm`: the history
variable `cancelled` records the call in both modules, so no call is a stutter, and the abstract
`Cancel` must remove the alarm with two exceptions, which `MayBeLost` names. The time of the alarm has come
already; or a callback cancels an alarm that was scheduled in the same ring, which waits in
`g_alarm_list_add_temp` while `unschedule_alarm` looks at `g_alarm_list` only (`sched_alarm.c` 140): such a call does
nothing, and the alarm runs later. The service also leaves open how late an alarm runs: the code promises nothing
there (section 3). `SchedAlarm` implements it under

    live <- Live (the events a ring has neither fired nor marked, and the additions)
    running <- cursor          last <- g_last_id
    fresh <- the ids of g_alarm_list_add_temp          cancelled <- cancelled

### EapStateMachine and Rjv3

The memory of the process is one record `m`, and a C function an operator from `m` to `m`,
since calls nest (`switch_to_state` calls a transition, which calls
`switch_to_state`), and a ring runs several callbacks to completion. The actions are the
points where a SIGALRM or SIGTERM can come in between: before and during the sleep of
`trans_to_preparing`, blocked in `start_capture`, and twice inside the receive handler
(frame freed, frame copied). `exit` runs `exit_handler` and leaves `m.exit`, after
which nothing happens; reading through NULL is the exit `crash`.

An alarm carries `named`: whether the static variable for its callback still holds its id.
A frame is one of six kinds. Sending succeeds when the link is up; the link
changes at any time. `pcap_breakloop` called before `pcap_loop` is remembered, as
libpcap documents. `accepted` and `rejected` are ghosts that count what the
server sent.

The hooks `prepare_frame`, `on_frame_received` and `plugin_alarm` are constant operators.
In `eap_app` they are the identity, which is minieap without rjv3; `Rjv3` gives them
their meaning: the hooks of the active plugins in order (recursive functions over `ActivePlugins`, each
step a `call`), the first that fails being the last that is called, the keep-alive chain, the wait for DHCP, the second authentication. The
plugin's memory is `m.plugin`; `address` in it says whether the interface has its lease,
and changes at any time. An echo key is told apart from 0 only.

Simplifications: a ring is one step and comes between steps of the thread, so the race inside
`schedule_alarm` is only in `SchedAlarm`; the server never sends a
frame while `MaxAlarms` alarms are pending (`MaxAlarms` is above what one frame and one ring
add). Counters without a limit in the configuration stay at 0, ghosts stop at a cap.

### PidLock

Each instance has a program counter with at most one system call on a shared file
per step. `pid_lock_init` to `pid_lock_save_pid` are as `main` calls them, with
the failures between them; the end is `pid_lock_destroy`, in three steps. A pid is used again after its process
ended. Of the authentication, `auth` keeps what the marker depends on. A Success writes it; a Failure in
`EAP_STATE_SUCCESS` removes it (`pid_lock_clear_online`); a Request of the server, or the second authentication, leaves
that state with the marker (`AuthenticatesAgain`), and a Failure then finds another state and leaves the marker
(`FailsAgain`, `eap_state_machine.c` 261). `orphaned` is history: the marker may be that of an instance that was killed.
`go_background` only gives the instance its final pid (the child inherits the lock, and
the parent leaves through `_exit`), so it has no step. `Sigkill` adds the end without
a handler; it also stands for an exit inside `exit_handler`, which is not resumed. A PID file named "none" is in
`Process` only; a marker or a file that cannot be written is not modelled.

### Drivers and Process

A driver is a record, each of its functions an operator; where the system may answer in
several ways it returns the set of outcomes. `Process` takes the steps of `main` and of
`exit_handler` one by one, with the driver that was selected, and lets a signal, an alarm or a
failure come between any two. What happens inside a callback is `EapStateMachine`'s; here a
callback returns or exits, and may leave an alarm behind. An alarm also rings in `exit_handler`, where a callback
that calls `exit` (the watchdog, or the retry, out of tries) ends the process: the handler that was running is not resumed, and
the steps it has left do not come (`reentered`). `pid_lock_lock` answers in four ways: with the lock, with none because the
PID file is "none", with none because `KILL_AND_START` goes on after the signal, or with a failure. The driver's
pointer is never reset: `freed` is in the record, and history variables remember a use after that, and a frame that
was sent without the lock.

### Packets

The thread builds a packet in four calls on the only builder, and an alarm that sends one may
preempt it between any two; the reference `Asked` is the frame that answers a request. The
variable `data` is a piece of what a frame carries or what is computed from one: a trailer, a
server message, a heartbeat, a lease, a digest, a notice, a seed, a password. It is chosen in
the initial state, is compared there with a reference, and has no part in what follows.
`RjProps` works on bytes, lengths modulo 256; `Digests` keeps, in place of the chaining
value, the blocks it was computed from, so that *which* bytes are compressed in which order is
exact and the compression itself is left out; the text computed for a challenge names each
byte by its origin. `Gbconv` takes the character table as a constant; the reference, `IndexOf`, takes the place of a
character in it from the comments beside `gbk_to_index` and the layout of the table, not from the code.
`NetUtil` has the routing table in datagrams that are read into a buffer of `NL_BUFSIZE`, cut where it ends;
a header behind the buffer is whatever the memory there holds (`beyond`). A name server is a family and an
address: the lease takes only what `inet_pton` takes for `AF_INET`.

### Options, RjOptions, Config

A text is a short sequence of character codes; `None` is NULL. The options and plugins go by their
names, which are strings: `Names` is `STRING` with the names the code lists added, since the prover knows of no
string that it is in `STRING`. `TypeOK` has what C does not check: a text fits the buffer it is copied to, and the numbers
that choose among a few ways (`--daemonize`, `--dhcp-type`, `--eap-bcast-addr`) are of those the help documents, unless the
argument was negative. `getopt_long` is modelled as
the two tables use it, which differ: the program lets the options of rjv3 by, and the other
way round. An argument glued to an option that takes none (`--save=1`) is answered `?`, and the option passed over,
or, by the C library of macOS with the `:` the table begins with, `:`, and the run refused:
both happen (`ParseArgumentOfNone`). A run goes through the defaults, the file, the command line, the same for the
plugins, and the save, which empties the file before it writes it; it may be killed between any
two of them, and the files stay for the next run.

### AppDelegate

The record `app` holds the delegate's properties, what is queued on the main queue
(`pending`), the two background jobs (`start`, `stop`) and the probes that are out, each with
the session it was sent in. One step is what runs on the main thread without a break; what a
handler reads of the system is chosen as one of `Views`. minieap is `proc`: none, up, or online.

Simplifications: the credentials are in the keychain (else a prompt for them runs a nested event
loop, in which everything else may happen, see section 3); alerts do not block; blocks of the
main queue may run in any order, which is more than can happen; only a logout
that goes through is modelled; a script that the two minute deadline cuts off half way is not. Start and Stop can be
chosen at any time: the menu enables its items itself, whatever `updateStatus` sets (`buildMenu` leaves
`autoenablesItems` on).
Properties about the wishes of the user hold as long as the user does not wish otherwise.

## 3. Runs

Passing:

| run | shows | states |
|---|---|---|
| `sched` | up to four alarms, from the main thread and from callbacks: `NeverEarly`, `Armed`, `ListStableInRing`, `EveryAlarmEnds`, and `AlarmService` implemented | 619,000 |
| `eap_app` | with the app's options (Logoff first, `--max-retries 0`, a limit on failures): `NeverStuck`, `StopLogsOff`, `GivesUp` | 187,000 |
| `rjv3` | with the plugins and limits on retries and failures: `KeepAliveGoesOn`, `SecondAuthSettles`, `FailureLeadsOn`, `NoStageForEver`, `StopEnds` | 302,000 |
| `pid_lock` | three instances, SIGKILL at any point: `OneInstance`, `PidFileNamesNoOther`, `MarkerHasOwner`, `TermEnds` | 390,000 |
| `process` | one process, each driver, with the lock, without or as a replacement, signals and alarms anywhere: `LoggedOffBeforeClosed`, `OnlyOwnerSends`, `LogLinesSeen`, `StopEnds` | 45,000 |
| `packets` | the builder under interruption, and every piece of data: `UndisturbedAsAsked`, `TrailerHoldsProps`, `MessageUnderstood`, `EchoCarriesKey`, `LeaseOfInterface`, `DigestOfMessage` | 151,000 |
| `config` | three runs, twenty command lines, three files: `TypeOK`, `CmdlineWins`, `RepeatablesAsAsked`, `ReloadsAsSaved`, `RefusedKeepsFiles` | 65,000 |
| `app` | clicks, probes, sleep, scripts and an ending minieap in any order: `RepairedOnce`, `VerifiedThisSession`, `AlarmIsTrue`, `QuitEnds`, `ReconnectsAfterWake` | 792,000 |

### Bounds

* `sched`: `MaxId` alarms per behaviour; delays of 1, 2 and 5 seconds (short, middle,
  long, the last no multiple of the middle one), which is enough for a timer that is
  restarted half way by a shorter and by a longer delay. `IntMax` stands for `INT_MAX`; it
  only has to exceed every delay.
* `eap_app`: the app has 5 s for a stage, 25 s for a retry, 10 failures. The run
  shrinks them (3 and 4 seconds, 3 failures) and keeps what matters: the retry is longer than
  the watchdog and no multiple of it.
* `rjv3`: the smallest timeouts that differ, for the liveness checks: 1 s for a stage and between two
  looks for a lease, 2 s for a retry and between two heartbeats; one look for the lease after the first.
  A challenge is answered like an identity request, so the server sends only the latter. Two values of
  `--dhcp-type`, as the others differ only in the content of a frame.
* `pid_lock`: an old instance, its replacement and one that comes in between the two.
* `process`: the drivers of each build; any number of signals and alarms.
* `packets`: two servers, ids and seeds tell an old value from a new one. Contents of up to three bytes,
  among them the start of another property, and of 248, 253 and 254 bytes, around the most that a length byte counts
  with its header; messages of two properties; messages of a digest up to two
  blocks and a byte, blocks being 8 bytes; routes and addresses of two interfaces, two of each, in tables
  that fit the buffer, fill it and outgrow it; name servers of both families; notices of
  two characters and a half, with second bytes on both sides of 128; seeds of each type with 0 to 16 negative bytes.
* `config`: a save, a run with what was saved, and one more. The command lines hold each form of option
  (long, short, glued, glued where there is none to take, missing argument, unknown, repeated) and each value that a file cannot hold.
* `app`: two failed probes for a verdict in place of three; one of each block in the queue.

### Runs expected to fail

Each quotes a document or a comment of the repository ("findings" in `PROJECT.json`).

| run | the code |
|---|---|
| `pid_marker` | a client that is online, is asked to authenticate again and is then refused keeps its marker: the failure finds another state than SUCCESS |
| `packets_race` | a heartbeat or a retransmission between two field calls of the receive handler leaves its fields in the builder: the packet sent is not the one asked for |
| `config_save` | `--save` writes `no-auto-reauth=0` and the parser takes any value for yes: the next run does not restart |
| `app_quit` | a quit during a stop is forgotten |

### More that TLC refutes

The first seven have a configuration file (`tlc -config X.cfg MCModule`), the others are
definitions of a module: add them as an invariant to its configuration.

| property | what the code does |
|---|---|
| `OnTime` (`SchedAlarm_late`) | a later `schedule_alarm` restarts the timer and makes a waiting alarm late |
| `FailuresAreFailures` (`Eap_failures`) | a ring with both retry and watchdog (the app's 25 s and 5 s do coincide) leaves two watchdogs; the one that survives counts a failure the server did not send |
| `MarkerEarned` (`Eap_earned`) | with two rounds, a timeout after the first Success marks the process online |
| `RetransmitHasFrame` (`Eap_no_frame`) | a restart inside the receive handler leaves nothing to retransmit |
| `NoLogoffInsideCapture` (`Eap_logoff`) | the last timeout sends the Logoff from inside `pcap_loop` |
| `OneInstanceLeft` (`PidLock_replace`) | two `-k 1` instances both run |
| `MarkerWhileOnline` (`PidLock_refused`) | an instance that ends removes the other's marker |
| `Rjv3!NoStaleFrame` | `last_recv_packet` points to a copy the state machine frees, against the comment of `if_impl.h` |
| `Rjv3!OneChain` | each Success starts a heartbeat chain; only the one whose id was stored can be cancelled |
| `Rjv3!SecondAuthHasLease`, `Rjv3!FrameKept` | a failure or a restart between the two authentications resets the counts: a frame goes without the lease, a look for the lease has lost its frame |
| `Packets!TrailerAsAsked` | a property replaced by one of another size counts the difference twice in the length of the trailer (`packet_plugin_rjv3_priv.c` 397-403) |
| `Packets!NoticesWhole` | a notice longer than 253 bytes is put together although its length byte is not trusted, and its length is stored in a byte again, which wraps |
| `Packets!CharactersAsSent` | `gbk_to_index` compares two bits with 0x10 where 0x40 is meant (`gbconv.c` 3084): a character whose second byte is below 128 is shown as another one (only a build with `ENABLE_GBCONV` has it) |
| `Config!NumbersAsDocumented` | of a negative argument `%` leaves a negative number, which is none of the ways to run in the background, none of the uses of DHCP and none of the addresses |
| `Config!EnvironmentWins` | a file with `password-env` and a password uses the variable up (`config.c` 144); the same option on the command line then finds nothing, and the password of the file stays |
| `Process!AlwaysLoggedOff` | an alarm that calls `exit` just when `exit_handler` has begun ends the process without a Logoff |
| `Process!FallsBackToConsole` | when the log file does not open, output goes to a stdout that is closed (`logging.c` 129) |
| `Process!NothingFreedIsUsed` | an alarm or a second stop during `exit_handler` uses the driver it freed |

Without a definition of their own:

* A delay of 0, which `--heartbeat 0` or `--wait-after-fail 0` asks for, is `alarm(0)`: the timer of every
  alarm stops (`sched_alarm.c` 181). The runs have none and `NoAlarmForgotten` assumes so.
* A callback that cancels an alarm due in the same ring only marks it, and
  `fire_single` runs it all the same (`sched_alarm.c` 70). One that cancels an alarm scheduled in the same ring is not heard
  (140). `AlarmService` states both.
* The restart one second after a forced offline keeps no id, so a Success that comes
  first does not cancel it (`eap_state_machine.c` 267, against the comment at 225).
* A stage timeout of one or two seconds with `--logoff-first` crashes: the watchdog calls the
  missing transition of `EAP_STATE_UNKNOWN`.
* `state_last_count`, "Number of timeouts occured in this state", also counts requests the server
  repeats (`eap_state_machine.c` 420).
* An instance that fails between `pid_lock_init` and `pid_lock_lock` empties the PID file of the
  one that runs (`pid_lock.c` 163). The marker a killed instance leaves counts for the next one as soon as
  that has written its pid, and until then `-k` signals the pid the killed one left (`pid_lock.c` 181, 87).
* The text of type 0 that `computeV4` builds outgrows its 160 bytes when eleven or more of the sixteen bytes
  of the seed are above 127: as negative chars they are written with eight digits (`checkV4.c` 1034).
  `DigestOfMessage` excepts these seeds.
* `--kill 1` with a space is `KILL_ONLY` (an optional argument must be glued), the short `-x` takes an
  argument where the long form takes none,
  and rjv3 selected twice has every property twice. `save_config_file` runs before `pid_lock_init`, so a
  second instance that is refused has already saved.
* A property of a server message that claims a length of 0 or 1 has a content of -2 or -1 bytes, which
  becomes a large `size_t` (`packet_plugin_rjv3_prop.c` 126). `MessageUnderstood` has such lengths only where the
  code does not trust them.
* The failure paths of `send_echo_frame` free an uninitialized pointer; a system without a name server
  or without an address entry is read through NULL.
* A routing table that fills the buffer of `NL_BUFSIZE` is cut, and what ends the reading is then read behind the buffer
  (`net_util.c` 145): the gateway may be missed, or `recv` waits for a datagram that never comes. `LeaseOfInterface`
  says what the lease holds then, but not when it is missing.
* App: a block of the automatic repair that is already queued undoes a Stop that comes before it
  (`main.m` 738); Repair during a stop runs both jobs at once (889), which is why `AlarmIsTrue`
  excepts a repair that was begun during a stop; the prompt for credentials lets a second start in.

Deadlock is checked in the runs of `SchedAlarm`, `PidLock` and `Packets`. In the others the process, the app or
the sequence of runs ends.

### Fairness

* `SchedAlarm`: the clock (`Tick`), a ring and the second half of `schedule_alarm`.
  Nothing makes a caller schedule, nor bounds how often it does, except `MaxId`.
* `EapStateMachine`, `Rjv3`: the thread, and the clock as long as the thread gets to wait: the clock
  owes a tick only if time and again the thread has nothing to run. The network owes nothing:
  no frame need ever come, and the lease neither.
* `PidLock`: an instance that was told to end gets out of `start_capture`, and finishes
  what it started. An authentication owes nothing.
* `Process`: the main thread runs. bpf and sockraw look at their stop flag after a frame only, so with them
  `StopEnds` also assumes that frames go on coming; with libpcap nothing is assumed.
* `AppDelegate`: a prompt is answered or taken down after two minutes, a script ends, and the main queue is
  worked off. The user, the system and minieap owe nothing.

In `pid_lock` a SIGTERM is sent to the pid the PID file names. An instance wrote that in `pid_lock_save_pid`, with its
handler installed and its device open; a signal before that is in `Process`.

## 4. Proofs

Checked by `tlapm`, for every value of the constants that meets the assumptions:

* `SchedAlarmProofs!TypeCorrect`, and `NoCallbackEarly` (`NeverEarly`), which is
  not inductive. It follows from `TimeInv`: for every waiting event,
  `togo <= remaining - Undiscounted`, where `Undiscounted` is what the next ring will
  subtract for time that has passed already: all of `g_last_set_time` once the signal is raised,
  `g_last_set_time - timer` while the timer runs, nothing once `alarm(0)` stopped it. A restarted
  timer makes `Undiscounted` smaller, so alarms run later, never earlier. `IdsDistinct`
  identifies the event under the cursor, and `RingState` says that it was due.
* `NoAlarmForgotten` (`Armed`) from `ArmedInv`, assuming `0 \notin Secs`. The assumption is needed:
  see the delay of 0 in section 3.
* `TraversalSafe` (`ListStableInRing`), by cases on the actions.
* `Implements` (`ServiceSpec`): every step of the scheduler is a step of
  `AlarmService` or a stutter. It needs `TimeInv`, for the guard of `Fire`, and `RingInv`: between
  rings nothing is marked, expired or waiting to be added, so that leaving a ring changes no
  live alarm. The first call of `unschedule_alarm` for an alarm changes `cancelled`, so it can only be the abstract
  `Cancel`, never a stutter that leaves the alarm alive.
* `PidLockProofs!TypeCorrect`; `MutualExclusion` and `PidFileSafe` from `LockInv` (whoever is past
  `pid_lock_lock` holds the lock), assuming no `KILL_AND_START`; `NoStrayMarker`
  (`MarkerHasOwner`) from `MarkerInv`, for any `-k` and any instance that is killed. `PidLock_replace.cfg`
  shows why the assumption is needed.
* `ProcessProofs`, for any list of drivers: `TypeCorrect`, `LogoffComesFirst` (`LoggedOffBeforeClosed`)
  and `SendersOwnTheLock` (`OnlyOwnerSends`) from `ProcessInv`. None of them is inductive, since
  an `exit` may begin at any step of `main`: `ProcessInv` says what each step has set up
  (`HasDriver`, `Prepared`, `MachineUp`, `LockHeld`), that the stages of `main` and of `exit_handler` come in
  order (`StagesInOrder`), and what a Logoff still needs when `exit_handler` gets to it
  (`LogoffPossible`, `LoggedOff`). The two properties name what they except, an exit from inside the frame handler or again
  inside `exit_handler`, and `KILL_AND_START` or no PID file. `NoLineLost` (`LogLinesSeen`) needs `LogInv` besides: which file `fp` is at each stage.
* `AppDelegateProofs`, for any number of failed probes that make a verdict: `OneRepair` (`RepairedOnce`),
  `VerifiedByOwnProbe` (`VerifiedThisSession`) and `AlarmsAreTrue` (`AlarmIsTrue`) from `AppInv`: a job runs only
  under its flag, a probe that still counts belongs to the session that is tracked, a second repair is not
  in the queue, and every exit the app has not noticed yet is a stop it has asked for, a repair, or minieap's own.
* `EapProofs`, for every configuration, any number of alarms and any plugins that keep to `PluginsKeep`:
  `MachineTypes` (`TypeOK`), `ProcessWakes` (`NeverStuck`), `FailuresEnd` (`GivesUp`) and `StopsLogOff`
  (`StopLogsOff`) from `MachineInv`, which the runs of the module could check as it stands
  (`EapStateMachine`, last section) and which says of a process that goes on: the alarm lists are in order
  (`ListsInOrder`); where the state waits for the server an alarm with the watchdog's id is pending, and after a
  failure one that restarts (`Armed`); every failure of the server but one is counted, and the count is below the
  limit (`Counted`); the thread is where its flags say (`ThreadInPlace`).

  A ring runs several callbacks, each of which may cancel and arm alarms of the others, so
  between two of them `NeverStuck` is not true: an alarm that is due may be the one that keeps the process going.
  Inside a ring the invariant is `Sound(x, i)`, where `i` is the last event that was dealt with and
  `Held(x, i, ...)` counts an event that is due only if its turn is still to come. One lemma per C function
  says that it keeps `Sound(x, i)` for every `i` at once, and an induction over the events takes `Sound(x, 0)` to the end
  of the ring. (Induction over an interval, and the filter that removes nodes, are proved from the
  well-foundedness of the naturals, with a set in place of a predicate.)

  `PluginsKeep` is what the state machine relies on, and is a hypothesis of these theorems: `prepare_frame` changes nothing
  but the plugin's memory (`PacketsKeep`), the other hooks keep `Sound(x, i)` and the alarms the plugin itself counts on
  (`HooksKeep`). The constant `PluginNeeds` names these alarms. `NoPlugins` shows that minieap without plugins satisfies it.
* `Rjv3Proofs`, for every list of plugins, heartbeat, wait for DHCP and limit on looks: `RjKeepsContract`, that rjv3
  and the printer keep to `PluginsKeep`, so that the four theorems above hold with them;
  `RjInvariant`, that `MachineInv` and the plugin's needs stay true also while the lease comes and goes; and
  `HeartbeatsGoOn` (`KeepAliveGoesOn`). The hypothesis `RjPlugins` says only that the constants of
  `EapStateMachine` are `Rjv3`'s operators, as in `MCRjv3` and `Rjv3.cfg`. The assumption that the heartbeat and the
  wait are at least 1 excludes the delay of 0 of section 3; they are below `IntMax`.
* `PacketsProofs`: `PacketsAsAsked` (`UndisturbedAsAsked`) from `BuilderInv`, for any server, identifier, seed and length of
  the user's name: as long as no alarm has used the builder since the request, it holds what the thread's calls so far have asked
  for. `HeartbeatCarriesKey` (`EchoCarriesKey`) for all 2^64 pairs of a key and a number, where the run has
  3^8: the bits of a byte come back from `rj_encode` and `bit_reverse`, and `Plus` is addition modulo 2^32
  (lemma `PlusAdds`). Its hypothesis is that `Data` has words of four bytes for both.
  `LeaseBelongs` (`LeaseOfInterface`) for any number of addresses, routes, datagrams of the routing table and lines of
  `resolv.conf`, on Linux and on macOS: what a lease holds, and that it is missing exactly when the address, the route or a
  name server that `inet_pton` takes is. Its hypothesis `LeaseData` says what a system may look like: the datagrams hold the
  routes and nothing else and fit the buffer, and `resolv.conf`, when it opens, has a name server unless the user gave one
  (without one the code reads through NULL, section 3).
  `DigestsWhole` (`DigestOfMessage`) for any message, any place to cut it in two, and any sizes of block, length field and word
  that `DigestAssumption` allows, where the run has blocks of a few bytes. The invariant is `Took(c, W, m, q)`: the `q` blocks the context `c`
  compressed are the first `q` of the message `m` it was given, and its buffer starts with the rest. Every update keeps
  it, those that read blocks in place and those that copy them (`MD5Takes`, `RhashTakes`), and each of the four ways to pad
  turns it into the blocks of the reference (`Finals`); the word that `rhash_md5_final` fills first needs that words divide
  the block and the place of the length (`WordFill`). For the challenges there is no bound either: all 2^128 seeds, with the exceptions of
  section 3 as they stand in `V4Holds`. The hypothesis `DigestData` says that messages are lists and that in `computePwd` the
  user's name with 16 bytes, and the password with its NUL, fit the 40 bytes of `tmp`: the code does not check that,
  and a name may have 64.
* `ConfigProofs`, for any files, command lines, list of plugins and number of runs, from `PathAssumption` and
  `ConfigAssumption`, which say only that the constants are of their kind:
  `ConfigTypeCorrect` (`TypeOK`), `CommandLineWins` (`CmdlineWins`), `RepeatablesKept` (`RepeatablesAsAsked`) and
  `RefusalKeepsFiles` (`RefusedKeepsFiles`). The last one follows from `FilesInv`. The others need two
  kinds of facts. What a run has read by each of its steps is `Course`, the inductive invariant: the defaults, then the file over them,
  then the command line over both, for the program and for each plugin that was selected, so that rjv3 selected
  twice has read its options twice. What one such reading does to the options is an induction along the list of words or lines, one
  lemma per parser: it keeps the types, it leaves an option alone that is not among the words, it
  adds the repeatable ones in their order, and the last word on an option is the one that counts (`AfterFlags` for the options
  whose value may be missing). The password is followed only past options other than `password-env`. The documented values
  of the numbers in `TypeOK` follow from this: the remainder of the last argument that counts.

Only model-checked: liveness (`EveryAlarmEnds`, `FailureLeadsOn`, `NoStageForEver`, `SecondAuthSettles`,
`StopEnds`, `TermEnds`, `QuitEnds`, `ReconnectsAfterWake`), which is out of the prover's reach; and three
properties of what a function over data computes: `ReloadsAsSaved`, which needs that reading undoes writing, character by
character, for every option; and `TrailerHoldsProps` and `MessageUnderstood`, which need the same for a list
of properties. The library's induction principles take an operator and cannot be cited, so each induction
is done by hand, from the well-foundedness of the naturals with a set in place of a predicate (`Induct` in
`PacketsProofs`, the same in `EapProofs` and `ConfigProofs`), and every fold and recursive function needs one of its own.

## 5. Not modelled

* The compression functions and the tables of the digests (`*_sbox.c`, the tables of `checkV4.c`, `rjcrc16.c`), the
  content of the character table, iconv.
* The pointers of a linked list: a SIGALRM inside `insert_data` or `remove_data`.
* System calls of `net_util.c` that fail; headers and filters of the drivers; ioctls.
* Format and wording of the log, of the help and of the menus; the keychain; the list of interfaces; the app's
  check of its paths and the rotation of its log; the sockets of a probe, of which only the answer counts.
* The relay procedure the header describes and the code does not have.
* Memory allocation that fails.
* Build and packaging scripts.

## 6. What is left

1. `ReloadsAsSaved`, `TrailerHoldsProps` and `MessageUnderstood` as theorems: one induction for the writer and one for
   the parser, and that they meet.
2. `LinkedList` at the level of its pointers, with a SIGALRM between any two writes.
3. The abstract minieap of `AppDelegate` as a refinement of `PidLock` and `EapStateMachine`.
