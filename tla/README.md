# TLA+ models of mltk

mltk builds the Linux images that bwLehrpool clients boot, and brings the
programs that run on them. Most of the repository is build recipes and
configuration; the parts with logic of their own are small programs. This
project models the ones that matter most to a user's session: the path of the
user's password from login to the Windows guest, the agent that works in that
guest, and the programs that run beside the session, the task bar, the
brightness keys, the firewall reloader and the kernel log watcher. It checks
them with TLC and proves the central invariants with TLAPS.

Paths below are relative to `src/`; `run-virt/` stands for
`core/modules/run-virt/`.

## 1. Inventory

| component | state | operations | hard behaviour |
|---|---|---|---|
| password daemon, `run-virt/pw_daemon.c` | socket file, listening socket and its queue, `udpPort`, `udpPid`, a forked UDP listener, forked handlers, keys | start (probe, remove, bind, listen), accept, `init_udp`, answer GET and PW, `sig_handler`, query | several processes, start-up race, SIGCHLD anywhere, inherited descriptors, fork and port failures, client timeouts |
| wire format, `xorString` / `udpReceived` | none | encode, accept | 8 bit casts, 200 byte buffer |
| guest agent, `run-virt/winres/src/winres.c` | `spass`, socket, attempt counters, `drives[]`, cached credentials, folder status, timers, done flags | timer and socket handlers, mount, remap, run scripts, erase `spass` | handlers in any order, nested message loop, retries with shared counters, late replies |
| exchange: daemon, `setup_virtual_floppy.inc`, `shares.dat`, UDP, guest | all of the above, datagrams | query, boot, ask, answer, deliver | loss, duplication, delay, death of daemons, reuse of ports |
| screen resolution, `winres.c` `setResolution` | `callCount`, `nres`, `tmrRes`, running timers, layout | timer tick, hotplug, five ways to change the layout | leaked timers, re-entrance, call limit, fall-throughs |
| task bar, `core/modules/fspanel` | `task_list`, `num_tasks`, `my_desktop`, marks, icons, what is drawn | X events: root and window properties, DestroyNotify, Expose, FocusIn, ButtonPress | windows that change between two reads of a refresh, late events, marks set ahead of the window manager, ownership of pixmaps |
| kernel log watcher, `core/modules/kmsgwatch` | ring of 100 messages | `allow` | off-by-one at the ring's edge |
| firewall reloader, `core/modules/iptables-helper` | LOCK and WAIT directories, cached rules, chains | service start, inotify event, reload | reloads that outlast the wait of the next, names expanded once per loop, stale cache, events a reload raises itself, crash and restart |
| CoW pool growing, `core/modules/ntfsfree` | lock directory, device tables | grow, wait | breaking stale locks, partial failure |
| brightness keys, `core/modules/slx-brightness` | partly read event, blocking mode of descriptors, brightness | scan for devices, read, step | partial reads, EINTR, starvation of devices, other writers |
| idle detection, `core/modules/idleaction` | none | print | none |
| build, `core/bin/setup_target`, `core/includes` | build directories, processed modules, mounts | init, build, copy, post-process | order of hooks, clean-up |
| QEMU plugin, set-firewall.py, hardware-stats, parse-edid, ... | files | translate | sequential, third-party or formatting |

How the first five interact: PAM starts `pwdaemon --daemon` at login with the
password in its environment. When a virtual machine is started,
`setup_virtual_floppy.inc` runs `pwdaemon --query`, which connects to the unix
socket and gets port, `key1`, `key2` and user name; they become the first line of
`shares.dat` on a floppy image. In the guest `openslx.exe` reads that line, sends
`key1` to the port over UDP and gets the password encrypted with `key2`; with it
the agent mounts shares and printers, remaps the user's folders, starts the run
scripts and finally erases `spass`. Independently, a timer sets the screen
resolution until it is right.

What makes them correct: a query gets an answer, and one that is true of a
listener; the guest gets the password of its user or none, at most once, and
hands it to no mount or script after `spass` was erased (the copy in wide
characters that `mount` keeps in a static variable is never erased); all retries
end, but not before what they are for had its chance.

The other four stand alone; each keeps a copy of something others change, and is
correct when the copy catches up. The task bar copies the window manager's list
and the windows' properties, the reloader the files of `rules.d` (into the chains
and into a cache of what is in the chains), the brightness daemon puts together
records that arrive in parts, the log watcher remembers what it has sent.
`PROJECT.json` lists the hazards at their
lines.

## 2. Modules

| module | models |
|---|---|
| `PwDaemon` | `pw_daemon.c`: daemons, handlers, listeners, clients |
| `PwWire` | the datagram with the password |
| `GuestAgent` | `winres.c`: credentials, mounts, folders, scripts |
| `Delivery` | abstract specification of the exchange |
| `PwExchange` | composition of `PwDaemon` and `GuestAgent` over a network |
| `Resolution` | `winres.c`: screen resolution |
| `FsPanel` | `fspanel.c`: task list and event handlers of the task bar |
| `Reloader` | `iptables-reloader`, `iptables-reloader-worker` |
| `Brightness` | `slx-brightness/src/main.c` |
| `RateLimiter` | `kmsgwatch.go`: `allow` |
| `MC*` | instances for TLC |
| `*Proofs` | theorems |

### PwDaemon

A daemon's parent process has a program counter `pc` (start-up, then the accept
loop); each system call that another process can observe is an action of its own:
the probe, `remove`, `bind`, `listen`, `accept`, the fork of the listener, the
assignment of its pid, the fork of a handler. `StartFails`, `InitUdpFails`,
`DispatchFails`, `Dies` are the error paths. `SigHandler` may interrupt the loop
anywhere. `Listening` says why a dead parent's socket may still accept
connections: `listenFd` is inherited by listener and handlers, which do not close
it. `HandlerRuns` works with the copies of `udpPort` and keys taken at the fork.
Clients are the query (`GET`) and the `PW` request, which the handler serves
although `main` no longer offers `--pw`. The
keys a daemon generates are identified with the daemon.

### GuestAgent

The agent has one thread. An action is the handling of one message (timer or
socket) to its end, followed by the check at the bottom of the message pump
(`Pump`), which erases `spass`. Only `MessageBoxA` runs a message loop inside
a handler; `box` is TRUE meanwhile, messages are handled, the check is not
reached. Operators such as `MountNetworkShares` map a mount state to the set of
its possible results, since every Win32 call may fail. `HomesMounted` goes
through the home shares one by one as the code does, and `patches` counts the runs
of `patchUserPaths`, each of which kills explorer. `spass` is abstracted to
what the code distinguishes (null, empty) and what the properties do (received
with the right keys, with other keys, wiped). `mnt.cache` is `mount`'s static
`npass`: it stays when `spass` is wiped.

### PwExchange and Delivery

`PwExchange` takes the steps of both components from `INSTANCE`s. Requests and
replies are sets that only grow, and delivery takes nothing away: a datagram can
be delivered never, once, repeatedly, in any order. `ini` is chosen in the initial
state, as in `GuestAgent`, and `Boot` waits for the query whose answer agrees with
it, so that the guest always runs with the file that was really written.
`Delivery` knows a set of released passwords, the daemon the guest was
introduced to, and what the guest holds. The refinement mapping computes these
from `ini`, `spass` and `released`, a history variable of the listeners.

### Resolution

`world` fixes which Windows interfaces exist and work. `SetResolution` is the
function of that name, as a set of results; `Tick` is `tmrResolution`; `Hotplug`
the WM_DEVICECHANGE branch, whose `KillTimer` names the wrong window and so kills
nothing; `TickInterrupted` a hotplug event inside `execute`, which dispatches sent
messages while `VMwareResolutionSet.exe` runs.

### FsPanel

One action per event handler. A refresh (`taskbar_read_clientlist`) is cut into
`ReadDesktop` (desktop and focus), `ReadList` (the client list, deletions),
`LookAt` (the properties of one new window) and `SelectInput` (its events are
asked for); windows, window manager and user act between any two of these steps.
Within `LookAt` they do not: `add_task` reads desktop, hints, name, state and icon
of one window as one step, and a window that dies in the middle of it, so that
`scale_icon` gets no pixmap, is left out. X server and window manager are external:
their actions change properties and queue the events a panel that selected them
would get. The window manager does what `handle_press` asks it (`WmHandle`), in
order, sooner or later, and what was asked outlives it; one that refused to iconify
would leave the mark that `handle_press` sets at once wrong for good, so
`MarksFollowWindows` is about managers that do not. Of the windows only the panel's own
is hidden from the bar (WIN_HINTS_SKIP_TASKBAR; lines 297-312 read it for each window,
and a window that sets it later is not noticed either). A handler is one step:
inside `handle_press` the screen shows two tasks pressed in for a moment. A press on
one of the grills moves the bar and changes nothing that is modelled. A task records what was last
drawn of it (`drawn`), so that a handler that changes a task without drawing it
is seen; `pixmaps` counts what the panel holds in the server. What is left of a
list is given by the indices that stay (`Only`), and what its tasks hold by counting
indices (`Held`). Three history
variables name the ways in which the list may stay behind for good, each a
consequence of the code: `moved` (changes of a window's desktop are not
handled), `missed` (a change between `add_task`'s reads and its `XSelectInput`),
`skipped` (the new desktop was stored, then there was no client list).

### Reloader

The service, the worker that `inotifyd` runs for each event, and the background
function `reload_rules`, file by file: `Collect` (used before and after),
`NoChange` or `Flush`, `Sed` and `Run`, `Rebuild`, `Publish`. The shell expands
`rules.d/*` once at the beginning of each loop (`Glob`): `todo` holds the names a
loop has still to go through, whatever appears or goes meanwhile. `Sed` patches a
file in place, `Run` executes what is there by then; both move a file away that is
not executable or fails, and each change raises an event. Patching is not
idempotent: sed adds another -w each time. `TakeWait` and `GiveUpWaiting` are the
two ways out of the loop for WAIT; after five attempts a reload goes on whatever the
other does, so that two may work on the chains and on `.cache.new` at once
(`overrun`). `Crash` kills the service with its processes at any point, chains, cache, LOCK and WAIT
stay; `Start` removes what the start script removes. `Shipped` is what `rules.d` may
hold at boot.

Three history variables name what goes wrong. `unread`: `rules.d` changed since a
reload last gave up LOCK. `overrun`: a reload has given up waiting for one at work.
`lapse`: since the last flush with no other reload at work, a file changed when it was
already run, or the names without it already expanded, and was not yet cached (`late`);
a reload began while another was at work (`overlap`); or no file was left for the cache
and the old one stayed (`emptied`).

### Brightness

A device is a stream of bytes tagged with their record and position. `Read(n)`
is one `read` of `handle_fd` that yields n bytes, `ReadInterrupted` the EINTR
branch with its `done += -1`, `ReadAgain` and `ReadGone` the ways out.
`handle_message` is two steps, `GetLevel` and `PutLevel`, because others write the
brightness file as well. `open_events` computes which devices are listened to; that
the ioctl for the name or `epoll_ctl` fails for an open device is left out.

### RateLimiter

One call of `allow` is one step (`DropLimited`, `DropDuplicate`, `Accept`); `Tick`
lets any time pass. `sent` is a history variable with every accepted message,
about which the promises of the comment are stated. The second promise is stated
twice, as the comment has it (`AtMostTwoOfTheLast`) and as the code keeps it
(`AtMostTwoInTheWindow`).

## 3. Runs

| run | instance | shows |
|---|---|---|
| `pwdaemon` | 2 daemons, a client with the daemon's uid and a foreign one, one port, queue of 2 | types; replies name the port of the right listener; no shared ports; queries are answered; a daemon follows its listener |
| `pwdaemon_start` (violation) | the same | two daemons running, one unreachable |
| `guest` | a home share and a printer, seven settings, replies right, too long or with other keys, limits 10, 15 and 4 of the code | credentials are used rightly and `spass` is wiped, explorer is killed rarely, retries get their chance and end |
| `exchange` | 2 daemons, one port, two queries, a guest that asks twice | no foreign password, requests go where a listener was, refinement of `Delivery` |
| `resolution` | all worlds, 3 timers, 2 hotplug events, limit 10 of the code | timers live and end, a working way is found |
| `resolution_hotplug` (violation) | the same | a physical screen that is never used |
| `fspanel` | 2 windows, 2 desktops, 2 titles, a bar wide enough for both, 4 acts of windows and user | at most one task is marked; in rest the list is that of the windows on the desktop, marks and screen are true; pixmaps are owned; a press hits one task |
| `ratelimiter` | ring of 6, check of 5, 3 messages, 8 accepted, window of 2 ticks, clock to 6 | the limit of the rate; two of five within the window; nothing is refused without need |
| `ratelimiter_dup` (violation) | the same | a message sent three times in a row |
| `brightness` | device numbers 0 to 3 in any combination, one that cannot be opened, a gap of 2 ends the scan, records of 3 bytes, 2 records, 2 faults, more steps than values | records are put together, no descriptor is left blocking, every record is read, a key moves the value, the scan bridges gaps |
| `reloader` | 2 files, one of which fails at boot, 2 events, three acts: edits, crashes and overruns (which count two), contents that sed turns into each other or that fail | reloads exclude each other until one overruns; every change is read; none is lost but in the three ways of `lapse`; the chains come to hold the files |
| `reloader_edit` (violation) | the same with one act | a file that is cached and never applied |

Bounds. One UDP port makes the collisions of 20000 random ports certain, both
the failure of all bind attempts and the reuse by a later daemon. Two daemons are what
the start-up race and the reuse need. The queue of `listen(…, 10)` is two in `pwdaemon`
and one in `exchange`, so that it can be full. `ScriptTries` is 3 instead of 12 in `guest` and the tries are two in
`exchange`: the counters only decide when the code gives up, and `guest` has the
other limits as they are. The guest of `exchange` has no shares; mounting does not
touch the exchange and is the subject of `guest`. Three timers allow a
leaked one beside the current one and a new one. `exchange` is symmetric in the
daemons, and its properties are all safety properties.

In `fspanel` an act is one change by a window, the window manager or the user;
rare ones (a title, an icon, an exposure, a press beside the tasks, the end of
the window manager) weigh two. Four acts are a change before, during and after a
refresh and one that races with its events; two windows are enough for a second
task to be marked, moved or hit in place of the first. The ring of six is longer
than the check of five, wraps within eight messages and meets expired entries.
Records of three bytes need up to three reads. In `reloader` LOCK admits one reload that has not begun, WAIT
one that works; after an overrun two work, and a third is only delayed until
one has ended. Three acts are an overrun with an edit or a crash at any point of either
reload, or three edits and crashes without one; they leave a half-filled chain, a stale
WAIT and a stale cache behind. sed's growing number of -w is told apart only by being odd
or even, so that a file differs from what was cached before one run of it; after two it is the
old one again, which the code's never is. The theorems about `Reloader` hold for every such function.

CHECK_DEADLOCK is off where the system may stop: all daemons have gone and all
clients are done; the virtual machine never boots; all resolution timers have
ended; windows, keys, edits or log lines no longer come.

Fairness. In `PwDaemon` the loop of a living parent, handlers and the delivery of a
pending SIGCHLD are weakly fair, as the kernel's scheduling is; clients, deaths
and failures are not. The weak fairness of `Dispatch` is met by a fork that fails as
well, since that disables it. In `GuestAgent` timers fire periodically until they are killed
and the pump keeps running (`Tick`, `Script`, `OtherMessage`: the resolution
timer, the shutdown-text timer and posted messages pass through it);
arrival of datagrams, the clock and the user closing the warning are not
assumed. In `Resolution` running timers fire. `PwExchange` states no fairness
and no liveness. In `Brightness` the program is weakly fair, and a device that has begun
a record sends the rest; without the latter the blocking read of `handle_fd` waits
for ever, as it would. In `Reloader` the worker runs for each event, systemd
starts the service (`Restart=on-failure`), and each reload goes on; edits,
crashes and overruns are bounded and owe nothing. `RulesApplied` excepts behaviours in
which two reloads are at work again and again: after one overrun each reload that ends
removes the WAIT directory of the other (line 123), the next meets the other at
work, and as each run of sed raises events there is always a next one. `FsPanel` and `RateLimiter` have safety
properties only: what the task bar shows is stated of the states in which
nothing is under way.

Each property of a passing run has a mutant (`PROJECT.json`), an operator next to
the one it replaces, marked "Plausible bug", with which TLC finds the property
violated.

## 4. What was found

* **Two password daemons** (`pwdaemon_start`). `mode_daemon` looks for a running
  daemon first and removes and binds the socket much later. Two that start
  together both go on; the first is never reached again and stays with the
  password in memory. A full queue of the running daemon has the same effect.
* **Hotplug of a physical screen** (`resolution_hotplug`). Once `setResolution`
  found no configured resolution, or was called more than ten times without a
  physical screen, it returns before it looks for physical screens, so a screen
  plugged in later is not switched to.
* **Rules that are never applied** (`reloader_edit`). The names of the files to run
  are expanded once, and the cache of the firewall reloader is built from names and
  files as they are after all were run. A file added after the first expansion, or
  changed after it was run, is recorded as applied, and the reload its event starts
  finds no change.
* The properties of `reloader` except two more ways to lose a change. When the last rule
  file is removed there is nothing to move over the cache, which then still describes the
  rules that were flushed: the same file put back is not applied (`emptied`). And a
  reload that needs longer than its successor waits shares chains, `.cache.new` and
  WAIT with it (`overlap`); since the one that ends first removes the WAIT of the other
  and every run of sed starts a further reload, they may keep overlapping. What a failing
  file did before it failed also stays until the next flush.
* **The same message again and again** (`ratelimiter_dup`). "At most 2 times among the
  last 5 sent messages" (`kmsgwatch.go:55`) has no limit of time, but entries older
  than 900 seconds are passed over (84): a message that comes every 451 seconds is
  sent every time. Within the window the promise is kept (`AtMostTwoInTheWindow`,
  proved): the check sees only the last four messages, and the new one is the fifth.
* The task bar does not follow a window to another desktop, misses a change of name
  or state between its reads and its `XSelectInput`, and keeps the tasks of the
  old desktop if the client list was missing when the desktop changed. The
  properties of `fspanel` except these, and hold otherwise as far as the model goes
  (section 2 says what it assumes of windows and window manager).
* An interrupted read in the brightness daemon counts as -1 bytes and shifts the
  records of that device; no signal handler is installed, so that it hardly
  happens. The step is the truncated quotient, so that the configured number of
  steps need not lead from one end to the other.
* The high byte of the length prefix is always 0 (a cast before a shift). It
  does no harm because the guest's buffer ends at 198 bytes (`AcceptedLengths`).
* If the shared folder is mapped before the password arrived, `mount` keeps an
  empty password for good; `CacheIsCurrent` shows that this is the only way. The
  copy is also for good when it is the right one: only `spass` is overwritten
  (`ErasedInTheEnd`), `mount`'s static `npass` is not.
* A listener that dies before its pid was stored, and one whose parent dies before
  `prctl`, go unnoticed; the models contain both.

## 5. Proofs

Every invariant and action property that a passing run checks is also proved, for
every value of the constants that satisfies the named assumptions
(`PwAssumption`, `GuestAssumption`, `ExchangeAssumption`, `ResAssumption`,
`RateLimiterAssumption`, `ReloaderAssumption`, `BrightnessAssumption`,
`FsPanelAssumption`): own clients are clients, daemons and clients differ, ports and
limits are natural numbers, `QueryTries` is not 0, printers and homes are shares,
the shares are finitely many, datagrams have byte prefixes, no timer is NoTimer, ring and window are not empty and the
duplicate check is not longer than the ring, sed neither mends nor breaks a
file, there is a largest device number, records have at least two bytes and the
brightness range is not empty, the panel is no client window, windows have a name and
desktop 0 exists. In particular `FsPanelAssumption` leaves the width of the bar
free, 0 included.

* `PwDaemonProofs`: `TypeCorrect`; `ReplyCorrect` and `PortsExclusive`. That a
  reply is right is not inductive: the port travels from the listener's socket to
  the parent's variable, from there to the handler's copy and into the reply. The
  invariant `PortInv` says for each link of this chain that the value is absent or
  agrees with the one it was copied from, and that `init_udp` runs only while
  `udpPort` is unset; so `udpPort` and `bound` are written once and copies cannot
  become stale.
* `GuestAgentProofs`: `TypeCorrect`; `NeverUsedAfterErase`, `CacheCorrect`,
  `ClosedCorrect` (of `ClosedMeansAnswered`, which no run checks) from one invariant,
  `SecretInv`: the password is wiped only when `deleted` is set, which needs both done
  flags; the socket is open only while no password is there, or was never opened; a
  cached empty password with a received one means that the shared folder was mapped
  first.
  `ExplorerSpared` (`ExplorerKilledRarely`) counts: `PatchesCounted` bounds the runs of
  `patchUserPaths` by the home shares that are settled, since each run settles one, and
  the one run for the shared folder; a share is settled once, whatever the order of ticks,
  replies and the fallback. `PrintersTried`
  assumes `MountTries - QueryTries >= PrinterDelay` (15 - 10 >= 4) and rests on
  `AttemptsInv`: each attempt beyond those spent on asking was a mount attempt.
* `ResolutionProofs`: `TypeCorrect`, `TimerCorrect`.
* `RateLimiterProofs`: `RingCorrect`, then `WindowCorrect`, `RefusalCorrect` and
  `DuplicatesCorrect` (`AtMostTwoInTheWindow`), i.e. all the run checks, for every length of ring, window and
  check. The promises are about all messages ever accepted and the code only has the
  ring; the invariant links them: message i of the last `Slots` is at index
  (i - 1) % `Slots`, unused slots have time 0, times do not decrease. It rests on two
  lemmas about the index: numbers less than a ring apart have different indices
  (`ModDistinct`), a ring further on the index is the same (`ModPeriod`).
* `PwExchangeProofs`: `AcceptedLengths` and `PrefixLimit` about the datagram;
  `OwnPassword`, `RequestsAddressed` and `Refinement` about the exchange. Their
  invariant is the `PortInv` of the daemons, used through an instance of
  `PwDaemonProofs` (network and guest do not disturb it), with three parts of its
  own: `shares.dat` repeats a reply and is not changed any more (`ToldInv`), requests,
  replies and waiting datagrams carry the key the guest was told, and there are replies
  only of the daemon that has it (`NetInv`), the guest asks only while it has no
  password (`GuestInv`). `Refinement` is the whole of `Spec => Delivery!Spec`; neither
  specification states fairness.
* `ReloaderProofs`: `TypeCorrect`; `ReloadsExclusive` from `WaitInv`: until a reload has
  given up waiting for one at work, one that works has WAIT and no other works. WAIT
  may also exist without a reload, after a crash, so that the invariant is an implication
  in one direction only. `ChangesRead` (`EveryChangeRead`) holds however reloads overlap:
  LOCK means that a reload is about to start that has read nothing yet (`LockInv`),
  so an event that meets LOCK may be dropped (`ReadInv`). `ChangesKept` (`NoChangeLost`)
  has no assumption about edits, times or contents; `lapse` says what it excepts. While `lapse`
  names nothing at most one reload works (`OverlapInv`), and `DataInv` says at each
  point of each loop what chains, collected rules and cache hold of the files passed so
  far, in particular that a cache describes the chains. A flush with no other
  reload at work establishes it anew.
* `BrightnessProofs`: `Types`, `KeyMoves`; `Records` and `Ready` from one invariant:
  what a device has sent and still owes consists of whole records but for the part in
  `buf`, and a descriptor is blocking exactly while there is such a part (`DevInv`,
  `BufInv`). `Scan`: the counter of the loop in `open_events` is the distance to the last
  device found.
* `FsPanelProofs`: all seven invariants of the task bar. `Types`, `OneFocused`,
  `NoPixmapLost`, `SideBySideTasks` and `ScreenShowsList` rest on `BaseInv` and `ViewInv`:
  the list has no window twice, `num_tasks` and `pixmaps` agree with it, `TodoInv` says
  where a refresh stands between two of its steps, only the window that had the focus
  when the refresh began may be marked in it, and layout and drawing are right
  whenever none is under way. That presses hit at most one task for every width needs
  that n tasks of the truncated width fit into the bar. `MarksRight` adds `MarksInv`: a
  name or mark is right, an event that will correct it is in the queue, or the
  window manager has still to do what the panel asked for, that being its last request about
  the window; and `SelInv`: a complete task's window is selected. `TasksRight` adds
  `FollowInv`: unless an event that starts a refresh is in the queue, desktop and list
  are the ones the panel has read, tasks are of listed windows of the desktop
  and every listed window has a task, is elsewhere or is still to be looked at.

Where a definition is a recursive function or chooses an ordering (`Joined`,
`open_events`, `Only`), its existence and its equations are proved by induction over the
natural numbers. The library's induction theorems take a predicate, which the provers
cannot instantiate; `WFMin` takes a set, so the induction is stated for the set of the numbers
that have the property (`SmallestNat`, `Induction`).

Only model-checked: the liveness properties (`QueryAnswered`,
`DaemonFollowsListener`, `Settles`, `ErasedInTheEnd`, `AllTimersStop`,
`WorkingWayFound`, `EveryRecordRead`, `RulesApplied`), which need fairness and
ENABLED, beyond the prover.

## 6. What is not modelled

Win32 and the kernel are external: their calls succeed or fail freely. Names,
paths, drive letters, registry keys and cryptographic strength are abstracted.
Privilege dropping appears only as a start-up that may fail. `getsockopt` with
SO_PEERCRED is taken never to fail. A WM_TIMER that is already queued when its
timer is killed is not modelled. `resetShutdown`, sound, power and remote tweaks of the guest
agent have no state that anything else reads. The task bar is modelled with a window
manager that speaks EWMH and with XPM icons; its clock and its drawing beyond what
is shown of a task are left out, as is the position and the hidden state of the bar, which its
grills change. Of the brightness daemon failures of ioctl and `epoll_ctl` are left out.
Of the log watcher the goroutines that post are left
out; each sends one request and shares nothing. Empty rule files, which the
worker passes over, are left out. `thinpool-grow` mostly moves state of the device
mapper, of which the script has no copy; its lock can be broken by two processes at
once (`PROJECT.json`), but what they would then do to each other depends on the kernel.
`xprintidle`, `xprintlocktime` and `parse-edid` ask once and print. The remaining components are listed
in `PROJECT.json` with the reason.

## 7. Plan

1. Proofs: with the safety properties of all modules proved, what is left is what bounds
   the liveness properties: a variant for each loop that must end (`Tick`, `Resolution`'s
   timers, the reload), as an action property.
2. `ThinGrow` (ntfsfree): the directory lock with stale breaking, against an abstract
   lock.
3. `BuildTarget` and `Chroot` (core/bin, core/includes): module order, hooks
   once per module, clean-up of mounts.
