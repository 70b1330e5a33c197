# webOS Companion: specification and proofs

A TLA+ model of the `webos_companion` service: a Python program that makes an LG webOS TV follow the
power state of a Linux desktop. Sources are cited as `file:line` under `src/webos_companion/`; a line of
the repository's own README is written `src/README.md:line`.

## 1. The system

One asyncio process (`_cmd_run`, `__main__.py:258`). Tasks switch only at an `await`, so an action of the
models is the code between two awaits.

| part | state | operations | talks to |
| --- | --- | --- | --- |
| Daemon (`daemon.py`) | `_state`, `_lock`, `_recovery` | `dispatch` of five events, the recovery task `_recover`, `aclose` | called by the triggers, calls the client |
| WebOsClient, connection (`webos.py:83-285`) | `_ws`, `_connected`, `_reader`, `_pending`, `_register_q`, `_lock` | `connect`, `request`, `close`, the reader task | web socket to the TV |
| WebOsClient, power-on (`webos.py:287-412`) | none of its own | `ensure_on`, `send_wol_burst`, `_try_reach`, `_unblank_resilient` | its own `request`, UDP |
| logind trigger (`triggers/logind.py`) | `_inhibitor_fd`, the bus | `run`, one task per signal | D-Bus; `dispatch` bounded by 3 s |
| DRM trigger (`triggers/drm.py`) | `_path`, the connector once found; `stable`, a local of `run` | `resolve`; a poll every `poll_interval`; `current` as `dpms_probe` | sysfs; awaits `dispatch` |
| ScreenSaver trigger (`triggers/screensaver.py`) | none | one task per signal | D-Bus; `dispatch` |
| supervisor (`__main__.py:328`) | its delay | restarts a trigger that raised | the triggers |
| configuration, key (`config.py`, `webos.py:243-250`) | `config.yaml`, the old `config.toml`, the client key | load, legacy migration, save | the file system, shared by the service and every command |
| commands (`__main__.py:46-256`) | what they loaded | `setup`, `pair`, `on`, `off`, `status`, `probe` | terminal, the files, the TV |
| discovery (`discover.py`, `net.py`) | none | one scan: SSDP, neighbours, ports, AirPlay | network |
| service installer (`service.py`) | the systemd unit | `install`, `remove` | systemctl, which starts, stops and restarts the service |
| probe (`probe.py`) | none | reports; one read-only call | everything above |

What is hard here, and what the properties are for:

* **Interleaving.** Blanks and unblanks (DRM poll, ScreenSaver) and suspends and resumes (logind) arrive
  from different tasks and queue on one FIFO lock, while a recovery task runs for up to five minutes beside
  them and takes that lock only for its last step.
* **Cancellation.** Every event may cancel the recovery, logind cancels its own dispatch after three
  seconds, and a cancel can hit any await of the connection code. Some cancels do not arrive.
* **Uncertainty.** A command that failed, timed out or was cancelled may have taken effect all the same.
  The next event is decided on what the daemon believes.
* **Two views of the desktop.** The poll compares samples; `_settle_awake` reads the node itself.
* **Two processes, one set of files.** The service and a command load, migrate, save and replace keys
  without a lock, every file is written in place, and either process may be killed between two steps.
* **Things that come and go.** Connectors, EDIDs and dpms nodes change under the trigger that has fixed its
  choice; it may start before there is anything to choose from.
* **Liveness.** Handlers hold the lock for many seconds, recoveries wait for it, handshakes wait for frames
  that only the reader task can deliver.

What makes each part correct: at most one recovery acts on the TV and never beside a handler; a power-down
stays down; the believed state is the real one as far as acknowledgements allow; every event and every
recovery ends (Daemon). A connection never leaks, never orphans a request, and never takes an old answer
for a new one (client). An inhibitor is owned, released and taken again (logind). The connector watched
is the TV's, and a change that lasts is told (DRM trigger). Settings survive kills, the paired key stays the
key on file, and the service comes back (files). The panel ends up as the desktop wants it, and the TV does
only what the last event asks (the whole).

## 2. Modules

| module | models | actions and the code |
| --- | --- | --- |
| `Daemon` | `daemon.py`, with the client seen through its outcomes and one TV | `Dispatch` queues; `OnBlank` ... `OnResume` are the handlers from the granted lock to their first await; `BlankReturns`, `EnsureReturns`, `SettleReturns`, `DownReturns` are what follows each await, acknowledged or failed; `Attempt`, `BurstSent`, `TornDown`, `ReachReturns`, `RecSettles`, `RecSettleReturns`, `GiveUp` are `_recover`; `Unwind` and `CancelLost` are the two fates of a `cancel()`; `CancelDispatch` is the time-out of logind and the end of a trigger; `Stop`, `Aclose` are the end of `_cmd_run`; `Boots` is the TV |
| `WebOsClient` | the connection half of `webos.py` | `Call`, `RequestNow`, `Connect`, `Close` enter; `DialOpens`, `DialFails`, `Registered`, `Prompted`, `HandshakeFails` are `_open` and `_handshake`; `SocketClosed`, `ReaderGathered` are the two awaits of `_teardown`; `RegisterFrame`, `Answer`, `ReaderEnds` are the reader task; `Cancel` hits any await |
| `Ensuring` | what one call of `ensure_on` may do to the TV and what its return means: the abstract specification between client and daemon | `Starts`, `Works`, `Ends` |
| `EnsureOn` | the power-on half of `webos.py`, implementing `Ensuring` | `WaitForNetwork`, `EnsureConnected`, `ConnectFails`, `PowerStateRead` are `ensure_on` and `_try_reach`; `TurnOnScreen`, `TurnOnScreenFails`, `Paused` are `_unblank_resilient`; `SendWolBurst`, `WolInterval` the Wake-on-LAN loop; `RequestBreaks` is an exception neither layer catches; `Cancel` the caller's time-out |
| `LogindWatcher` | `triggers/logind.py`, and the restarts of `_supervise` | `RunAcquires`, `RunFails`, `BusLost` are `run`; `SuspendHandled`, `ResumeHandled`, `ShutdownHandled`, `TaskAcquires`, `TaskFails` are the signal tasks; the other actions are logind and the machine |
| `DrmWatcher` | one turn of the loop of `triggers/drm.py` | `Poll`, `Reaction`, `DrmInit`; `DpmsChanges` is the desktop |
| `DrmTrigger` | the rest of `triggers/drm.py` under `_supervise`, extending the loop by the connector it looks at | `PnpId`, `Lgs`, `Attached`, `Named`, `Chosen` are the EDID check and `resolve`; `RunStarts`, `RunCrashes`, `Sample`, `Dispatched` are `run`; `Current` is `current` called by the daemon first; `Supervise` is the restart after the delay; `Changes` is the kernel, the cable and the desktop |
| `Companion` | `_cmd_run`: Daemon, DrmWatcher and the logind signals around one TV | extends `Daemon`, instantiates `DrmWatcher`; keeps the daemon's steps that are acknowledged and adds poll, desktop, sleep and wake-up |
| `TvFollower` | what the service promises of the TV: the abstract specification `Companion` implements | `Handled` is an event that supersedes the one before, `Obeys` the TV doing what the last one asks, `Boots` the TV |
| `Discovery` | `discover` as a function from what the hosts of a network answer to the list it offers | `OpenSsapPort`, `Candidate`, `Candidates` are the merge, the confirmation and the filter; `Before` is the sort key, `Place` the rank it gives a device, `Discover` the sorted list |
| `Setup` | `config.py`, the key file, the commands and the service as two processes over the same files, systemd, and the TVs with the keys they accept; extends `Discovery` | `Load`, `Truncate`, `Write`, `Unlink` are `Config.load` and `save`; `Refused`, `Connects` are `main`; `Handshake`, `HandshakeFails`, `TruncateKey`, `WriteKey` are the client with its key; `KeepsConfig`, `Choose`, `ChoosesNone`, `AnswersMac`, `AsksToPair`, `FillsMac`, `EnablesWol` are `setup` and `pair`, with `EnterTakes` the default of the first prompt; `Install`, `RemovesService`, `Restarts`, `Login`, `SessionEnds` are `service.py`, systemd and a restart from another terminal; `Interrupted`, `Crashes` are kills; `Forgets` is a reset TV |
| `DaemonProofs`, `ClientProofs`, `EnsureOnProofs`, `LogindProofs`, `DrmTriggerProofs`, `SetupProofs`, `CompanionProofs` | theorems about `Daemon`, `WebOsClient`, `EnsureOn`, `LogindWatcher`, `DrmTrigger`, `Setup` and `Companion` | the last extends `DaemonProofs` |
| `QueueProofs` | lemmas about a FIFO queue in which each waiter occurs once, for the locks of `Daemon` and `WebOsClient` | |
| `MCDaemon`, `MCWebOsClient`, `MCEnsureOn`, `MCLogindWatcher`, `MCCompanion`, `MCDrmTrigger`, `MCSetup` | instances for TLC | |

Conventions. A task that waits for a lock is in a FIFO sequence, as in `asyncio.Lock`. Time does not
appear: a time-out is the free choice of when a call fails, and a budget is a bound on attempts. Operators
that follow a comment "Mutant of ..." are deliberately wrong variants of the definition below them, used
to see that the properties notice; no specification uses them.

Abstractions worth knowing:

* *The TV* in `Daemon` is `lit`, `dark`, `off` or `booting`. A command can be acknowledged only by a TV
  that is lit or dark (`Reachable`); a failed one may or may not have happened (`MaybeDone`). What a
  cancelled call still does to the panel is decided when it is cancelled, because later commands follow it
  on the same connection.
* *`ensure_on`* is seen in `Daemon` through what one call can leave behind: it is answered and the panel is
  lit (`Lit`), or it fails or returns without an answer (`Unsure`), since `_unblank_resilient` returns
  normally after three failures (`webos.py:400-412`). That these are its outcomes is what `EnsureOn` shows.
* *`request`* is seen in `EnsureOn` through three outcomes: answered, an error the retry loops catch, or an
  exception they do not catch (`ConnectionClosed` from `ws.send`). `_connected` may be stale there: it is
  set over a socket whose TV is off until the reader notices.
* *History variables* are read by no guard and decide nothing: `doubt` (a command whose outcome `_state`
  does not record), `down` (a power-down handled and no wake-up since), `swallowed` (a cancel was lost),
  `wish` in `Companion` (the event handled last), `raced` in `LogindWatcher` (two acquisitions overlapped),
  `heard` in `DrmTrigger` (what the events told), and in `Setup` `named` (the address in the configuration
  last on disk as a whole), `how` in `pick` (typed, kept or taken by Enter, or `misled`: Enter took no
  confirmed device although there was one) and `history` (`configured`; `torn`: a save over settings was cut
  short, or two met; `overlap`: two migrations at once; `blank`: the command read a file without content;
  `crossed`: during a pairing the daemon saved the key of another TV, or was killed while it saved one).
* *Files* in `Setup` are written in two steps, truncated and filled. A text that fits one write is there or
  not, so a torn file is an empty one, which `Config.load` takes for default settings. When two saves of
  `config.yaml` overlap, the second may be whole, or the end of the longer text may stick out of the shorter
  one (`Mixed`), over which `Config.load` raises; keys are equally long. `config.toml` is read only when
  there is no `config.yaml`. Of the settings the model keeps the two addresses, which decide who
  is paired and woken; a key is a number and a TV the set of keys it accepts.
* *A connector* in `DrmTrigger` is what its directory says now: a dpms value or none, an EDID (a header and
  the two bytes of the vendor code, decoded as the code does), and whether a cable is attached.
* *A host* in `Discovery` is what it would answer to each way of asking. `Setup` scans anew in each `Choose`,
  over every combination of those answers.
* *`CancelLost`* stands for `_teardown` catching `CancelledError` (`webos.py:188-192`) and for
  `asyncio.wait_for` of Python 3.11, which drops a cancel that arrives together with the result.
* In `WebOsClient` a frame is its kind and its socket, a request its sender. The assignment
  `_connected = False` in `_try_reach` (`webos.py:380`) is left out: it runs when `connect` has raised,
  in the same step, and every path on which it raises has cleared the flag already.

## 3. Runs

| run | instance and bounds | shows |
| --- | --- | --- |
| `daemon` | 2 dispatches, 2 recoveries, 2 attempts each, MAC, any initial panel; not past a lost cancel | `TypeOK`, `OneRecovery`, `NoCompetingAttempt`, `StaysDown`, `BeliefSound`, `LockSound`, `TvStaysOff`, `RecoveryAdvances` |
| `daemon_live` | 2 dispatches, 2 recoveries, 1 attempt, no MAC, service not stopped | `EventHandled`, `RecoveryEnds` |
| `client` | 2 callers, 3 connections, 2 unread frames | `TypeOK`, `ConnectedHasReader`, `NoOrphan`, `HandshakeHonest`, `NoLeak`, `LockSound`, `CallAdvances`, `CallEnds` |
| `ensure_on` | 2 bursts, 3 tries, MAC, every TV and every argument, calls repeated | `TypeOK`, `KeepsPromise` (`EnsureOn` implements `Ensuring`), `EnsureAdvances`, `EnsureEnds` |
| `logind` | 2 watchers, 3 signal tasks each, 4 descriptors | `TypeOK`, `FdOwned`, `LeakNeedsRace` |
| `companion` | 1 poll, 1 signal task, 2 recoveries, 2 attempts | `RestsLit`, `RestsDark`, `SleepsDark`, `PanelFollows`, `LastEventRules` (`Companion` implements `TvFollower`) |
| `drm` | 2 connectors, one the TV's, with readable and unreadable EDIDs, On, Standby and Off, with and without a configured name | `TypeOK`, `ChangesTold`, `TvWatched` |
| `setup` | 2 TVs, 1 command at a time beside the service, 2 pairings, 11 kinds of answers to a scan | `TypeOK`, `SettingsKept`, `PairedKeyKept`, `TvAsChosen`, `ServiceSettles` |

Bounds. Two dispatches are enough for one in a handler and one behind it in the queue, which is where the
order of events starts to matter; two recoveries for one at work and one that has not noticed its cancel;
two attempts for a first one, which must send Wake-on-LAN, and a later one, which may. An action that would
start a recovery when both identities are taken waits for one to unwind: that is a bound of the instance.
Three connections are a stale one, its replacement and another; two callers are a holder of the client's
lock and one behind it or beside it (requests do not take the lock). In `ensure_on` the three tries are the
code's; two bursts stand for its ten, a first one and one after which the loop ends. Two watchers give one
that failed with its handlers still subscribed and its successor. Two connectors give one that is chosen too
early or wrongly and the one that is meant; the other may be by LG Display, whose id counts as LG's. In
`setup` two TVs are the old one and the new one, and the pairings are one of each. The old one has the
higher address, so that it is number 1 of a list only when it was confirmed, or has an open port, and the
other not. The answers are every way to be found and to be confirmed, one at a time, and any of them for
each of the hosts: a TV that is not confirmed stands for any host that answers. A signal is only sent while
another would still find a free signal task (`Room`), so that the machine can always wake up. In the two
`daemon` runs a constraint stops exploration where a cancel was lost (and, for liveness, where the service
stops); both are one-way doors, so what is left is exactly the set of behaviours that never pass them.

Fairness. Every await of the code has a time-out or waits in a FIFO lock, and asyncio runs every ready
task, hence weak fairness of each task's own steps. No fairness is assumed of the triggers, of cancels, of
connections dropping, or of the TV answering. In `WebOsClient` the time-out of the handshake
(`HandshakeFails`) is fair on its own, since prompts may keep the loop busy until `pair_timeout`. In
`EnsureOn` the call as a whole is fair: each of its awaits has a time-out or a fixed length. In
`Companion` the poll and the boot of the TV are fair as well; that run assumes acknowledged commands, and
a desktop whose flip waits until the poll has seen the one before (a flip off and on within one poll is
missed, which `src/README.md:90` says). In `DrmTrigger` the trigger and its supervisor are fair, the
kernel is not. In `Setup` the service's own steps over the files are fair (the process is running) and so
is systemd's `Restart=on-failure`; no user ever has to answer or to start anything.

Runs that find a violation, one per disagreement between the code and what the repository says of it:

| run | property | what happens |
| --- | --- | --- |
| `daemon_lost_cancel` | `SuspendEndsRecovery` | a recovery whose cancel was swallowed goes on after the suspend and may wake the TV |
| `ensure_on_dark` | `ReturnsLit` | after three failed tries `_unblank_resilient` returns as after a success (`webos.py:396-412`): the recovery ends and the state becomes ON over a dark panel, or over a TV that is off when the connection was stale |
| `logind_called_off` | `TvOffFirst` | a shutdown that is called off leaves the watcher without an inhibitor (`logind.py:97-100`): the next suspend does not wait for the TV |
| `setup_mac` | `OffersPickedMac` | `setup` run again for another TV offers the MAC address of the configuration it replaces (`__main__.py:107`), where `src/INSTALL.md:135` promises that of the device picked |

What the passing runs except, so that a reader does not take more from them than they say:

* `RestsDark` excepts a state with `doubt`: in SCREEN_OFF or POWERED_OFF a recovery lights the panel, and a
  blank that comes before its command was answered cancels it, finds a state that is not ON, and sends
  nothing (`daemon.py:75-78`).
* `BeliefSound` excepts `doubt` as well: a blank whose answer was lost, or a service that is restarted over
  a dark panel, leaves the state ON, and the next unblank does nothing (`daemon.py:83-85`).
* `SleepsDark` excepts a power-off without an answer, and an unblank handled between suspend and sleep.
* `ChangesTold` excepts a listener that is unsure: a change by way of Standby is reported by no event.
* `TvWatched` assumes that the panel that is meant is among the connectors whenever there are any. `_path` is
  never given up, so a choice made without it stays.
* `SettingsKept` shows that the migration loses nothing; a plain save that is killed does lose the settings
  it was about to replace, and two saves at once may leave a text that is no configuration.
* `PairedKeyKept` excepts a service that still serves another TV and was granted a key there meanwhile, and
  one that was killed, say by `systemctl restart`, between the two steps of saving its own key: it leaves
  none, also where the command had just saved one.
* `TvAsChosen` excepts a command that reads a `config.yaml` without content, left by a kill or about to be
  filled by the service: it takes the TV for unconfigured, and `setup` then offers number 1. It also excepts
  a command and a service that migrate at once, where the slower one saves the old address over a new one.

## 4. Proofs

`DaemonProofs` proves, for any sets of dispatches and recoveries, any budget, with or without a MAC, from
`DaemonAssumption` alone: `TypeCorrect`, `OneRecoveryHolds`, `NoCompetingAttemptHolds`, `StaysDownHolds`,
`BeliefSoundHolds`, `TvStaysOffHolds`, `LockSoundHolds` and `RecoveryAdvancesHolds`. TLC checks the same
properties in the run `daemon`.

The argument is one inductive invariant, `IInv`:

1. `TypeOK` is inductive by itself.
2. `LockHeld`: the holder of the lock is the one task that is inside a handler or settling. So a handler
   that gets the lock knows that no other one awaits the TV.
3. `Exclusive`: every uncancelled recovery is the one `_recovery` names; none is at work beside a handler;
   after a power-down none is at work, the state is POWERED_OFF, and a handler that awaits the TV can only
   be another power-down. The last part (`DownHolds`) is what makes `StaysDown` inductive: without it a
   blank that was already awaiting its answer could set SCREEN_OFF afterwards.
4. `Believed`: without doubt the state is true when nothing is under way; a recovery that has not sent
   anything leaves it true; one that waits to settle has lit the panel; one cancelled while settling
   leaves doubt. `BeliefSound` alone says nothing of a recovery at work and cannot be inductive.

Parts 3 and 4 hold until a cancel is lost; the run `daemon_lost_cancel` shows that they do not after it.

`LockSound` is part 2 together with `FifoHolds`: the queue of the lock holds exactly the tasks that wait, once
each. It is inductive with the types, and rests on what a queue does when a waiter joins it, is served, or is
cancelled out of the middle of it (`Joins`, `Served`, `Leaves` in `QueueProofs`, for sequences of any kind and
length). `RecoveryAdvances` is about a measure, `Left`: seven for each attempt the budget still allows, and the
number of awaits that this attempt has ahead of it at most. It is a natural number, nil only when the recovery
is over (`LeftType`), and every step leaves the place and the count of a recovery alone or makes it smaller, a
lost cancel included. `RecoveryEnds` is this together with the fairness of its steps.

`EnsureOnProofs` proves, for any limits of the two loops, with or without a MAC, from `EnsureAssumption`
alone: `TypesHold` and `PromiseHolds`, that `EnsureOn` implements `Ensuring`. The refinement mapping `Call`
forgets where a call is; the start maps to the start and every step to one of `Ensuring` or a stutter
(`NextPromised`). The invariant `EInv` adds to the types that a loop that goes on has attempts left
(`Left`), without which the counters could not be bounded; that an answer ends the call (`AnswerEnds`); and
that a burst is only reached by a call that may send one (`Allowed`). `EnsureAdvancesHolds` uses the same
invariant: `StepsLeft`, three for each burst and two for each try that is left and the awaits before the next of
them, falls with every step of a call, although `_unblank_resilient` is left for a burst and entered again.

`LogindProofs` proves, for any number of watchers, signal tasks and descriptors, from `LogindAssumption`
alone: `LogindTypes`, `FdOwnedHolds` and `LeakNeedsRaceHolds`. `TypeOK` and `FdOwned` are inductive together:
`call_inhibit` returns a descriptor that is open nowhere else (`GrantOwned`), and `_release_inhibitor` closes
the watcher's own (`ReleaseOwned`). `LeakNeedsRace` needs that an acquisition which never overlapped another
one of its watcher is alone and finds `_inhibitor_fd` empty (`Alone`), which is true of a new watcher because
nobody has touched it (`Fresh`). `TvOffFirstIfPrepared` says how far the finding of `logind_called_off` goes:
`TvOffFirst` holds of every behaviour in which each suspend finds the watchers `Prepared`, that is, those that
listen with an inhibitor, and none still busy with an earlier suspend or shutdown. The invariant (`Delaying`) is
that a watcher which still handles the suspend keeps its inhibitor, because no other task of it would release
one. Both halves of `Prepared` are needed: TLC finds a counterexample without either. What is not needed is
anything about buses, restarts or acquisitions after the signal.

`SetupProofs` proves, for any finite set of hosts, any TVs and answers and any number of pairings, from
`SetupAssumption` and `NoFileAssumption` (a missing, an empty and a mixed file are different, and none is a
configuration): `SetupTypes`, `SettingsKeptHolds`, `PairedKeyKeptHolds`, `TvAsChosenHolds` and `ScanOffers`.
`SettingsKept` says nothing of how far a migration is, so it is strengthened by three facts: two migrations
at once are noticed (`Noticed`), a migration that is alone has its source until it removes it (`Sourced`),
and when it is about to remove it there is another file, or one is being written (`Replaced`).
`PairedKeyKept` is about the time after the handshake; what carries it there is that a key being saved is
one its TV accepts (`Accepted`) and that the key a command presents is still the one on file, unless the
daemon put a better one there or is doing so (`Presents`). `TvAsChosen` is about a file that both processes
save from memory. Its invariant, `TInv`, says that `named` is the address on file wherever that is by now
(`NamesIt`); that a command gets no further than its migration while there is one to do (`MigratesFirst`),
so a service that migrates, and may save what it read a while ago, is done with it before a command reads
the file (`Alone`); that the service saves nothing else (`OnlyMigrates`); and that whoever is going to save
holds the address on file, unless the user chose another or there was none (`Holds`). The last and `Alone`
hold until two migrations overlap or a command has read an empty file (`Clean`). The steps that matter to
none of this are treated once each, in `Quiet`, `QuietKeys` and `QuietNames`. What Enter takes (`EnterIs`)
rests on `ScanOffers`, which says of every combination of answers that the list offers each TV which the
scan could see, once, and starts with a confirmed one if there is any. `Discover` puts a device at its
`Place`, one more than the number of devices before it. That this is a sorted list of all of them, without
gaps or repetitions, is proved by counting: the key is a strict total order (`InOrder`), so a device has
more others before it than each of those has, and the places differ and lie between one and the length
(`PlaceOf`); as many different places as there are devices meet each of those numbers (`Sorted`, by the
cardinality of finite sets).

`ClientProofs` proves, for any number of callers and sockets, from `ClientAssumption` alone: `TypeCorrect`,
`OneInLockHolds`, `ConnectedHasReaderHolds`, `NoOrphanHolds`, `HandshakeHonestHolds`, `NoLeakHolds`,
`LockSoundHolds` and `CallAdvancesHolds`. None of the invariants but the types is inductive, because each
says something of a connection that a task is in the midst of opening or taking down, and a cancel can end
that task at any await. The invariant `CInv` says what the next caller then finds:

1. `Holding`: a caller holds `_lock` exactly at the places inside `connect` and `close`, so there is one.
2. `LinkInv`: at each of those places, what is left of the connection. From the start of a teardown to the
   next socket `_connected` is clear (`Down`); once the socket is closed and the reader gathered no socket
   is open (`Gathering`); a dial starts from nothing (`Dialing`); a handshake has a socket (`Registering`).
   Everywhere, an open socket is `_ws` and has a running reader (`OpenIsRead`), which is `NoLeak` and more,
   and `_reader` is the reader of `_ws` or cleared (`ReaderOfSocket`).
3. `WaitInv`: a future that waits is in `_pending` and its reader has not ended (`NoOrphan`), and it knows
   its socket (`Routed`).
4. `HandshakeHonest`, which needs part 2: frames are only added by the reader of `_ws`, and the socket does
   not change while somebody reads them.

`LockSound` is part 1 and the queue of `_lock`, as for the daemon. `CallAdvances` needs only the types: `Moves`
goes through the actions once and says of each to which place it takes its caller, and that the place is nearer
the end (`Onward`).

`DrmTriggerProofs` proves, for any connectors, names and EDIDs: `DrmTypes`, `ChosenOnceHolds` and
`OnlyTvWatched`, the safety half of `TvWatched`: as long as the panel that is meant is among the connectors
whenever there are any, no other is ever looked at. They need of the connectors only that they are a finite
sequence (`ConnectorsAssumption`). What carries them is that the first of some candidates exists
(`FirstIsOne`, by the well-foundedness of the numbers) and what `resolve` can return (`ChosenIsOne`).

`CompanionProofs` proves, for any number of recoveries, any budget, with or without a MAC: `Implements`
(`Companion` is a `Daemon`), `RestsLitHolds`, `RestsDarkHolds`, `SleepsDarkHolds` and `LastEventRulesHolds`
(`Companion` implements `TvFollower`). `CompanionAssumption` fixes what the instance is about: two triggers,
and a service that starts while the desktop and the TV are on. Because of `Implements`, the invariant `IInv`
of `DaemonProofs` holds of the service too, and is used as it is. `GoodDay` adds what is true when every
command is acknowledged:

1. `Triggered`: which events and calls a trigger can be at, given the desktop and the machine.
2. `Uncancelled` and `Wished`: what is under way was asked by the event handled last; a recovery at work was
   asked by an unblank or a resume. This is why a command that a cancelled recovery had sent is one the
   last event allows, the one case in which a handler moves the TV (`FollowStep`, step `<1>3`).
3. `LitOn`, `LitReached`, `SettlesOff`: what the state and the place of a recovery say of the panel.
4. `WillLight` and `WillDarken`: where the state does not fit the desktop, there is a poll, an event, a call
   or a recovery that is going to see to it. At rest there is none, which is `RestsLit` and `RestsDark`.

Before a proof each invariant was checked by TLC, with all its parts, on the instance of the run.

Only model-checked: liveness (`EventHandled`, `RecoveryEnds`, `CallEnds`, `EnsureEnds`, `PanelFollows`,
`ChangesTold`, the liveness half of `TvWatched`, `ServiceSettles`), for which the prover has no rules of
fairness and ENABLED, and the violations. Every invariant and every action property of the passing runs, and
both refinements, are theorems. Of `RecoveryEnds`, `CallEnds` and `EnsureEnds` the part that is about the
code's own counters is proved (`RecoveryAdvances`, `CallAdvances`, `EnsureAdvances`): nothing goes back.
What is left to TLC is that somebody always may and will take the next step.

## 5. Not modelled

* `dpms` values other than On and Off in `Companion`; `DrmTrigger` has them.
* The dry-run client: it replaces every mutating call by a log line. (Its `send_wol` has no `quiet`
  argument, so a dry-run recovery with a MAC ends with a `TypeError`, `__main__.py:254`.)
* The reports of `probe` and `status`, the wording of every question, names and labels of devices, the
  connector that `setup` offers (it is the one configured before, `__main__.py:115`, with no detection).
* Of the files: settings other than the two addresses, edits by hand while a command runs, and a power cut
  that loses writes which had returned (nothing calls `fsync`).
* Signals to the service other than the SIGTERM by which systemd stops it, at the end of its session or for a
  restart, which Python does not turn into an exception, so no `finally` runs; `Stops` is that kill, wherever
  the service and a command are.
* The subscription of the ScreenSaver trigger to its bus; its signals are dispatches of `Daemon`.
* The JSON of the SSAP frames, the magic packet, TLS, SSDP and D-Bus themselves.
* Real time: how long a teardown (up to ten seconds) may hold the client's lock against the 2.5 s of a
  suspend, and whether packets sent just before a suspend boot a TV after it.
* What the code leaves as it is and the repository promises nothing about: a blank that failed is not tried
  again, a `pair` saves the configuration it loaded before the prompt over later edits, a `setup` for another
  TV starts from default settings, and `enable --now` leaves a running service on the old ones.

## 6. Plan

1. Done: `Daemon`, `WebOsClient`, `Ensuring`, `EnsureOn`, `LogindWatcher`, `DrmWatcher`, `DrmTrigger`,
   `Companion`, `TvFollower`, `Discovery`, `Setup`, and the proofs of every safety property of the runs.
2. `Companion` with a desktop that does not wait for the poll, and with `DrmTrigger` in the place of the
   fixed connector.
3. What `TvFollower` promises over several events.
