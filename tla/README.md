# Verification of rimba: the HaLow mesh gate and its regression harness

This directory holds TLA+ models of the parts of this repository that keep state
under concurrency or across failures, TLC instances that check them, and TLAPS
proofs of what matters most about them. Line references are to the repository's
files; `G` stands for `firmware/rimba-halow-mesh-ap/main/app_main.c` and `R` for
`tools/regtest`.

    tlc -workers 2 -config GateArpTable.cfg MCGateArp    # one run
    tlapm GateArpProofs.tla                              # one proof module

`PROJECT.json` ties every definition to the lines it translates, every property to
a mutation of the code that breaks it, every hazard to the properties that watch it.

## 1. The system

rimba is firmware for 802.11ah (HaLow) nodes on ESP32-S3 boards, and the bench
harness that builds, flashes and tests it. The radio stack (morselib) and ESP-IDF
are git submodules and are not part of the tree; the firmware here is what runs on
top of them.

### 1.1 Components

| Component | State it keeps | Operations | Talks to |
|---|---|---|---|
| Gate, client table (`G:108-165`) | `g_ap_clients[]`, `g_ap_client_n` under a critical section | station authorised, station gone, lookup | called by morselib's AP status task; read by the RX callbacks; calls the ARP table's forget |
| Gate, proxy-ARP table (`G:250-503`) | 48 entries (ip, mac, side, used, last_ms) under a mutex; the announce task's handle and notification | learn, forget, lookup, proxy reply, announce | RX callbacks, status task and announce task share it |
| Gate, L2 bridge (`G:215-248`, `G:505-664`) | the mmpkt in hand, three scratch buffers | mesh RX, AP RX, proxied AE RX, local delivery | morselib's RX loop calls it; it sends on the AP vif, into the mesh, or to lwIP |
| Gate, bring-up (`G:666-868`) | the order in which handles come to exist | `app_main`, `mesh_net_task` | arms the callbacks the other parts run in |
| Gate variants (`test-mesh-gate-ap`, `test-mesh-ap-gate`) | as above | a T0-checked copy; an older layer 3 gate | the bench tests |
| IBSS node (`rimba-halow-ibss`, `test-ibss`, `test-ibss-boottime`) | `s_pending`, `s_pinged` | peer callback, main loop, one count, one timed reply | morselib's peer events |
| Reporters of the on-air tier (`test-mesh-*`, `test-apsta-sta`, `test-twt-*`) | locals of one task, counts its callbacks keep | boot, wait for the rig, measure, print one `TEST\|RESULT` line | the other boards of the rig; the harness reads the console |
| Restart fixtures (`test-mesh-hwrestart`, the arm of `test-mesh-ap-gate`) | restart and association counters, the broadcast train's phase | control ping, forced restart, second ping, verdict | umac's event loop, the AP status callback, an off-air scorer |
| Statistics fixture (`test-raw-rps`) | one reading of the chip's TLVs, measurement windows | configure, read, walk, report | the chip's RAW engine |
| Deep-sleep leaf and C6 trigger | RTC wake state; trigger mode in NVS | sleep, wake, reconnect; commanded and free-running pulses | one GPIO line, the dscycle tier |
| Example, perf and capability apps (`rimba-halow-*`, `test-*-cap`, ...) | locals of one task | configure the stack, print | a person, the harness |
| Harness, results (`R/common.py`, `R/ledger.py`) | a run's results; `<tier>-latest.json`; `history.jsonl` | add, write, seed, finalize, append, load | every tier |
| Harness, T2 on-air tier (`R/t2_onair.py`, `R/linux_peer.py`) | a test's assignments, boards used, teardowns owed; per app a CMake cache and a stamp | resolve, flash, bring up, capture, verdict, teardown, silence | USB boards, a Linux node over ssh, make |
| Power tier (`R/tp_power.py`) and its ladder (`test-power`) | samples and markers with host times; debts of the finally; the board's tier | own the rail, AP up, flash, sample, segment, score, teardown | a supply that measures, one AP, the board's console, the C6's trigger |
| Harness, other tiers (`R/t0_build.py`, `t1_smoke.py`, `dscycle.py`) | one run's locals | build, smoke, deep-sleep cycles | the same boards and build directories |
| PPK2 holder (`tools/ppk2_hold.py`) | its PID file, the supply's switch | hold the supply of board2, quit, die | the deep-sleep tier starts, frees and restarts it; the power tier kills it by name |
| Capture and decode tools (`tools/*.py`) | none | parse captures | a person |
| Build system (`Makefile`, `cmake/`) | `CMakeCache.txt` per app and board | configure, build, flash | the harness and people |

### 1.2 What is hard about it

- The gate's tables have accessors in three or four tasks. Locks cover single
  operations, but clocks are read before the lock, pushes happen after it, and a
  frame may be in a callback while its sender leaves.
- Time is a wrapping 32-bit count and ages are modular differences.
- Start-up registers callbacks that fire at once, on a radio that is already up.
- Each receive path must release a buffer once and hand a frame to the right ports,
  whatever the other tasks do to the tables meanwhile.
- A fixture judges a rig it does not control: links flap while it waits and measures,
  the event it provokes is queued, its counters live longer than its window. A wrong
  verdict is worse than none, and none blocks the tier.
- The deep-sleep tier counts cycles over a console port that vanishes in each of them
  and commands the wakes over another that may die.
- The power tier joins a current measured by one instrument with what another console
  said and when; the board may be anywhere in its ladder when that console is opened.
- One supply feeds the board of two tiers. Whoever holds it is found by its open file or
  by a PID file, and either may be missing or stale.
- The harness is killed at any time ("the environment reaps long processes") and the
  next run starts from the files it left. Boards drop off the bus between a lookup
  and a use. Flashes, ssh commands and captures fail in the middle.

### 1.3 What makes each part correct

Client table: it lists exactly the admitted stations. ARP table: one mapping per IP, entries
leave only for a reason, live ones are taught, it looks atomic from outside. Bridge: every
buffer freed once, no loops, no client left out. Bring-up: nothing runs before what it needs
exists. Results: a baseline accumulates and tells whether it is whole; the history loses
next to nothing. T2: one result per test, a pass is earned, the binary is the one asked for,
the bench is quiet afterwards. Fixtures: one RESULT line each, and it is true of the rig.
Deep sleep: no cycle counted twice, no FAIL when a wake was due and could not be commanded,
the trigger left as it was found. Power: a tier's verdict rests on samples of that tier, and
the bench is quiet afterwards. Supply: one driver at a time, and a holder when the
deep-sleep tier is done. IBSS: every peer heard gets one ping session.

## 2. The modules

    GateClients <- GateArp <- MCGateArp            ArpCache: what GateArp promises
         ^----- GateBridge <- MCGateBridge          (uses ArpCache as its ARP table)
         ^----- GateBringUp <- MCGateBringUp
    Results <- Reporter, PowerTier <- MCImages
         ^---- T2Bench <- MCT2Bench
    BuildStamp <-- T2Bench
    MeshFixtures, RestartFixtures, RawStats, IbssNode, SleepCycle, PowerRail <- MCImages
    GateClientsProofs, GateBridgeProofs, GateBringUpProofs, GateArpProofs, T2BenchProofs:
    the theorems about the module each is named after
    FixtureProofs: MeshFixtures, RestartFixtures, RawStats, IbssNode
    TierProofs: Reporter, PowerTier, SleepCycle, PowerRail
    ImagesProofs: MCImages, from the two before it

**GateClients** is the client table. `assoc` is what morselib has admitted;
`clients` is `g_ap_clients[0..n-1]` as a sequence, so that the swap with the last
slot is modelled as it is; `sta` is the status task, between the change of `assoc`
and the end of `ap_sta_status_cb`. A report about a station that is already admitted,
or that never was, is allowed. The three modules below it are composed with it.

**GateArp** is the proxy-ARP table with each task's steps: an RX handler is frame
(clock read), scan under the mutex, publish and unlock, wake, lookup (clock read
again), reply; the announce task is wait, clock read, lock, one step per slot, push.
`LearnScan` and `LearnPublish` are two steps of one critical section so that the
mutex is what makes them atomic (the mutant that drops it is caught). Frames are
reduced to the claim the snoop learns and the IP an ARP request asks for; what it does not
learn (no IP, a group address as sender) is a frame too. `age`,
`lag`, `pend` and `late` are history variables: true elapsed time, new mappings that
no scan has met, clients re-learnt from a frame their departure overtook.

**ArpCache** is the abstract specification of that table: a set of claims with atomic
refresh, insert and drop; callers that are answered with a claim held at that moment for
the IP they ask for, of a host on the other side; announce rounds that teach the claims of
one moment and no others. GateArp implements it (`ImplementsCache`, checked and proved),
and **GateBridge** uses it in place of the table, the question of a request included
(`Answers`). GateBridge has the three
callbacks with their branches and early returns in order; `held` counts received
buffers the gate owns, `rx.out` lists the ports the frame was given to. Allocation
and transmit failures do not change the path, so a frame given to a port may be lost
there; a missing mesh route does change it and is a choice.

**GateBringUp** is `app_main` as a sequence of steps. A step that fails reboots the
chip, makes `app_main` return, or is ignored, as the code has it; everything already
armed runs in between.

**Reporter** takes one `add` apart: the baseline opened (and emptied), written, the
history opened, its line, its newline; and `finalize`. A kill is possible after each,
a failing write leaves what it leaves. **BuildStamp** is `_flash` over a build
directory, with cmake's cache as the set of options it accumulates, and the makes that
share the directory and write no stamp: other tiers', and a person's with any of the
options in `ByHand` (`Makefile:41-65`). `Always` are the options that every make passes a
value (`TEST_AP_VIF`, `TEST_HW_RESTART`; `Makefile:67-75`), so that they never stay;
`build[a].hand` remembers which of the others a make by hand has put there since the cache
was last deleted. **T2Bench** is
`run` with everything under it, for any number of runs; a call of `add` is one step
there, whose inside is Reporter's. Reporter takes it that a run adds no name twice; T2Bench
shows that of the on-air tier (`ExactlyOneResult`), for its tests and for the boards that
the silence at the end reports. **Results** holds what both share.

**MeshFixtures** is fourteen reporters at once, because they are one program with
different choices: boot, take an address, wait for the rig, measure, print, park. Each
program is a record (what it reports when a step fails, what it waits for, what it
measures) read off its `app_main`, and a verdict of its own; the actions interpret the
record. The rig is three nodes in a line whose links come and go (`plinks`), whose
middle node may bridge or route and may be a leaf that does not forward; nodes that run
no program of this repository appear when they like. `truth` is what really happened:
replies the middle node forwarded, restarts inside the relay's window.

**RestartFixtures** is the two fixtures that force a chip restart. The restart is queued
to umac's loop and may run at once, late, or after the verdict; the peer (the client)
may go and come back; `bcast_task` picks the payload and the length of a frame in two
reads of a flag that the fixture flips. **RawStats** is the reader of `test-raw-rps`
over readings that may be cut inside a record, with whatever memory lies behind them;
it counts in words of two bytes, so a header and the overstated status are two each.

**IbssNode** is the three IBSS programs: `peer_cb` with the load, the store and the copy
of its `s_npending++` and the memcpy that follows, against the main loop's snapshot,
scan and reset; the one count of `test-ibss`; the first reply of `test-ibss-boottime`.
**SleepCycle** composes the leaf (`test-deepsleep-cycle`), the trigger
(`test-c6-trigger`, with its modes, its blocking pulse and what NVS holds) and
`dscycle.py` from `run` to its `finally`, over a console port and a serial handle that
come and go. **PowerTier** composes `tp_power.py` from `run` to its `finally` with the
ladder it flashes (`test-power`). The two meet at the console only: what a tier's samples
are of is known to the model, while the host has the times at which it read the markers.
**PowerRail** is that supply: `ppk2_hold.py` from its start to its end, however it comes;
`dscycle.py` from `_ensure_holder` to the restart in its `finally`, with the scan, the
signals and the PID file of `_free_ppk2` as steps of their own; `take_over` of the power
tier. Between two runs of a tier a person starts holders or switches the supply off, and
PIDs go to other processes. The three actors meet in `prProc` (what runs under a PID),
`prFile` and `prRail`.
**MCImages** puts these seven and Reporter, which share no state, into one run: the rig
chosen at the start runs and the others stay put.

What these abstract: a wait's deadline may pass at any time (its length is not counted).
`ESP_ERROR_CHECK` aborts are not modelled. A ping session ends before the guard of its wait,
and reading the chip's statistics succeeds where a mesh reporter does it. A station
associates first and takes its address after; the model takes the address at boot, which
gives the same verdict. The AP of the restart arm has one client, and a chip that restarts
by itself is not told apart from the forced restart there. In SleepCycle only a real sleep
makes the port vanish for the three seconds the tier asks for, a serial write that does not
raise arrives, and the leaf may be reset anywhere, between its sleep line and its sleep and
in the sleep itself included (`dsTruth` keeps what it said and which joins followed). In
PowerTier a line printed while the console is open is read at once; a window is a place
between its marker and the end of its tier, two seconds after the one and one before the
other (`_SETTLE_S`, `_TAIL_S`), so it shuts before its own tier's end but not before a
restart's; a sample is kept as whether it was taken of its tier, a median as low, grey or
high in the bands; all results of `_score` are added in one step (a kill between two of them
is Reporter's); and one flag stands for the AP of the run, the board's or the Linux node's.
A station that loses its link after the association has been printed is not told apart:
nothing in the ladder or the host sees it. In PowerRail a holder opens its port and writes
its file in one step, one that was started has opened (or failed) by the next scan (two
seconds at least lie between), and within a run of a tier no PID is given out twice.

Left out of T2Bench: unknown slugs and dry runs (they touch nothing), a Linux reporter (an
assumption, `BenchSuite`: no test has one), an explicit port that comes to mean another
board, the image that a make by hand puts on a board (a run flashes the boards it uses), and
`LINUX_MAC` and `LINUX_IP` in the environment of a run, which every make below it would take
for options of its own (`Makefile:49`, `:98`). `any-esp` takes any free board where the code
prefers board2. A single-board test is one reporter role on any board. That named roles are
distinct and come before `any-esp` ones is an assumption on the tables, and the code relies
on it: `_resolve_role` checks a named board against nothing.

## 3. The runs

| Run | Question | Bounds |
|---|---|---|
| `arp_table` | one mapping per IP, snapshots, expiry, eviction and freshness, and the table implements the cache | a client that may reappear as a mesh host and two mesh hosts (three addresses) on two slots, a frame whose sender is a group address, one RX task, the status and the announce task, TTL 1, period 1, delay 1, clock modulo 12 |
| `arp_live` | departed hosts go, hosts that stay are taught, a learnt host is announced without waiting for the period | one host a side, delay 0, clock modulo 6 |
| `bridge` | buffers, ports and clients under joins and leaves at any point | 3 stations, 2 admitted; 11 kinds of frame |
| `bring_up` | order of start-up against callbacks | 2 stations, 3 polls |
| `t2_bench` | results, verdicts, roles, silence; what a stamp tells of its cache, and what a flashed board can have that was not asked for | 2 boards, 1 Linux node, 1 app, 2 tests, 2 options of which one is passed in every make, makes by hand with none or one of them, any number of runs |
| `images` | each fixture's and tier's verdict against its rig; baseline and history over kills and failed writes | 14 reporters, 3 pings, floor 2, 2 lost links; 3 restart builds, 2 pings, 3 moves; readings of at most 2 records; 3 IBSS peers on 2 slots; 2 sleeps, 2 cycles asked for; 1 power run, 1 restart of its board; 3 PIDs, 2 runs of a tier on the supply; 3 runs of a reporter, 2 names, 2 statuses |
| `arp_fresh`, `arp_departed`, `t2_wrong_board`, `t2_stale_build`, `ibss_lost`, `power_append` | six sentences of the code's comments and help that the code does not keep (section 6) | as above; `t2_wrong_board` and `t2_stale_build`: no option given by hand; `ibss_lost`: 2 peers, 3 slots; `power_append`: 2 power runs, no restart |

Why these bounds are enough to see the interesting cases:

- With TTL, period and delay all 1, a mapping can expire by lookup and by announce, and
  one tick is enough for a clock reading to be older than the entry it is compared with.
  `ClockMod` only has to exceed twice the window `AgeBound` (TTL + period + two delays),
  an assumption of the module; the code's window is 315 s out of 2^32 ms, and
  `NoImmortalEntry` (in `NoneOverdue`) shows that nothing leaves it.
- `VIEW ClockFree` merges states that differ by a shift of the clock: every guard and
  update uses the clock through modular differences only, so a shift commutes with
  every step, and the properties do not mention the clock's own value.
- Two slots hold a hit, a free slot and an eviction (three addresses). One RX task is
  what the code has (its comments say both callbacks run on one loop); it interleaves
  with the forget of the status task and with the announce scan. With two RX tasks the
  state space is out of the run's time: there the properties of `arp_table` rest on their
  proofs, which hold for any number.
- Three runs of the reporter let a kill, a run seeded from what it left, and a run after
  that meet. `MaxRuns` is the only bound there, as `MaxTpRuns` is in the power tier and
  `MaxRailRuns` on the supply: a rig whose bound is used up has no successor
  (`CHECK_DEADLOCK FALSE` in `images` and `power_append`); `bring_up` may end because
  `app_main` may return.
- One power run meets what any earlier one can have left: the first state has the board
  and the AP in any of them. One restart of the board puts a second boot, a second
  association and a second ladder into one capture; the appended run needs the second run.
- On the supply two runs let the second one meet what a killed one, or the other tier,
  left; three PIDs let a stale file, a holder it does not name and a bystander meet.
- The two T2 tests have between them every kind of role: ESP and Linux support, with and
  without marker, one and two reporters, any board. They build the same app with different
  options, which is what the stamp is for. A blocked test is not among them: its SKIP is
  that of an absent board. Of the makes by hand one sets the option that a test asks for
  too, one the option that every make passes, and one none.
- In `images` the floor is below the number of pings and above one, so that a verdict has
  its middle band; two lost links let one go while the reporter waits and one while it
  measures; IBSS peers outnumber the slots, one of them has our own address after the clamp,
  and four arrivals let one age out and return; two sleeps suffice for the two cycles
  asked for, so every lost one shows. Fixtures park after their verdict
  (`CHECK_DEADLOCK FALSE`).
- No run uses symmetry.

Fairness is assumed in three runs. `arp_live`: time passes, each task that can run
does, and a task that keeps finding the mutex free again gets it (strong fairness,
FreeRTOS queues the waiters of a mutex by priority and then in order). Nothing is
assumed of frames or stations. `bring_up`: `app_main` and `mesh_net_task` are run
(weak fairness), nothing is asked of the netif. `images`: the tasks of the fixtures run
(weak fairness of `Steps`, `Fixture` and `PollEnds`): each is a FreeRTOS task whose every
wait has a deadline; nothing is asked of links, peers, clients or umac.

## 4. What is proved

The proofs hold for every value of the constants: any number of clients, slots, RX tasks,
claims and frames, any TTL and period, any boards, apps, build options and suite of tests,
any number of echoes, flaps, moves, cycles, restarts and runs, under the modules' named
assumptions:

- `ClientCapacity`: the client table covers the admission cap, which the code asserts
  statically. `ArpClaims`, `ArpTasks`, `BridgeFrames`: shapes of the constants, the gate's
  own addresses unicast among them. `BuildConstants`.
- `ArpTiming`: half a lap of the clock is longer than the oldest age (315 s against 24
  days), and no handler takes as long as the TTL of five minutes. The second half is a
  result of the proof: without it `NoImmortalEntry` is not inductive, and TLC finds why
  with two RX tasks, TTL 0 and delay 1 (a task that decided on a slot publishes it after
  the scan that would have aged it out).
- `BenchSuite`: what `T2_TESTS` keeps to, distinct slugs, one board a role, the roles on any
  board last, a reporter in every test that runs. `RailBounds`: the processes are finitely
  many and no PID is the absent one. `IbssBounds`: an address is an octet, the table of
  sessions has a slot.
- `BoundsAssumption`, `RestartBounds`, `RawBounds`, `PollsBound`, `RunBound`, `PowerBounds`,
  `SleepBounds`: the numbers are natural numbers, the floors, the pings and the length of a
  RAW record are not zero, and the programs that run are the fourteen of `Program`.

- `GateClientsProofs`: lemmas about `Appended` and `SwapRemoved` (the table stays
  free of duplicates, gains or loses exactly one station) and the invariant that ties
  it to `assoc`: after a report is handled the two sets are equal, and while it is
  handled they differ by that station at most. The pigeonhole that leaves room for
  an admitted station (`RoomForAdmitted`) uses the library's cardinality theorems.
- `GateBridgeProofs`: `TableTracksAdmission`, `BuffersFreedOnce`, `SteadyClientServed`,
  `PortsAreRight`, `BridgeTyped`. `SteadyClientServed` needs `Serving`: while a frame for
  a client that stayed associated is handled, the client is listed at each place where
  the callback may look. `PortsAreRight` needs the frame's whole way: `Way` says what has
  been given to whom at each place of the callbacks and why, `Ending` lists the seven
  outputs a handled frame can have, and `Remembered` that every station listed meanwhile
  is in `seen`. That no settled client misses a broadcast rests on `clients` being empty
  only when nobody is settled.
- `GateBringUpProofs`: `BringUpOrdered`, `BringUpTyped`. `Progress` says that every step
  `app_main` has behind it succeeded, or failed and is one whose failure it ignores;
  `Armed` that what runs was armed by a step that succeeded. A callback that is armed has
  therefore every checked step before its own behind it.
- `GateArpProofs`: `TypeCorrect`; `OneMappingPerIp`; `PushesFromSnapshot`; `TableIsCache`.
  `UniqueIp` is not inductive: the slot a learning task decided on must still be right when
  it publishes. `LockOwned` (the mutex is held exactly by the task inside its critical
  section) and `ScanStands` (no other slot holds the IP of a task about to publish) make it
  so, and TLC's runs and the proof agree. `TableIsCache` maps a publish to a refresh or an
  insert, expiry and forgetting to a drop, a lookup that hits to an answer, the reply to its
  passing on, the last slot of a scan (with what it ages out) to the begin of a round, the
  push to its end, and every other step to a stutter; that no host is cached under a group
  address is the early return of `gw_arp_learn` (`OnlyLearnable`). The scan goes slot by
  slot and the push comes after the unlock; that a round is of one moment all the same rests
  on `ViewIsSnapshot` (`SeenIsScanned`): while the mutex is held, what the scan has copied
  is what the slots behind its index hold.
- `GateArpProofs`, the clock: `NothingOverdue`, `NewIsAnnounced`, `OnlyStaleExpires`,
  `AnswersAreFresh`, `VictimIsLongestUnheard`. The code compares differences of a wrapping
  clock; the properties speak of true ages. `ClockRead` ties the two (each reading is the
  clock of `lag` ticks ago, each `last_ms` that of `age` ticks ago) and the lemmas on `%`
  show that `Expired` and `Before` decide rightly while ages stay below half a lap, which is
  what `AgesBounded` says: how old a slot can be at each place of the announce round, before
  and behind the index of the scan. `ScanDue` follows a new mapping from its publish over
  the notification to the scan that meets it, for `PromptAnnounce`. `VictimIsOldest` keeps
  the choice of `LearnScan` true until `LearnPublish`. `ClientsPresent` says who may stand
  on the AP side while a departure is handled, for `DepartedForgotten`. Together they are
  `TimeInv`, inductive next to `TableInv`: it is the mutex that keeps a scan out of a learn.
- `T2BenchProofs`: every invariant of the on-air tier, for any suite and any makes by hand.
  `StampTellsCache` says nothing of a flash half done, so `StampInv` follows the flash
  through its places: before a make the cache is gone or agrees with the set wanted, up to
  what was added by hand, and after it it does; `BuiltAsAsked` follows because an image is
  written only then. Its part about the options passed in every make needs no history:
  what `Configured` gives has of them those just asked for, whatever was there.
  `ExactlyOneResult` needs `ResultsInv`: which tests have a result yet, and that in the
  finally the test under way has one exactly when no exception is on its way; and
  `NamesInv`: in the silence a board is left, or waits to be recorded, or is recorded.
  `PassIsEarned` needs `EarnedInv` (what the roles done so far have said),
  `BenchSilent` needs `SilentInv` (each board flashed is still to be silenced, idle, or
  reported), `NodeAccounted` that a teardown is owed only inside a test. `RolesApart`
  rests on the order of the roles that `BenchSuite` states: a named board is taken
  without a look at the boards already taken.
- `TierProofs`: `RailIsKept`, for any number of processes and runs. `RailInv` follows
  the supply through the places of a run: behind the scan nothing is about to open the port
  (`NoneComing`), at the signals whatever has it open or is named by the file is a target,
  and behind them none of it is left (`Found`), so that the `finally` always starts a holder.
- `FixtureProofs`: `FixturesJudge`, for all fourteen programs at once. `ProgramShapes` reads
  off the records what the proof needs of a program, so that there is one lemma per action
  and not one per program. `MeshInv` ties the counters to the history all along
  (`RepliesTold`, `WindowCounted`), because a verdict stands on them at the moment it is
  given and `PassIsThrough` alone says nothing before; `LinksAllowed` is why a reply over
  the line was relayed.
- `FixtureProofs`: `RestartIsShown`, `RestartFailIsFair`. `RestartInv` says at each place of
  the fixture what its readings tell of a restart that is queued, under way or over
  (`CounterTold`, `RepliesCounted`, `ReturnSeen`), and `TrainSwitched` which of the two reads
  of the train's flag can still be stale, from which there is at most one short frame.
- `FixtureProofs`: `OncePinged`. No session twice is inductive; that a quietly recorded peer
  gets one is not. `QuietRecord` says that a record made while the loop slept sees the count
  it started from, `RoundStands` that the count cannot shrink below the round's snapshot
  while such a peer waits, and `QuietKept` that the peer stands in an entry the scan has yet
  to reach and that no record under way overwrites, or has its session.
- `FixtureProofs`: `RawShown`. The layout of a reading and the walk over it take an
  induction over the data. The library's induction theorems cannot be instantiated with a
  formula here, but a set can take its place: `LeastOf` gives a set of naturals its least
  element, and the set of counterexamples has none. In that way `FlattenFcn` and
  `WalkExists` show that the recursive functions behind `FlattenSeq` and `tlv_find` exist
  (the second one downwards: a record that fits moves the walk on), `Layout` where each
  record lies, and `WalkReaches` that the walk comes by every record that arrived whole.
  `FindsFirst` and `FindsNone` are the contract of `tlv_find`, `ReadingShown` that of
  `report_raw_counters`; the invariant over them, `RawInv`, is small.
- `TierProofs`: `NothingIsLost`. `DiskIsMerge` says what the file holds at each step of
  `write`, `MergeKeeps` what `add` may replace, `LossPaid` counts the recorded results absent
  from the history against the kills, with the one owed for a line that is still torn.
- `TierProofs`: `PowerTierFair`. `WindowInTier` and `WordInTier` say where in its ladder the
  board can be while a window is open or the host holds a tier's marker, and `SamplesTold`
  that a sample of another tier got in only if the board restarted, or has no association.
- `TierProofs`: `DeepSleepFair`. `CyclesJoined` counts the cycles claimed (those counted and
  the one pending) against the joins that followed a sleep line, with the lines still in the
  console (`LinesOfOpening`); `WakeAccounted` follows a wake that could not be sent to the
  verdict and `Restored` the trigger's last command to the end of its queue.
- `ImagesProofs`: `RigsKeepWord`, `ImagesTyped`, `RestartFailIsFairHere`. The rigs of
  MCImages share no state, and each step of that run is a step of every rig or leaves it as
  it is (`EachRigSteps`); so the inductive invariants of the rigs carry over and the run's
  invariants hold for all values of the constants, whichever rigs run.

`PassIsEarned`, as the run checks it, includes `RolesApart`, and the theorem cites
`RolesStayApart` for it. Every property of the passing runs that is not a liveness property
is a theorem; each was checked by TLC on the runs' instances before it was proved.

Only model-checked:

- Liveness (`DepartedEventuallyForgotten`, `CrossHostsTaught`, `MeshAddressPinned`,
  `VerdictsCome`), which needs ENABLED.
- The counterexamples of section 6 are TLC's.

## 5. The properties

Each is stated in words above its definition. Those a reviewer would argue about:

- `ExpiryJustified` says exactly when a mapping may be dropped, including the one
  case the comments exclude (section 6). `AnswerFresh` bounds how old an answer is.
- `NoneOverdue`: no mapping outlives the TTL by more than one period and two delays, in
  each lap of the clock, and none outlives its client unless a frame of it was on its
  way. `PromptAnnounce`: a new mapping is met by a scan within three delays, wherever
  the announce task was when the notification came (they collapse into one).
- `ClientServed`: a frame for a client that stays associated is never lost to the
  rearrangement of the table for another one. `RightPorts` includes `BroadcastCrosses`,
  which justifies the unlocked read of `g_ap_client_n`.
- `StartedInOrder`: the lock exists before its first accessor, a wake is dropped only if
  the announce task could not be made, a client's frame meets a netif.
- `NothingLost`: what the files say after any chain of runs, kills and failed writes: the
  baseline accumulates, one that calls itself complete is of a run that reached `finalize`
  and holds all its results merged with those it was seeded from, and the history loses
  one recorded result for each kill inside a line (the one glued to the torn line), no
  more.
- `PassIsEarned`: a recorded PASS was said by every reporter, over supports that came
  up, on boards of their own. `BenchSilent`: a run that ends by itself, interrupted or
  not, leaves each board it flashed idle or reported. Excluded: a killed run, and one in
  which the flash of the idle app timed out, which leaves `run` and the boards after it
  as they are.
- `NodeAccounted`: the Linux node is on the air only while a teardown is owed, or
  `adrift`: after a kill, a failed teardown, or a bring-up that started the daemon,
  failed its check and handed back none (`R/linux_peer.py:158`, `:260`).
- `StampTellsCache`: a stamp beside a cache is the cache's configuration, but for the
  options passed in every make, which do not stay, and for those that a make by hand has
  added, which no stamp can know of; a kill between the two deletions (`cut`) is the only
  other exception. `BuiltAsAsked` follows the image to the board: a destructive fixture is
  never armed unasked, with no exception; another option that was not asked for was put in
  the cache by hand, or a kill was there. So both speak of what earlier flashes of the
  harness leave behind; that a make by hand does reach a test's board is in section 6.
- `PassIsThrough`: a relay's PASS means replies that the middle node forwarded, because
  the allowlists keep the ends from peering and the ttl tells a bridged hop from a
  routed one. `WindowJudged`: the relay answers for its window, not for its uptime.
- `RestartShown`, `RestartFailFair`: a PASS after a forced restart rests on a reply that
  came after the queued event ran, on the gate over the association it restored; a FAIL is
  given only when the rig worked before and the client is still on the books.
  `OneShortFrame`, the other half of `RestartShown`: the off-air scorer, which finds the
  restart by frame length, meets at most one frame of the earlier length after the
  trigger.
- `RawShownIsTold`: no counter is shown that the chip did not report whole, and no absent
  record is shown as a zero. `EachPingedOnce`: a torn `s_npending++` or a peer that ages
  out and returns never gives two sessions, and a peer recorded while the loop slept
  gets one.
- `PowerPassEarned`: a tier that passes was associated and every sample behind it was of
  that very tier, whether the capture was cut, began in the middle of a ladder or saw two;
  it is claimed of samples only when the board did not restart in the run (a restart is
  invisible to the tier, section 6). `PowerLeftQuiet`: the finally pays what the run owes,
  however it was reached, but for a silencing that failed.
- `RailKept`: while a tier drives the supply no holder does, whether the file named it or
  not; and a run of the deep-sleep tier that gets through its teardown leaves a holder,
  whatever files and processes it found. Excluded: a holder that could not be started, died
  or lost its PPK2 afterwards, and a flash that hung (section 6).
- `SleepVerdictFair`: each cycle counted is a join of its own, the first after a sleep line,
  so the boot after the flash is never one and no join counts twice, however the port flaps;
  and the verdict is no FAIL when a wake was due and could not be sent. It does not say that
  the leaf slept, nor that a trigger which died with no wake falling due
  afterwards is noticed (section 6). `TriggerRestored`: see section 1.3. `VerdictsCome`:
  whatever the rig does, each fixture ends with exactly one RESULT line.

## 6. Where the code and its comments disagree

1. `G:266` "forget a host not seen/refreshed within this window". The clock is read
   before the mutex (`G:456`, `G:345`); a mapping refreshed by another task in between is
   newer than `now`, its age wraps, and it is dropped fresh (`FreshKept`, `arp_fresh`).
   The next frame or announce repairs it.
2. `G:162` "stop pushing this client's now-stale IP->MAC mapping". A frame of the
   departed client still in `gw_arp_learn` re-learns it after the forget
   (`DepartedStaysForgotten`, `arp_departed`); it stays until the TTL
   (`DepartedEventuallyForgotten` holds).
3. `R/common.py:241` "without ever falling back to a guessed ttyACM". The second lookup
   of a port may give None, and make then takes the Makefile's default
   (`t2_wrong_board`).
4. `R/t2_onair.py:74` "the next flash must still see no stamp". The cache goes first; a
   kill before the stamp goes leaves a stamp that a later flash believes
   (`t2_stale_build`).
5. `firmware/rimba-halow-ibss/main/app_main.c:118` "just record the peer MAC; the main
   loop starts the ping session". `s_npending = 0` (`:196`) also drops what arrived since
   the loop read the count (`AddedIsPinged`, `ibss_lost`).
6. `R/run.py:409` "accumulate onto the existing TP baseline (e.g. run both AP paths)". The
   results of the power tier are named by the tier alone, and a fresh one replaces a seeded
   one of its name: after both paths only the second is in the baseline, and a FAIL of the
   first is gone (`AppendKeepsBoth`, `power_append`). The history keeps both, under one
   name, which its flake view then calls a flip.

Met while modelling, in the models, without a run of their own:

- `R/t2_onair.py:50` "first clearing its CMake cache if the build config changed since its
  last flash". A make by hand with an option writes no stamp: the next flash whose options
  equal the old stamp keeps the cache and builds with the option. `Makefile:67-75` describes
  this and calls it "not theoretical"; its remedy, a value in every make, covers the two
  options that arm a fixture and no other. `BuiltAsAsked` shows that it does cover these,
  and says of the others where one that was not asked for can come from.
- `R/dscycle.py:391` "observed a deep-sleep gap; the next reconnect proves the wake". A leaf
  that is reset after its sleep line (`test-deepsleep-cycle:45`), before it sleeps (`:62`) or
  in its sleep, boots afresh and joins, and that join is counted as a cycle. The line is also
  called "direct proof of a genuine deep-sleep entry" (`R/dscycle.py:28`).
- `R/common.py:103` "a killed run still leaves a baseline of what completed": `write_text`
  (`:179`) empties the file first, so a kill in between leaves none (Reporter has it).
- `test-ibss:13-16` calls "exactly 1" the phantom check, but the poll stops at the first
  record (`:107`): a phantom that comes later, or comes alone, passes.
- `test-mesh-leaf:20` makes a surviving peering part of the PASS, but the peers are read
  before the ping only (`:205-222`, used at `:249`).
- `test-mesh-relay:19-25` asks for no MIC failures; the verdict tolerates fewer than the
  floor. `test_report.h` reports a missing peer as INCONCLUSIVE; relay, linux and peering
  FAIL. It also asks for exactly one RESULT line; `test-raw-rps` prints none when it
  succeeds, and `test-apsta-ap`, which says that support roles print none (`:98`),
  prints one when it fails (`:92`).
- `test-mesh-relay-nocrash`: the origin may never ping, and the relay passes all the same.
  `test-mesh-gate-linux` counts any gate.
- `test-mesh-ap-gate`: the FAIL "still associated" (`:512-517`) joins two reads (`:477`,
  `:497`); the payload and the length of a broadcast are two reads of a flag (`:393-394`).
- `test-mesh-hwrestart`: `ping_peer` returns 0 when it could not start, as for no reply.
- `R/dscycle.py:603`: a trigger that dies at `hiz()` is forgotten, so the teardown neither
  restores it nor says so (`:634`, `:679` claim the former); `:620` passes on a port it
  has not checked.
- `R/dscycle.py:644-647` "a DUT that was never woken has not failed". The tier learns of a dead
  handle only by writing to it: a trigger that dies while no further wake falls due before
  the budget is spent leaves `c6_lost` empty, and a FAIL stands (`UsbMoves`, then `Verdict`).
- `R/t2_onair.py:276-283`: a board whose flash failed, or timed out, after the image was
  written is not one to silence, against "Always leave the bench silent" (`:139`);
  `BenchSilent` speaks of the flashes that returned success.
- `G:866`: the result of `xTaskCreate` is ignored; a gate without `mesh_net_task` keeps the
  mesh netif without its address (the model lets its creation fail; no property of the
  start-up can hold the code to it).
- `R/tp_power.py:440-450`: the teardown of the ESP AP is owed only once its marker was seen.
  A board that was flashed and stayed silent, or whose capture raised, keeps beaconing after
  a run whose finally says "radio-silence the ESPs, take the AP down" (`EspAp`;
  `PowerLeftQuiet` speaks of what is owed). The Linux AP that misses its deadline is the same
  (`R/linux_peer.py:260`).
- `test-power:194` says that the host marks an unassociated run INCONCLUSIVE. A board that
  restarts inside the capture and fails to associate again prints a second step, and
  `setdefault` (`R/tp_power.py:243`) keeps the first.
- `R/dscycle.py:282` "Kill EXACTLY the process(es) holding the PPK2". `_pidfile_holder`
  (`:262`) takes any live process of the number in the file for the holder: after a kill that
  left the file (`take_over` leaves it, `R/tp_power.py:116`) and once that number is another
  process's, `_free_ppk2` kills a bystander. `take_over` itself kills every process whose
  command line mentions a holder.
- `R/dscycle.py:22` "RESTARTS the holder". In `_recover_board2` the timeout of esptool
  (`:535`) is outside the `try`: it leaves the `finally` before the holder is restarted and
  before the AP is silenced (`PowerOn`; `RailKept` excuses it).
- `R/common.py:185`: `finalize` calls a run complete, also one that was seeded from a
  baseline that is not; the tests the earlier run never reached stay unseen.
- `R/run.py:279` and `:317` leave `flash-interop` without the teardown of a bring-up that
  failed after it started the daemon, or without silencing a board whose flash failed; `:340`
  prints "Bench silent." whatever the idle flash returned.

## 7. What is left, and what is not modelled

Next, in this order:

1. Decision trees as operators: T0's and T1's verdicts, the ledger's summarize and flakes,
   each against a reference definition.
2. `flash-interop` (`R/run.py:258`) as a second client of the Linux peer.

Not modelled, and why:

- The radio stack and ESP-IDF: submodules, absent from the tree. What the programs see of
  them is marked external.
- `test-mesh-gate-ap`: T0 keeps it equal to the gate (`_check_clone_mirrors`); the layer 3
  forwarding of `test-mesh-ap-gate` is lwIP's.
- Support roles without a verdict (`test-mesh-gate`, `-gate-fwd`, `-gate-rx`, `-ap`,
  `-ap-peer`, `test-apsta-ap`), the example and perf apps and `rimba-deepsleep-cycle`: they
  configure the stack and print; they appear as the environment of a rig.
- Capability fixtures (`test-*-cap`, `test-swccmp`): a sequence of vendored calls with one
  outcome each.
- T0 and T1: loops over exit codes, and one grep. T1's flash is in T2Bench, as the other
  tier that shares its build directories.
- The arithmetic of the power tier (medians, percentiles, the bands' numbers) and the PPK2's
  protocol.
- `gw_ap_transmit` and its wrappers (no state between calls), DHCP leases (the server's),
  the capture and decode tools (parsers of finished
  captures), the HTML report, preflight and the ssh commands (I/O; their outcomes are
  choices), frame, IP and log formatting.
