------------------------------- MODULE GateArp -------------------------------
(***************************************************************************)
(* The proxy-ARP table of the mesh gate: g_gw_arp[] of                     *)
(* firmware/rimba-halow-mesh-ap/main/app_main.c, the mutex around it, and  *)
(* its three kinds of accessor:                                            *)
(*                                                                         *)
(*   - the RX tasks (RxTask), which learn a mapping from every frame of    *)
(*     either side and answer ARP requests across the bridge;              *)
(*   - the AP status task (module GateClients), which forgets a departed   *)
(*     client's mappings;                                                  *)
(*   - the announce task, which ages the table out and teaches every host  *)
(*     about every host of the other side, each ANNOUNCE_PERIOD or as soon *)
(*     as it is notified of a new mapping.                                 *)
(*                                                                         *)
(* TIME.  The code's clock is a 32-bit millisecond count, here modulo      *)
(* ClockMod, read into a local before the mutex is taken.  The history     *)
(* variables age (ticks since the reading a slot's last_ms was taken from) *)
(* and lag (ticks since a task read the clock) are true elapsed time; the  *)
(* code sees only the modular difference.  MaxDelay bounds how long a      *)
(* handler or an announce round may take from its clock reading on.        *)
(***************************************************************************)
EXTENDS GateClients, Integers

CONSTANTS
  RxTask,            \* the RX contexts
  Claim,             \* the IP->MAC claims frames carry: [ip, mac, side]
  ZeroIp,            \* 0.0.0.0, the sender of a DHCP discover
  GroupMac,          \* broadcast and multicast addresses
  NoIp,              \* a frame that is not an ARP request asks for no IP
  Wanted,            \* the IPs that ARP requests ask for
  NoTask,
  GW_ARP_MAX,        \* slots of the table
  GW_ARP_TTL,        \* GW_ARP_TTL_MS, in ticks
  ANNOUNCE_PERIOD,   \* the timeout of ulTaskNotifyTake, in ticks
  MaxDelay,          \* the longest handler or round, in ticks
  ClockMod           \* the clock wraps here (2^32 in the code)

AP == "AP"           \* GW_SIDE_AP
MESH == "MESH"       \* GW_SIDE_MESH
Side == {AP, MESH}

Slot == 1 .. GW_ARP_MAX
Ip == {c.ip : c \in Claim}
Mac == {c.mac : c \in Claim}
Ann == "announce"    \* the announce task, as a holder of the mutex

ASSUME ArpClaims ==
  /\ Claim # {}
  /\ \A c \in Claim : /\ c = [ip |-> c.ip, mac |-> c.mac, side |-> c.side]
                      /\ c.side \in Side
                      /\ c.ip # NoIp
                      /\ c.side = AP => c.mac \in ClientMac

ASSUME ArpTasks ==
  /\ NoTask \notin RxTask \cup {Ann}
  /\ Ann \notin RxTask

(* The window of the modular comparisons: an entry that is announced on    *)
(* time never gets old enough to look young again.  No handler takes as    *)
(* long as the TTL, which is five minutes: a frame that was still on its   *)
(* way into the table for longer would be in it past its time.             *)
AgeBound == GW_ARP_TTL + ANNOUNCE_PERIOD + 2 * MaxDelay

ASSUME ArpTiming ==
  /\ GW_ARP_MAX \in Nat \ {0}
  /\ GW_ARP_TTL \in Nat
  /\ ANNOUNCE_PERIOD \in Nat
  /\ MaxDelay \in 0 .. GW_ARP_TTL
  /\ ClockMod \in Nat
  /\ ClockMod \div 2 > AgeBound

VARIABLES
  clock,      \* xTaskGetTickCount() in ms, modulo ClockMod
  arp,        \* g_gw_arp[]
  lock,       \* the task holding g_gw_arp_lock, or NoTask
  rx,         \* per RX task: its place in the handler, frame and locals
  ann,        \* the announce task: its place in the loop and its locals
  notified,   \* the announce task's notification count, as zero or not
  age,        \* history: ticks since each slot's last was read
  pend,       \* history: slots holding a new mapping no scan has yet met
  late        \* history: clients re-learnt from a frame a departure overtook

tableVars == <<arp, lock, age, pend>>    \* the table and what is tied to it
historyVars == <<age, pend, late>>
vars == <<clientVars, clock, arp, lock, rx, ann, notified, historyVars>>

(* The fields of a slot not in use, and the locals of a handler that is    *)
(* not running, are never read: the model does not keep them.              *)
NoClaim == [ip |-> NoIp, mac |-> NoMac, side |-> AP]
Vacant == [used |-> FALSE, claim |-> NoClaim, last |-> 0]
RxIdle == [pc |-> "idle", claim |-> NoClaim, want |-> NoIp, now |-> 0,
           lag |-> 0, slot |-> 1, isNew |-> FALSE, answer |-> NoClaim]
AnnWait == [pc |-> "wait", wait |-> ANNOUNCE_PERIOD, now |-> 0, lag |-> 0,
            idx |-> 1, view |-> {}]

\* The table and its ages after the slots in `gone` are marked unused.
Freed(gone) ==
  /\ arp' = [s \in Slot |-> IF s \in gone THEN Vacant ELSE arp[s]]
  /\ age' = [s \in Slot |-> IF s \in gone THEN 0 ELSE age[s]]
  /\ pend' = pend \ gone

-----------------------------------------------------------------------------
(* Time                                                                    *)

\* Slips a change to the age check could make; the mutants use them.
ExpiredNever(now, e) == FALSE
ExpiredInclusive(now, e) == (now - e.last) % ClockMod >= GW_ARP_TTL

\* (uint32_t)(now - last) > GW_ARP_TTL_MS
Expired(now, e) == (now - e.last) % ClockMod > GW_ARP_TTL

\* Slip: the operands swapped.
BeforeSwapped(a, b) == (b - a) % ClockMod >= ClockMod \div 2

\* (int32_t)(a - b) < 0 : a lies in the half of the clock behind b
Before(a, b) == (a - b) % ClockMod >= ClockMod \div 2

(* A task that can run does so within MaxDelay: the clock does not outrun  *)
(* a handler, a round, or an announce task whose wait is over.             *)
OnTime ==
  /\ \A t \in RxTask : rx[t].pc # "idle" => rx[t].lag < MaxDelay
  /\ IF ann.pc = "wait" THEN ann.wait > 0 /\ ~notified
                        ELSE ann.lag < MaxDelay

\* age stops counting once it is out of every bound the properties compare with.
Older(n) == IF n <= AgeBound THEN n + 1 ELSE n

Tick ==
  /\ OnTime
  /\ clock' = (clock + 1) % ClockMod
  /\ age' = [s \in Slot |-> IF arp[s].used THEN Older(age[s]) ELSE age[s]]
  /\ rx' = [t \in RxTask |->
              IF rx[t].pc = "idle" THEN rx[t]
                                   ELSE [rx[t] EXCEPT !.lag = @ + 1]]
  /\ ann' = IF ann.pc = "wait" THEN [ann EXCEPT !.wait = @ - 1]
                               ELSE [ann EXCEPT !.lag = @ + 1]
  /\ UNCHANGED <<clientVars, arp, lock, notified, pend, late>>

-----------------------------------------------------------------------------
(* RX: one frame from claim c, asking for IP `want` when it is an ARP      *)
(* request.  A frame reaches the callback only while its sender is there:  *)
(* an AP client must be admitted when its frame arrives.                   *)

\* Slip: a group address is learnt as a host's.
LearnableGroup(c) == c.ip # ZeroIp

Learnable(c) == c.ip # ZeroIp /\ c.mac \notin GroupMac

RxFrame(t, c, want) ==
  /\ rx[t].pc = "idle"
  /\ c.side = AP => c.mac \in assoc
  /\ rx' = [rx EXCEPT ![t] =
              [RxIdle EXCEPT !.pc = IF Learnable(c) THEN "learn" ELSE "proxy",
                             !.claim = c, !.want = want, !.now = clock]]
  /\ UNCHANGED <<clientVars, clock, tableVars, ann, notified, late>>

(* gw_arp_learn, under the mutex: the scan stops at the slot that already  *)
(* holds the IP, and otherwise settles on the first free slot, else on the *)
(* least recently used one.                                                *)
Holds(s, ip) == arp[s].used /\ arp[s].claim.ip = ip

IsHit(s, ip) == Holds(s, ip) /\ \A r \in 1 .. s - 1 : ~Holds(r, ip)

IsFree(s) == ~arp[s].used /\ \A r \in 1 .. s - 1 : arp[r].used

IsLru(s) ==
  /\ \A r \in 1 .. s - 1 : Before(arp[s].last, arp[r].last)
  /\ \A r \in s + 1 .. GW_ARP_MAX : ~Before(arp[r].last, arp[s].last)

\* Slip: a free slot taken before the whole table was searched for the IP.
ChosenFreeFirst(s, ip) ==
  IF \E r \in Slot : ~arp[r].used THEN IsFree(s)
  ELSE IF \E r \in Slot : Holds(r, ip) THEN IsHit(s, ip)
  ELSE IsLru(s)

Chosen(s, ip) ==
  IF \E r \in Slot : Holds(r, ip) THEN IsHit(s, ip)
  ELSE IF \E r \in Slot : ~arp[r].used THEN IsFree(s)
  ELSE IsLru(s)

\* Slip: the table scanned without the mutex.
LearnScanUnlocked(t) ==
  /\ rx[t].pc = "learn"
  /\ \E s \in Slot :
       /\ Chosen(s, rx[t].claim.ip)
       /\ rx' = [rx EXCEPT ![t].pc = "publish", ![t].slot = s,
                           ![t].isNew = ~Holds(s, rx[t].claim.ip)]
  /\ UNCHANGED <<clientVars, clock, arp, lock, ann, notified, historyVars>>

LearnScan(t) ==
  /\ rx[t].pc = "learn"
  /\ lock = NoTask
  /\ lock' = t
  /\ \E s \in Slot :
       /\ Chosen(s, rx[t].claim.ip)
       /\ rx' = [rx EXCEPT ![t].pc = "publish", ![t].slot = s,
                           ![t].isNew = ~Holds(s, rx[t].claim.ip)]
  /\ UNCHANGED <<clientVars, clock, arp, ann, notified, historyVars>>

LearnPublish(t) ==
  LET s == rx[t].slot IN
  /\ rx[t].pc = "publish"
  /\ arp' = [arp EXCEPT ![s] = [used |-> TRUE, claim |-> rx[t].claim,
                                last |-> rx[t].now]]
  /\ age' = [age EXCEPT ![s] = rx[t].lag]
  /\ pend' = IF rx[t].isNew THEN pend \cup {s} ELSE pend
  /\ lock' = NoTask
  /\ rx' = [rx EXCEPT ![t].pc = "proxy"]
  /\ UNCHANGED <<clientVars, clock, ann, notified, late>>

(* After the mutex is released: a new mapping wakes the announce task.     *)
(* Then gw_proxy_arp: a frame that asks for no IP is done here, an ARP     *)
(* request goes on to gw_arp_lookup, which reads the clock first.          *)
LearnDone(t) ==
  /\ rx[t].pc = "proxy"
  /\ notified' = (notified \/ rx[t].isNew)
  /\ rx' = [rx EXCEPT ![t] =
              IF rx[t].want = NoIp THEN RxIdle
              ELSE [@ EXCEPT !.pc = "lookup", !.now = clock, !.lag = 0]]
  /\ UNCHANGED <<clientVars, clock, tableVars, ann, late>>

(* gw_arp_lookup: an expired mapping is dropped and not answered; one on   *)
(* the requester's own side is not answered either.                        *)
\* Slip: the sides not compared.
AnySide(t, s) == TRUE

OtherSide(t, s) == arp[s].claim.side # rx[t].claim.side

Lookup(t) ==
  LET ip  == rx[t].want
      hit == {s \in Slot : IsHit(s, ip)}
      old == {s \in hit : Expired(rx[t].now, arp[s])}
      ans == {s \in hit \ old : OtherSide(t, s)}
  IN
  /\ rx[t].pc = "lookup"
  /\ lock = NoTask
  /\ Freed(old)
  /\ \/ /\ ans = {}
        /\ rx' = [rx EXCEPT ![t] = RxIdle]
     \/ \E s \in ans :
          rx' = [rx EXCEPT ![t].pc = "reply", ![t].answer = arp[s].claim]
  /\ UNCHANGED <<clientVars, clock, lock, ann, notified, late>>

\* The reply carries the host's real MAC, over the requester's own link.
Reply(t) ==
  /\ rx[t].pc = "reply"
  /\ rx' = [rx EXCEPT ![t] = RxIdle]
  /\ UNCHANGED <<clientVars, clock, tableVars, ann, notified, late>>

-----------------------------------------------------------------------------
(* The AP status task: gw_arp_forget_mac, whatever side the mapping is on. *)

InFlight(m) ==
  \E t \in RxTask : /\ rx[t].pc \in {"learn", "publish"}
                    /\ rx[t].claim.side = AP
                    /\ rx[t].claim.mac = m

\* Slip: a mutex that is busy is not waited for.
ForgetNoWait ==
  LET gone == {s \in Slot : /\ lock = NoTask
                            /\ arp[s].used
                            /\ arp[s].claim.mac = sta.mac} IN
  /\ StaForgotten
  /\ Freed(gone)
  /\ late' = IF InFlight(sta.mac) THEN late \cup {sta.mac} ELSE late
  /\ UNCHANGED <<clock, lock, rx, ann, notified>>

Forget ==
  LET gone == {s \in Slot : arp[s].used /\ arp[s].claim.mac = sta.mac} IN
  /\ lock = NoTask
  /\ StaForgotten
  /\ Freed(gone)
  /\ late' = IF InFlight(sta.mac) THEN late \cup {sta.mac} ELSE late
  /\ UNCHANGED <<clock, lock, rx, ann, notified>>

Report ==
  /\ \E m \in ClientMac :
       \/ ReportAuthorized(m) /\ late' = late \ {m}
       \/ ReportUnknown(m) /\ late' = late
  /\ UNCHANGED <<clock, tableVars, rx, ann, notified>>

StaStatus ==
  /\ StaStep
  /\ UNCHANGED <<clock, arp, lock, rx, ann, notified, historyVars>>

-----------------------------------------------------------------------------
(* The announce task.  The wait ends on a notification, which it clears,   *)
(* or on the timeout; the clock is read; the mutex is held for the whole   *)
(* scan, which ages the table out and copies it into the view; the pushes  *)
(* are then made from the view, without the mutex.                         *)

AnnounceWake ==
  /\ ann.pc = "wait"
  /\ notified \/ ann.wait = 0
  /\ notified' = FALSE
  /\ ann' = [ann EXCEPT !.pc = "lock", !.now = clock, !.lag = 0]
  /\ UNCHANGED <<clientVars, clock, tableVars, rx, late>>

\* Slip: the table copied without the mutex.
AnnounceUnlocked ==
  /\ ann.pc = "lock"
  /\ ann' = [ann EXCEPT !.pc = "scan", !.idx = 1, !.view = {}]
  /\ UNCHANGED <<clientVars, clock, arp, lock, rx, notified, historyVars>>

AnnounceLock ==
  /\ ann.pc = "lock"
  /\ lock = NoTask
  /\ lock' = Ann
  /\ ann' = [ann EXCEPT !.pc = "scan", !.idx = 1, !.view = {}]
  /\ UNCHANGED <<clientVars, clock, arp, rx, notified, historyVars>>

\* Slips: one slot too few, one too many.
LastButOne(s) == s = GW_ARP_MAX - 1
LastPlusOne(s) == s = GW_ARP_MAX + 1

LastSlot(s) == s = GW_ARP_MAX

AnnounceScan ==
  LET s    == ann.idx
      old  == arp[s].used /\ Expired(ann.now, arp[s])
      seen == IF arp[s].used /\ ~old THEN ann.view \cup {arp[s].claim}
                                     ELSE ann.view
  IN
  /\ ann.pc = "scan"
  /\ arp' = IF old THEN [arp EXCEPT ![s] = Vacant] ELSE arp
  /\ age' = IF old THEN [age EXCEPT ![s] = 0] ELSE age
  /\ pend' = pend \ {s}
  /\ IF LastSlot(s)
       THEN /\ lock' = NoTask
            /\ ann' = [ann EXCEPT !.pc = "push", !.view = seen]
       ELSE /\ lock' = lock
            /\ ann' = [ann EXCEPT !.idx = s + 1, !.view = seen]
  /\ UNCHANGED <<clientVars, clock, rx, notified, late>>

(* The pushes, one unicast per pair of the view that faces across the      *)
(* bridge, read and write nothing shared: they are over when the task goes *)
(* back to its wait, and lag counts the time they take.                    *)
\* Slip: the notification cleared at the end of the round.
AnnouncePushClears ==
  /\ ann.pc = "push"
  /\ ann' = AnnWait
  /\ notified' = FALSE
  /\ UNCHANGED <<clientVars, clock, tableVars, rx, late>>

AnnouncePush ==
  /\ ann.pc = "push"
  /\ ann' = AnnWait
  /\ UNCHANGED <<clientVars, clock, tableVars, rx, notified, late>>

-----------------------------------------------------------------------------
RxStep(t) ==
  LearnScan(t) \/ LearnPublish(t) \/ LearnDone(t) \/ Lookup(t) \/ Reply(t)

AnnounceStep ==
  AnnounceWake \/ AnnounceLock \/ AnnounceScan \/ AnnouncePush

Init ==
  /\ ClientsInit
  /\ clock = 0
  /\ lock = NoTask
  /\ arp = [s \in Slot |-> Vacant]
  /\ rx = [t \in RxTask |-> RxIdle]
  /\ ann = AnnWait
  /\ notified = FALSE
  /\ age = [s \in Slot |-> 0]
  /\ pend = {}
  /\ late = {}

Next ==
  \/ Tick
  \/ \E t \in RxTask, c \in Claim, want \in Wanted \cup {NoIp} : RxFrame(t, c, want)
  \/ \E t \in RxTask : RxStep(t)
  \/ Report \/ StaStatus \/ Forget
  \/ AnnounceStep

Spec == Init /\ [][Next]_vars

(* Time passes; every task that can run does; and a task that waits for    *)
(* the mutex gets it, FreeRTOS handing it to its waiters.                  *)
Fairness ==
  /\ SF_vars(Tick)
  /\ \A t \in RxTask : SF_vars(RxStep(t))
  /\ WF_vars(StaStatus) /\ SF_vars(Forget)
  /\ SF_vars(AnnounceStep)

FairSpec == Spec /\ Fairness

-----------------------------------------------------------------------------
Used == {s \in Slot : arp[s].used}

RxPc == {"idle", "learn", "publish", "proxy", "lookup", "reply"}
AnyClaim == Claim \cup {NoClaim}

Entry == [used : BOOLEAN, claim : AnyClaim, last : 0 .. ClockMod - 1]

RxLocals == [pc : RxPc, claim : AnyClaim, want : Wanted \cup {NoIp},
             now : 0 .. ClockMod - 1, lag : Nat, slot : Slot,
             isNew : BOOLEAN, answer : AnyClaim]

AnnLocals == [pc : {"wait", "lock", "scan", "push"}, wait : Nat,
              now : 0 .. ClockMod - 1, lag : Nat, idx : Slot,
              view : SUBSET Claim]

\* The types of the table, of the tasks' locals and of the history.
ArpTypeOK ==
  /\ clock \in 0 .. ClockMod - 1
  /\ arp \in [Slot -> Entry]
  /\ \A s \in Slot : arp[s].used => arp[s].claim \in Claim
  /\ lock \in RxTask \cup {Ann, NoTask}
  /\ rx \in [RxTask -> RxLocals]
  /\ \A t \in RxTask : rx[t].pc # "idle" => rx[t].claim \in Claim
  /\ ann \in AnnLocals
  /\ notified \in BOOLEAN
  /\ age \in [Slot -> Nat]
  /\ pend \subseteq Slot

(* Two accessors never leave the table with two mappings of one IP: the    *)
(* scan for the IP and the insertion it decides on are one critical        *)
(* section (gw_arp_learn), whoever else is learning, ageing or forgetting. *)
UniqueIp ==
  \A r, s \in Used : arp[r].claim.ip = arp[s].claim.ip => r = s

(* What UniqueIp rests on: the mutex is held exactly by the task inside    *)
(* its critical section, and what a learning task found out about the      *)
(* table still stands when it publishes.                                   *)
LockOwned ==
  /\ \A t \in RxTask : rx[t].pc = "publish" <=> lock = t
  /\ ann.pc = "scan" <=> lock = Ann

ScanStands ==
  \A t \in RxTask : rx[t].pc = "publish" =>
    \A s \in Slot : s # rx[t].slot => ~Holds(s, rx[t].claim.ip)

(* "The announce loop ... could teach a host an IP->MAC pair that never    *)
(* coexisted": while the scan runs, what it has copied is what the slots   *)
(* behind it hold, and the view it pushes from has one claim per IP.       *)
ViewIsSnapshot ==
  /\ ann.pc = "scan" =>
       ann.view = {arp[s].claim : s \in {r \in Used : r < ann.idx}}
  /\ \A v, w \in ann.view : v.ip = w.ip => v = w

(* A mapping outlives its last refresh by the TTL, one announce period and *)
(* two delays at most, which keeps it inside the window in which the       *)
(* 32-bit difference of two clock readings is the true one.                *)
NoImmortalEntry ==
  \A s \in Used : /\ age[s] <= AgeBound
                  /\ arp[s].last = (clock - age[s]) % ClockMod

(* "A NEW mapping: push it now, do not wait for the period": a mapping is  *)
(* met by an announce scan within three delays of being heard, wherever    *)
(* the announce task was in its round when the notification came.          *)
PromptAnnounce == \A s \in pend : age[s] <= 3 * MaxDelay

(* A departed client's mapping is gone once its departure is handled, the  *)
(* exception being a frame that was already in gw_arp_learn by then.       *)
DepartedForgotten ==
  sta.pc = "idle" =>
    \A s \in Used : arp[s].claim.side = AP =>
                       arp[s].claim.mac \in assoc \cup late

(* No mapping stays past its time: aged out in every lap of the clock, and *)
(* gone with its client.                                                   *)
NoneOverdue == NoImmortalEntry /\ DepartedForgotten

(* gw_arp_lookup and the age-out drop a mapping only when its last frame   *)
(* is older than the TTL, or newer than the clock reading the dropping     *)
(* task made before it got the mutex (see FreshKept).                      *)
Dropped(s) == arp[s].used /\ ~arp'[s].used /\ sta' = sta

ExpiryJustified ==
  [][\A s \in Slot : Dropped(s) =>
       \/ age[s] > GW_ARP_TTL
       \/ ann.pc = "scan" /\ age[s] < ann.lag
       \/ \E t \in RxTask : rx[t].pc = "lookup" /\ age[s] < rx[t].lag]_vars

(* An ARP request is answered only with a mapping the table holds on the   *)
(* other side, heard within the TTL of the moment the request came.        *)
AnswerFresh ==
  [][\A t \in RxTask : rx[t].pc = "lookup" /\ rx'[t].pc = "reply" =>
       \E s \in Used : /\ arp[s].claim = rx'[t].answer
                       /\ arp[s].claim.ip = rx[t].want
                       /\ arp[s].claim.side # rx[t].claim.side
                       /\ age[s] <= GW_ARP_TTL + rx[t].lag]_vars

(* A mapping is evicted only from a full table, and only the one unheard   *)
(* for longest, also when the clock wraps between two refreshes.           *)
EvictsOldest ==
  [][\A s \in Slot :
       arp[s].used /\ arp'[s].used /\ arp[s].claim.ip # arp'[s].claim.ip =>
         Used = Slot /\ \A r \in Slot : age[r] <= age[s]]_vars

(* The locked table behaves as the atomic cache of module ArpCache: what   *)
(* it holds is learnt and dropped in single steps, and is never 0.0.0.0's  *)
(* or a group address's; what gw_proxy_arp tells a requester is a mapping  *)
(* held when the lookup was made, and what an announce round pushes was    *)
(* all held at one moment.                                                 *)
Known == {arp[s].claim : s \in Used}

Asked(t) == [ip |-> rx[t].want, side |-> rx[t].claim.side]

Told == [t \in RxTask |->
           IF rx[t].pc = "reply" THEN {[question |-> Asked(t), claim |-> rx[t].answer]}
                                 ELSE {}]

Taught == IF ann.pc = "push" THEN ann.view ELSE {}

HostClaim == {c \in Claim : c.ip # ZeroIp /\ c.mac \notin GroupMac}

Cache == INSTANCE ArpCache
           WITH Claim <- HostClaim, Caller <- RxTask, Question <- [ip : Wanted, side : Side],
                known <- Known, told <- Told, taught <- Taught

ImplementsCache == Cache!Spec

(* A departed client that stays away is out of the table in the end, even  *)
(* when a late frame brought it back.                                      *)
DepartedEventuallyForgotten ==
  \A m \in ClientMac :
    m \notin assoc ~>
      \/ m \in assoc
      \/ \A s \in Used : arp[s].claim.side = AP => arp[s].claim.mac # m

(* Two hosts on different sides that the table keeps knowing end up in one *)
(* round's pushes, which teach each of them the other.                     *)
CrossHostsTaught ==
  \A c, d \in Claim :
    c.side # d.side =>
      ({c, d} \subseteq Known ~>
         \/ ~({c, d} \subseteq Known)
         \/ ann.pc = "push" /\ {c, d} \subseteq ann.view)

(* GW_ARP_TTL_MS: "forget a host not seen/refreshed within this window":   *)
(* a host that was heard within it is kept.                                *)
FreshKept ==
  [][\A s \in Slot : Dropped(s) => age[s] > GW_ARP_TTL]_vars

(* ap_sta_status_cb: "stop pushing this client's now-stale IP->MAC         *)
(* mapping": once it has returned, no AP mapping of the client is left.    *)
DepartedStaysForgotten ==
  sta.pc = "idle" =>
    \A s \in Used : arp[s].claim.side = AP => arp[s].claim.mac \in assoc

=============================================================================
