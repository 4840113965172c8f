---------------------------- MODULE GateArpProofs ----------------------------
(***************************************************************************)
(* What the mutex around the proxy-ARP table buys, and what the table's    *)
(* clock arithmetic and the announce task's rounds are worth, for any      *)
(* number of RX tasks, slots, hosts and clients and for any timing that    *)
(* satisfies ArpTiming.                                                    *)
(***************************************************************************)
EXTENDS GateArp, TLAPS

LEMMA ModRange ==
  ASSUME NEW k \in Int, NEW n \in Nat, n > 0
  PROVE  k % n \in 0 .. n - 1
BY SMT

LEMMA ConstantTypes ==
  /\ ClockMod \in Nat /\ ClockMod > 0 /\ 0 \in 0 .. ClockMod - 1
  /\ ANNOUNCE_PERIOD \in Nat
  /\ 1 \in Slot
  /\ \A s \in Slot : s \in Nat /\ s >= 1 /\ s <= GW_ARP_MAX
BY ArpTiming, SMT DEF AgeBound, Slot

LEMMA RestTypes ==
  /\ NoClaim \in AnyClaim
  /\ Vacant \in Entry /\ ~Vacant.used
  /\ RxIdle \in RxLocals /\ RxIdle.pc = "idle"
  /\ AnnWait \in AnnLocals
<1>1. NoClaim \in AnyClaim
  BY DEF AnyClaim
<1>2. Vacant \in Entry /\ ~Vacant.used
  BY <1>1, ConstantTypes DEF Vacant, Entry
<1>3. RxIdle \in RxLocals /\ RxIdle.pc = "idle"
  BY <1>1, ConstantTypes DEF RxIdle, RxLocals, RxPc
<1>4. AnnWait \in AnnLocals
  BY ConstantTypes DEF AnnWait, AnnLocals
<1> QED BY <1>1, <1>2, <1>3, <1>4

LEMMA TypeInit == Init => ArpTypeOK
<1> SUFFICES ASSUME Init PROVE ArpTypeOK
  OBVIOUS
<1>1. arp \in [Slot -> Entry] /\ \A s \in Slot : ~arp[s].used
  BY RestTypes DEF Init
<1>2. rx \in [RxTask -> RxLocals] /\ \A t \in RxTask : rx[t].pc = "idle"
  BY RestTypes DEF Init
<1>3. age \in [Slot -> Nat]
  BY DEF Init
<1> QED BY <1>1, <1>2, <1>3, ConstantTypes, RestTypes DEF Init, ArpTypeOK

(* Freeing slots keeps the table, the ages and the history well typed.     *)
LEMMA FreedType ==
  ASSUME ArpTypeOK, NEW gone, Freed(gone)
  PROVE  /\ arp' \in [Slot -> Entry]
         /\ \A s \in Slot : arp'[s].used => arp'[s].claim \in Claim
         /\ age' \in [Slot -> Nat]
         /\ pend' \subseteq Slot
BY RestTypes DEF Freed, ArpTypeOK

THEOREM TypeCorrect == Spec => []ArpTypeOK
<1>1. ArpTypeOK /\ [Next]_vars => ArpTypeOK'
  <2> SUFFICES ASSUME ArpTypeOK, [Next]_vars PROVE ArpTypeOK'
    OBVIOUS
  <2> USE ConstantTypes, RestTypes
  <2>1. CASE Tick
    <3>1. clock' \in 0 .. ClockMod - 1
      BY <2>1, ModRange DEF Tick, ArpTypeOK
    <3>2. age' \in [Slot -> Nat]
      BY <2>1 DEF Tick, Older, ArpTypeOK
    <3>3. ASSUME NEW t \in RxTask
          PROVE  /\ rx'[t] \in RxLocals
                 /\ rx'[t].pc = rx[t].pc
                 /\ rx'[t].claim = rx[t].claim
      <4>1. rx[t] \in RxLocals
        BY DEF ArpTypeOK
      <4>2. rx'[t] = rx[t] \/ rx'[t] = [rx[t] EXCEPT !.lag = @ + 1]
        BY <2>1 DEF Tick
      <4> QED BY <4>1, <4>2 DEF RxLocals
    <3>4. rx' \in [RxTask -> RxLocals]
      BY <2>1, <3>3 DEF Tick
    <3>5. ann' \in AnnLocals
      BY <2>1 DEF Tick, OnTime, ArpTypeOK, AnnLocals
    <3> QED BY <2>1, <3>1, <3>2, <3>3, <3>4, <3>5 DEF Tick, ArpTypeOK
  <2>2. ASSUME NEW t \in RxTask, NEW c \in Claim,
               NEW want \in Wanted \cup {NoIp}, RxFrame(t, c, want)
        PROVE  ArpTypeOK'
    <3>1. rx'[t] \in RxLocals /\ rx'[t].claim \in Claim
      BY <2>2 DEF RxFrame, ArpTypeOK, RxLocals, RxPc, AnyClaim, RxIdle
    <3> QED BY <2>2, <3>1 DEF RxFrame, ArpTypeOK, tableVars
  <2>3. ASSUME NEW t \in RxTask, LearnScan(t)
        PROVE  ArpTypeOK'
    <3>1. rx'[t] \in RxLocals /\ rx'[t].claim \in Claim
      <4>1. PICK s \in Slot :
              rx'[t] = [rx[t] EXCEPT !.pc = "publish", !.slot = s,
                                     !.isNew = ~Holds(s, rx[t].claim.ip)]
        BY <2>3 DEF LearnScan, ArpTypeOK
      <4> DEFINE new == ~Holds(s, rx[t].claim.ip)
      <4>2. new \in BOOLEAN
        OBVIOUS
      <4>3. rx'[t] = [rx[t] EXCEPT !.pc = "publish", !.slot = s, !.isNew = new]
        BY <4>1
      <4>4. rx[t] \in RxLocals /\ rx[t].claim \in Claim
        BY <2>3 DEF LearnScan, ArpTypeOK
      <4> HIDE DEF new
      <4> QED BY <4>2, <4>3, <4>4 DEF RxLocals, RxPc
    <3> QED BY <2>3, <3>1 DEF LearnScan, ArpTypeOK, historyVars
  <2>4. ASSUME NEW t \in RxTask, LearnPublish(t)
        PROVE  ArpTypeOK'
    <3>1. rx'[t] \in RxLocals /\ rx'[t].claim \in Claim
      BY <2>4 DEF LearnPublish, ArpTypeOK, RxLocals, RxPc
    <3>2. arp'[rx[t].slot] \in Entry /\ arp'[rx[t].slot].claim \in Claim
      BY <2>4 DEF LearnPublish, ArpTypeOK, RxLocals, Entry, AnyClaim
    <3>3. age' \in [Slot -> Nat] /\ pend' \subseteq Slot
      BY <2>4 DEF LearnPublish, ArpTypeOK, RxLocals
    <3> QED BY <2>4, <3>1, <3>2, <3>3 DEF LearnPublish, ArpTypeOK
  <2>5. ASSUME NEW t \in RxTask, LearnDone(t)
        PROVE  ArpTypeOK'
    <3>1. rx'[t] \in RxLocals /\ (rx'[t].pc # "idle" => rx'[t].claim \in Claim)
      BY <2>5 DEF LearnDone, ArpTypeOK, RxLocals, RxPc
    <3>2. notified' \in BOOLEAN
      BY <2>5 DEF LearnDone, ArpTypeOK, RxLocals
    <3> QED BY <2>5, <3>1, <3>2 DEF LearnDone, ArpTypeOK, tableVars
  <2>6. ASSUME NEW t \in RxTask, Lookup(t)
        PROVE  ArpTypeOK'
    <3>1. PICK gone : Freed(gone)
      BY <2>6 DEF Lookup
    <3>2. rx'[t] \in RxLocals /\ (rx'[t].pc # "idle" => rx'[t].claim \in Claim)
      BY <2>6 DEF Lookup, ArpTypeOK, RxLocals, RxPc, Entry
    <3> QED BY <2>6, <3>1, <3>2, FreedType DEF Lookup, ArpTypeOK
  <2>7. ASSUME NEW t \in RxTask, Reply(t)
        PROVE  ArpTypeOK'
    BY <2>7 DEF Reply, ArpTypeOK, tableVars
  <2>8. CASE Report
    BY <2>8 DEF Report, ArpTypeOK, tableVars
  <2>9. CASE StaStatus
    BY <2>9 DEF StaStatus, ArpTypeOK, historyVars
  <2>10. CASE Forget
    <3>1. PICK gone : Freed(gone)
      BY <2>10 DEF Forget
    <3> QED BY <2>10, <3>1, FreedType DEF Forget, ArpTypeOK
  <2>11. CASE AnnounceWake
    BY <2>11 DEF AnnounceWake, ArpTypeOK, AnnLocals, tableVars
  <2>12. CASE AnnounceLock
    BY <2>12 DEF AnnounceLock, ArpTypeOK, AnnLocals, historyVars
  <2>13. CASE AnnounceScan
    <3> DEFINE s == ann.idx
    <3>1. s \in Slot
      BY DEF ArpTypeOK, AnnLocals
    <3>2. /\ arp' \in [Slot -> Entry] /\ age' \in [Slot -> Nat]
          /\ \A r \in Slot : arp'[r].used => arp'[r].claim \in Claim
      BY <2>13, <3>1 DEF AnnounceScan, ArpTypeOK
    <3>3. PICK seen \in SUBSET Claim :
            ann' = IF LastSlot(s)
                     THEN [ann EXCEPT !.pc = "push", !.view = seen]
                     ELSE [ann EXCEPT !.idx = s + 1, !.view = seen]
      <4> DEFINE seen == IF arp[s].used /\ ~Expired(ann.now, arp[s])
                           THEN ann.view \cup {arp[s].claim} ELSE ann.view
      <4>1. seen \in SUBSET Claim
        BY <3>1 DEF ArpTypeOK, AnnLocals
      <4> QED BY <2>13, <4>1 DEF AnnounceScan
    <3>4. ~LastSlot(s) => s + 1 \in Slot
      BY <3>1, ArpTiming DEF LastSlot, Slot
    <3>5. ann' \in AnnLocals
      BY <3>1, <3>3, <3>4 DEF ArpTypeOK, AnnLocals
    <3> QED BY <2>13, <3>2, <3>5 DEF AnnounceScan, ArpTypeOK
  <2>14. CASE AnnouncePush
    BY <2>14 DEF AnnouncePush, ArpTypeOK, tableVars
  <2>15. CASE UNCHANGED vars
    BY <2>15 DEF vars, historyVars, ArpTypeOK
  <2> QED BY <2>1, <2>2, <2>3, <2>4, <2>5, <2>6, <2>7, <2>8, <2>9, <2>10,
             <2>11, <2>12, <2>13, <2>14, <2>15
          DEF Next, RxStep, AnnounceStep
<1> QED BY TypeInit, <1>1, PTL DEF Spec

-----------------------------------------------------------------------------
(* The mutex.  LockOwned makes the critical sections exclude each other,   *)
(* so what gw_arp_learn's scan found still holds when it publishes         *)
(* (ScanStands), which is what keeps the IPs of the table apart.           *)
TableInv == ArpTypeOK /\ LockOwned /\ ScanStands /\ UniqueIp

(* A step by which slots only fall out of use.                             *)
Shrinks ==
  \A s \in Slot : arp'[s].used => arp[s].used /\ arp'[s].claim = arp[s].claim

\* A step that leaves every RX task's critical section as it was.
KeepsPublishers ==
  \A t \in RxTask : rx'[t].pc = "publish" =>
    /\ rx[t].pc = "publish"
    /\ rx'[t].slot = rx[t].slot
    /\ rx'[t].claim = rx[t].claim

LEMMA ShrinkKeeps ==
  ASSUME TableInv, Shrinks, KeepsPublishers
  PROVE  ScanStands' /\ UniqueIp'
<1>1. ScanStands'
  BY DEF TableInv, ScanStands, Shrinks, KeepsPublishers, Holds
<1>2. UniqueIp'
  BY DEF TableInv, UniqueIp, Shrinks, Used
<1> QED BY <1>1, <1>2

LEMMA FreedShrinks ==
  ASSUME NEW gone, Freed(gone)
  PROVE  Shrinks
BY RestTypes DEF Freed, Shrinks

LEMMA TableInit == Init => LockOwned /\ ScanStands /\ UniqueIp
BY ArpTasks, RestTypes
DEF Init, LockOwned, ScanStands, UniqueIp, Used, Vacant, RxIdle, AnnWait, Ann

LEMMA TableStep == TableInv /\ ArpTypeOK' /\ [Next]_vars => TableInv'
<1> SUFFICES ASSUME TableInv, ArpTypeOK', [Next]_vars
             PROVE  LockOwned' /\ ScanStands' /\ UniqueIp'
  BY DEF TableInv
<1> USE ArpTasks
<1>0. /\ arp \in [Slot -> Entry] /\ rx \in [RxTask -> RxLocals]
      /\ ann \in AnnLocals /\ LockOwned /\ ScanStands /\ UniqueIp
  BY DEF TableInv, ArpTypeOK
<1>1. CASE Tick
  <2>1. \A t \in RxTask : /\ rx'[t].pc = rx[t].pc
                          /\ rx'[t].slot = rx[t].slot
                          /\ rx'[t].claim = rx[t].claim
    BY <1>0, <1>1 DEF Tick, RxLocals
  <2>2. ann'.pc = ann.pc /\ lock' = lock /\ arp' = arp
    BY <1>0, <1>1 DEF Tick, AnnLocals
  <2>3. LockOwned'
    BY <1>0, <2>1, <2>2 DEF LockOwned
  <2> QED BY <2>1, <2>2, <2>3, ShrinkKeeps DEF Shrinks, KeepsPublishers
<1>2. ASSUME NEW t \in RxTask, NEW c \in Claim, NEW want, RxFrame(t, c, want)
      PROVE  LockOwned' /\ ScanStands' /\ UniqueIp'
  <2>1. /\ rx[t].pc = "idle" /\ rx'[t].pc \in {"learn", "proxy"}
        /\ \A u \in RxTask \ {t} : rx'[u] = rx[u]
    BY <1>0, <1>2 DEF RxFrame, RxIdle
  <2>2. arp' = arp /\ lock' = lock /\ ann' = ann
    BY <1>2 DEF RxFrame, tableVars
  <2>3. LockOwned'
    BY <1>0, <2>1, <2>2 DEF LockOwned
  <2>4. Shrinks /\ KeepsPublishers
    BY <2>1, <2>2 DEF Shrinks, KeepsPublishers
  <2> QED BY <2>3, <2>4, ShrinkKeeps
<1>3. ASSUME NEW t \in RxTask, LearnScan(t)
      PROVE  LockOwned' /\ ScanStands' /\ UniqueIp'
  <2>1. PICK s \in Slot : /\ Chosen(s, rx[t].claim.ip)
                          /\ rx'[t].pc = "publish" /\ rx'[t].slot = s
                          /\ rx'[t].claim = rx[t].claim
    BY <1>0, <1>3 DEF LearnScan, RxLocals
  <2>2. /\ \A u \in RxTask \ {t} : rx'[u] = rx[u]
        /\ arp' = arp /\ ann' = ann /\ lock = NoTask /\ lock' = t
    BY <1>0, <1>3 DEF LearnScan
  <2>3. LockOwned'
    BY <1>0, <2>1, <2>2 DEF LockOwned, Ann
  <2>4. \A r \in Slot : r # s => ~Holds(r, rx[t].claim.ip)
    BY <1>0, <2>1 DEF Chosen, IsHit, Holds, UniqueIp, Used
  <2>5. \A u \in RxTask \ {t} : rx'[u].pc # "publish"
    BY <1>0, <2>2 DEF LockOwned
  <2>6. ScanStands'
    BY <2>1, <2>2, <2>4, <2>5 DEF ScanStands, Holds
  <2> QED BY <1>0, <2>2, <2>3, <2>6 DEF UniqueIp, Used
<1>4. ASSUME NEW t \in RxTask, LearnPublish(t)
      PROVE  LockOwned' /\ ScanStands' /\ UniqueIp'
  <2>1. /\ rx[t].pc = "publish" /\ rx'[t].pc = "proxy"
        /\ \A u \in RxTask \ {t} : rx'[u] = rx[u]
        /\ ann' = ann /\ lock = t /\ lock' = NoTask
    BY <1>0, <1>4 DEF LearnPublish, LockOwned
  <2>2. /\ rx[t].slot \in Slot
        /\ arp'[rx[t].slot].claim = rx[t].claim
        /\ \A s \in Slot : s # rx[t].slot => arp'[s] = arp[s]
    BY <1>0, <1>4 DEF LearnPublish, RxLocals
  <2>3. LockOwned'
    BY <1>0, <2>1 DEF LockOwned
  <2>4. \A u \in RxTask : rx'[u].pc # "publish"
    BY <1>0, <2>1 DEF LockOwned
  <2>5. UniqueIp'
    BY <1>0, <2>1, <2>2 DEF UniqueIp, Used, ScanStands, Holds
  <2> QED BY <2>3, <2>4, <2>5 DEF ScanStands
<1>5. ASSUME NEW t \in RxTask, LearnDone(t) \/ Reply(t)
      PROVE  LockOwned' /\ ScanStands' /\ UniqueIp'
  <2>1. /\ rx[t].pc \in {"proxy", "reply"} /\ rx'[t].pc \in {"idle", "lookup"}
        /\ \A u \in RxTask \ {t} : rx'[u] = rx[u]
    <3>1. CASE LearnDone(t)
      BY <1>0, <3>1 DEF LearnDone, RxIdle, RxLocals
    <3>2. CASE Reply(t)
      BY <1>0, <3>2 DEF Reply, RxIdle
    <3> QED BY <1>5, <3>1, <3>2
  <2>2. arp' = arp /\ lock' = lock /\ ann' = ann
    BY <1>5 DEF LearnDone, Reply, tableVars
  <2>3. LockOwned'
    BY <1>0, <2>1, <2>2 DEF LockOwned
  <2>4. Shrinks /\ KeepsPublishers
    BY <2>1, <2>2 DEF Shrinks, KeepsPublishers
  <2> QED BY <2>3, <2>4, ShrinkKeeps
<1>6. ASSUME NEW t \in RxTask, Lookup(t)
      PROVE  LockOwned' /\ ScanStands' /\ UniqueIp'
  <2>1. /\ rx[t].pc = "lookup" /\ rx'[t].pc \in {"idle", "reply"}
        /\ \A u \in RxTask \ {t} : rx'[u] = rx[u]
    BY <1>0, <1>6 DEF Lookup, RxIdle, RxLocals
  <2>2. lock' = lock /\ ann' = ann /\ \E gone : Freed(gone)
    BY <1>6 DEF Lookup
  <2>3. LockOwned'
    BY <1>0, <2>1, <2>2 DEF LockOwned
  <2>4. Shrinks /\ KeepsPublishers
    BY <2>1, <2>2, FreedShrinks DEF KeepsPublishers
  <2> QED BY <2>3, <2>4, ShrinkKeeps
<1>7. CASE Report \/ StaStatus \/ Forget
  <2>1. rx' = rx /\ lock' = lock /\ ann' = ann
    BY <1>7 DEF Report, StaStatus, Forget, tableVars
  <2>2. Shrinks
    BY <1>7, FreedShrinks
    DEF Report, StaStatus, Forget, tableVars, Shrinks
  <2>3. LockOwned' /\ KeepsPublishers
    BY <1>0, <2>1 DEF LockOwned, KeepsPublishers
  <2> QED BY <2>2, <2>3, ShrinkKeeps
<1>8. CASE AnnounceWake \/ AnnouncePush
  <2>1. /\ rx' = rx /\ lock' = lock /\ arp' = arp
        /\ ann.pc # "scan" /\ ann'.pc # "scan"
    <3>1. CASE AnnounceWake
      BY <1>0, <3>1 DEF AnnounceWake, tableVars, AnnLocals
    <3>2. CASE AnnouncePush
      BY <3>2 DEF AnnouncePush, tableVars, AnnWait
    <3> QED BY <1>8, <3>1, <3>2
  <2>2. LockOwned'
    BY <1>0, <2>1 DEF LockOwned
  <2> QED BY <2>1, <2>2, ShrinkKeeps DEF Shrinks, KeepsPublishers
<1>9. CASE AnnounceLock
  <2>1. /\ rx' = rx /\ arp' = arp /\ lock = NoTask /\ lock' = Ann
        /\ ann'.pc = "scan"
    BY <1>0, <1>9 DEF AnnounceLock, AnnLocals
  <2>2. LockOwned'
    BY <1>0, <2>1 DEF LockOwned
  <2> QED BY <2>1, <2>2, ShrinkKeeps DEF Shrinks, KeepsPublishers
<1>10. CASE AnnounceScan
  <2>1. /\ rx' = rx /\ ann.pc = "scan" /\ lock = Ann
        /\ \/ lock' = NoTask /\ ann'.pc = "push"
           \/ lock' = lock /\ ann'.pc = "scan"
    BY <1>0, <1>10 DEF AnnounceScan, AnnLocals, LockOwned
  <2>2. LockOwned'
    BY <1>0, <2>1 DEF LockOwned
  <2>3. Shrinks
    BY <1>0, <1>10, RestTypes DEF AnnounceScan, Shrinks
  <2> QED BY <2>1, <2>2, <2>3, ShrinkKeeps DEF KeepsPublishers
<1>11. CASE UNCHANGED vars
  <2>1. LockOwned'
    BY <1>0, <1>11 DEF LockOwned, vars
  <2> QED BY <1>11, <2>1, ShrinkKeeps DEF Shrinks, KeepsPublishers, vars
<1> QED BY <1>1, <1>2, <1>3, <1>4, <1>5, <1>6, <1>7, <1>8, <1>9, <1>10, <1>11
        DEF Next, RxStep, AnnounceStep

LEMMA TableInvariant == Spec => []TableInv
<1>1. Init => TableInv
  BY TypeInit, TableInit DEF TableInv
<1> QED BY <1>1, TypeCorrect, TableStep, PTL DEF Spec

(* No interleaving of the table's accessors gives one IP two mappings.     *)
THEOREM OneMappingPerIp == Spec => []UniqueIp
BY TableInvariant, PTL DEF TableInv

-----------------------------------------------------------------------------
(* The announce round's view.  Whoever else holds the mutex is not the     *)
(* scan, so the slots it has copied stay as copied until it lets go.       *)

LEMMA ArpUnderScan ==
  ASSUME TableInv, [Next]_vars, ann.pc = "scan", ~AnnounceScan
  PROVE  /\ arp' = arp
         /\ ann'.pc = ann.pc /\ ann'.idx = ann.idx /\ ann'.view = ann.view
<1> USE ArpTasks
<1>0. /\ ann \in AnnLocals /\ lock = Ann /\ lock # NoTask
      /\ \A t \in RxTask : rx[t].pc # "publish"
  BY DEF TableInv, ArpTypeOK, LockOwned
<1>1. CASE Tick
  BY <1>0, <1>1 DEF Tick, AnnLocals
<1>2. ASSUME NEW t \in RxTask, NEW c, NEW want, RxFrame(t, c, want)
      PROVE  arp' = arp /\ ann' = ann
  BY <1>2 DEF RxFrame, tableVars
<1>3. ASSUME NEW t \in RxTask, RxStep(t)
      PROVE  arp' = arp /\ ann' = ann
  BY <1>0, <1>3
  DEF RxStep, LearnScan, LearnPublish, LearnDone, Lookup, Reply, tableVars
<1>4. CASE Report \/ StaStatus \/ Forget
  BY <1>0, <1>4 DEF Report, StaStatus, Forget, tableVars
<1>5. CASE AnnounceWake \/ AnnounceLock \/ AnnouncePush
  BY <1>0, <1>5 DEF AnnounceWake, AnnounceLock, AnnouncePush
<1>6. CASE UNCHANGED vars
  BY <1>6 DEF vars
<1> QED BY <1>1, <1>2, <1>3, <1>4, <1>5, <1>6 DEF Next, AnnounceStep

LEMMA ViewUnlessScan ==
  ASSUME TableInv, [Next]_vars, ann.pc # "scan"
  PROVE  \/ ann'.pc # "scan" /\ ann'.view \in {ann.view, {}}
         \/ ann'.pc = "scan" /\ ann'.view = {} /\ ann'.idx = 1
<1>0. ann \in AnnLocals
  BY DEF TableInv, ArpTypeOK
<1>1. CASE Tick
  BY <1>0, <1>1 DEF Tick, AnnLocals
<1>2. ASSUME NEW t \in RxTask, NEW c, NEW want, RxFrame(t, c, want)
      PROVE  ann' = ann
  BY <1>2 DEF RxFrame
<1>3. ASSUME NEW t \in RxTask, RxStep(t)
      PROVE  ann' = ann
  BY <1>3
  DEF RxStep, LearnScan, LearnPublish, LearnDone, Lookup, Reply
<1>4. CASE Report \/ StaStatus \/ Forget
  BY <1>4 DEF Report, StaStatus, Forget
<1>5. CASE AnnounceWake
  BY <1>0, <1>5 DEF AnnounceWake, AnnLocals
<1>6. CASE AnnounceLock
  BY <1>0, <1>6 DEF AnnounceLock, AnnLocals
<1>7. CASE AnnouncePush
  BY <1>7 DEF AnnouncePush, AnnWait
<1>8. CASE UNCHANGED vars
  BY <1>8 DEF vars
<1> QED BY <1>1, <1>2, <1>3, <1>4, <1>5, <1>6, <1>7, <1>8
        DEF Next, AnnounceStep, AnnounceScan

(* One slot's worth of the scan.                                           *)
LEMMA SeenIsScanned ==
  ASSUME TableInv, ViewIsSnapshot, AnnounceScan
  PROVE  /\ ann'.view = {arp'[r].claim : r \in {q \in Used' : q < ann.idx + 1}}
         /\ \A v, w \in ann'.view : v.ip = w.ip => v = w
         /\ ann'.pc \in {"scan", "push"}
         /\ ann'.pc = "scan" => ann'.idx = ann.idx + 1
<1> DEFINE s    == ann.idx
           kept == arp[s].used /\ ~Expired(ann.now, arp[s])
           seen == IF kept THEN ann.view \cup {arp[s].claim} ELSE ann.view
<1>1. /\ s \in Slot /\ ann \in AnnLocals /\ arp \in [Slot -> Entry]
      /\ UniqueIp
      /\ ann.view = {arp[r].claim : r \in {q \in Used : q < s}}
  BY DEF TableInv, ArpTypeOK, AnnLocals, ViewIsSnapshot, AnnounceScan
<1>2. /\ \A r \in Slot \ {s} : arp'[r] = arp[r]
      /\ kept => arp'[s] = arp[s]
      /\ arp'[s].used <=> kept
  BY <1>1, RestTypes DEF AnnounceScan
<1>3. ann'.view = seen /\ ann'.pc \in {"scan", "push"}
      /\ (ann'.pc = "scan" => ann'.idx = s + 1)
  <2>1. ann' = IF LastSlot(s) THEN [ann EXCEPT !.pc = "push", !.view = seen]
                              ELSE [ann EXCEPT !.idx = s + 1, !.view = seen]
    BY DEF AnnounceScan
  <2>2. ann.pc = "scan"
    BY DEF AnnounceScan
  <2> HIDE DEF seen
  <2> QED BY <1>1, <2>1, <2>2 DEF AnnLocals
<1>4. ASSUME NEW v \in seen, NEW w \in seen, v.ip = w.ip
      PROVE  v = w
  <2>1. PICK r \in Used : v = arp[r].claim
    BY <1>1, <1>4 DEF Used
  <2>2. PICK q \in Used : w = arp[q].claim
    BY <1>1, <1>4 DEF Used
  <2> QED BY <1>1, <1>4, <2>1, <2>2 DEF UniqueIp
<1>5. seen = {arp'[r].claim : r \in {q \in Used' : q < s + 1}}
  <2>1. \A q \in Slot : q < s + 1 <=> q < s \/ q = s
    BY <1>1, ConstantTypes
  <2>2. \A q \in Slot : q < s => q # s
    BY <1>1, ConstantTypes
  <2> QED BY <1>1, <1>2, <2>1, <2>2 DEF Used
<1> HIDE DEF seen
<1> QED BY <1>3, <1>4, <1>5

LEMMA ViewStep ==
  TableInv /\ ViewIsSnapshot /\ [Next]_vars => ViewIsSnapshot'
<1> SUFFICES ASSUME TableInv, ViewIsSnapshot, [Next]_vars
             PROVE  ViewIsSnapshot'
  OBVIOUS
<1>1. CASE AnnounceScan
  BY <1>1, SeenIsScanned DEF ViewIsSnapshot
<1>2. CASE ann.pc = "scan" /\ ~AnnounceScan
  BY <1>2, ArpUnderScan DEF ViewIsSnapshot, Used
<1>3. CASE ann.pc # "scan"
  <2>1. CASE ann'.pc # "scan" /\ ann'.view \in {ann.view, {}}
    BY <2>1 DEF ViewIsSnapshot
  <2>2. CASE ann'.pc = "scan" /\ ann'.view = {} /\ ann'.idx = 1
    <3>1. \A q \in Slot : ~(q < 1)
      BY ConstantTypes
    <3> QED BY <2>2, <3>1 DEF ViewIsSnapshot, Used
  <2> QED BY <1>3, <2>1, <2>2, ViewUnlessScan
<1> QED BY <1>1, <1>2, <1>3

(* The pushes of an announce round teach pairs that coexisted: the view is *)
(* what the table held in one critical section.                            *)
THEOREM PushesFromSnapshot == Spec => []ViewIsSnapshot
<1>1. Init => ViewIsSnapshot
  BY DEF Init, ViewIsSnapshot, AnnWait
<1> QED BY <1>1, TableInvariant, ViewStep, PTL DEF Spec

-----------------------------------------------------------------------------
(* Arithmetic modulo the clock's wrap: of two readings of one clock, the   *)
(* code sees the modular difference, which is the true one as long as they *)
(* are less than half a wrap apart.                                        *)
LEMMA ModDiv ==
  ASSUME NEW k \in Int, NEW n \in Nat, n > 0
  PROVE  k % n \in 0 .. n - 1 /\ k = n * (k \div n) + (k % n) /\ k \div n \in Int
BY SMT

(* The remainder is the only one.                                          *)
LEMMA ModUnique ==
  ASSUME NEW k \in Int, NEW n \in Nat, n > 0, NEW q \in Int, NEW r \in 0 .. n - 1,
         k = n * q + r
  PROVE  k % n = r
<1> DEFINE p == k \div n
<1>1. /\ p \in Int /\ k % n \in 0 .. n - 1
      /\ k = n * p + (k % n)
  BY ModDiv
<1>2. n * (q - p) = (k % n) - r
  BY <1>1, SMT
<1>3. q - p < 1
  <2> SUFFICES ASSUME q - p >= 1 PROVE FALSE
    BY <1>1
  <2>1. n * (q - p) >= n
    BY <1>1, SMT
  <2> QED BY <1>1, <1>2, <2>1
<1>4. q - p > -1
  <2> SUFFICES ASSUME p - q >= 1 PROVE FALSE
    BY <1>1
  <2>1. n * (p - q) >= n
    BY <1>1, SMT
  <2>2. n * (q - p) = -(n * (p - q))
    BY <1>1, SMT
  <2> QED BY <1>1, <1>2, <2>1, <2>2
<1>5. q = p
  BY <1>1, <1>3, <1>4
<1> QED BY <1>1, <1>2, <1>5

LEMMA Distribute ==
  ASSUME NEW n \in Int, NEW p \in Int, NEW q \in Int, NEW r \in Int
  PROVE  n * (p - q + r) = n * p - n * q + n * r
BY SMT

LEMMA ModShift ==
  ASSUME NEW k \in Int, NEW n \in Nat, n > 0, NEW j \in Int
  PROVE  ((k % n) + j) % n = (k + j) % n
<1> DEFINE q == (k + j) \div n - k \div n + 0
<1>1. /\ (k + j) \div n \in Int /\ (k + j) % n \in 0 .. n - 1
      /\ k + j = n * ((k + j) \div n) + ((k + j) % n)
  BY ModDiv
<1>2. k \div n \in Int /\ k % n \in 0 .. n - 1 /\ k = n * (k \div n) + (k % n)
  BY ModDiv
<1>3. (k % n) + j = n * q + ((k + j) % n) /\ q \in Int /\ (k % n) + j \in Int
  BY <1>1, <1>2, Distribute
<1> HIDE DEF q
<1> QED BY <1>1, <1>3, ModUnique

\* The modular difference of two readings of one clock is that of their ages.
LEMMA Difference ==
  ASSUME NEW c \in Int, NEW n \in Nat, n > 0, NEW x \in Int, NEW y \in Int
  PROVE  (((c - x) % n) - ((c - y) % n)) % n = (y - x) % n
<1> DEFINE q == (y - x) \div n - (c - x) \div n + (c - y) \div n
           d == ((c - x) % n) - ((c - y) % n)
<1>1. /\ (c - x) \div n \in Int /\ (c - x) % n \in 0 .. n - 1
      /\ c - x = n * ((c - x) \div n) + ((c - x) % n)
  BY ModDiv
<1>2. /\ (c - y) \div n \in Int /\ (c - y) % n \in 0 .. n - 1
      /\ c - y = n * ((c - y) \div n) + ((c - y) % n)
  BY ModDiv
<1>3. /\ (y - x) \div n \in Int /\ (y - x) % n \in 0 .. n - 1
      /\ y - x = n * ((y - x) \div n) + ((y - x) % n)
  BY ModDiv
<1>4. d = n * q + ((y - x) % n) /\ q \in Int /\ d \in Int
  BY <1>1, <1>2, <1>3, Distribute
<1> HIDE DEF q, d
<1>5. d % n = (y - x) % n
  BY <1>3, <1>4, ModUnique
<1> QED BY <1>5 DEF d

\* The remainder of a difference smaller than the wrap.
LEMMA SmallMod ==
  ASSUME NEW n \in Nat, n > 0, NEW d \in Int, -n <= d, d < n
  PROVE  d % n = IF d >= 0 THEN d ELSE d + n
<1>1. CASE d >= 0
  <2>1. d = n * 0 + d /\ d \in 0 .. n - 1
    BY <1>1
  <2> QED BY <1>1, <2>1, ModUnique
<1>2. CASE d < 0
  <2>1. d = n * (-1) + (d + n) /\ d + n \in 0 .. n - 1
    BY <1>2
  <2> QED BY <1>2, <2>1, ModUnique
<1> QED BY <1>1, <1>2

-----------------------------------------------------------------------------
(* TIME.  ClockRead: what a task read from the clock is the clock of `lag` *)
(* ticks ago, and a slot's last_ms that of `age` ticks ago, both modulo    *)
(* its wrap.  AgesBounded: how old a slot in use can be, at every place of *)
(* the announce task's round; it keeps every difference of two readings    *)
(* within half a wrap, which is what makes Expired and Before true.        *)
ClockRead ==
  /\ \A t \in RxTask : rx[t].pc # "idle" =>
       rx[t].lag <= MaxDelay /\ rx[t].now = (clock - rx[t].lag) % ClockMod
  /\ ann.pc # "wait" =>
       ann.lag <= MaxDelay /\ ann.now = (clock - ann.lag) % ClockMod
  /\ \A s \in Used : arp[s].last = (clock - age[s]) % ClockMod

\* The longest a slot goes unheard before a round starts that ages it out.
WaitBound == GW_ARP_TTL + MaxDelay + ANNOUNCE_PERIOD

Unscanned(s) == ann.pc = "lock" \/ (ann.pc = "scan" /\ s >= ann.idx)

AgesBounded ==
  /\ ann.wait <= ANNOUNCE_PERIOD
  /\ \A s \in Used :
       /\ ann.pc = "wait" => age[s] + ann.wait <= WaitBound
       /\ Unscanned(s) => age[s] <= WaitBound + ann.lag
       /\ ann.pc # "wait" /\ ~Unscanned(s) => age[s] <= GW_ARP_TTL + ann.lag

(* A slot waiting for its scan: while its learner has yet to notify the    *)
(* announce task it is no older than the learner's delay and one more, and *)
(* after that the round that is due is at most two delays away.            *)
Waking(s) ==
  \E t \in RxTask : /\ rx[t].pc = "proxy" /\ rx[t].isNew /\ rx[t].slot = s
                    /\ age[s] <= MaxDelay + rx[t].lag

ScanDue ==
  \A s \in pend :
    /\ ann.pc = "wait" => Waking(s) \/ (notified /\ age[s] <= 2 * MaxDelay)
    /\ ann.pc \in {"lock", "scan"} => Unscanned(s) /\ age[s] <= 2 * MaxDelay + ann.lag
    /\ ann.pc = "push" => (Waking(s) \/ notified) /\ age[s] <= MaxDelay + ann.lag

(* The slot a learning task is about to overwrite holds the IP it learns,  *)
(* is free, or has gone unheard for longest in a full table.               *)
VictimIsOldest ==
  \A t \in RxTask : rx[t].pc = "publish" =>
    /\ rx[t].isNew = ~Holds(rx[t].slot, rx[t].claim.ip)
    /\ rx[t].isNew /\ arp[rx[t].slot].used =>
         Used = Slot /\ \A r \in Slot : age[r] <= age[rx[t].slot]

(* An AP client the table or a learning task names is there, was learnt    *)
(* late, or is the one whose departure is being handled.                   *)
Present == assoc \cup late \cup
             IF sta.pc \in {"unknown", "forget"} THEN {sta.mac} ELSE {}

ClientsPresent ==
  /\ sta = [pc |-> sta.pc, mac |-> sta.mac]
  /\ \A s \in Used : arp[s].claim.side = AP => arp[s].claim.mac \in Present
  /\ \A t \in RxTask :
       rx[t].pc \in {"learn", "publish"} /\ rx[t].claim.side = AP =>
         rx[t].claim.mac \in Present

(* Inductive together with TableInv, whose mutex keeps a learning task out *)
(* of the scan.                                                            *)
TimeInv == ClockRead /\ AgesBounded /\ ScanDue /\ VictimIsOldest /\ ClientsPresent

\* What ArpTiming says of the bound.
LEMMA Window ==
  /\ AgeBound \in Nat /\ GW_ARP_TTL \in Nat /\ ANNOUNCE_PERIOD \in Nat
  /\ MaxDelay \in Nat /\ MaxDelay <= GW_ARP_TTL
  /\ AgeBound = GW_ARP_TTL + ANNOUNCE_PERIOD + 2 * MaxDelay
  /\ ClockMod \div 2 \in Int /\ ClockMod \div 2 > AgeBound
  /\ 2 * (ClockMod \div 2) <= ClockMod
  /\ ClockMod \in Nat /\ ClockMod > 2 * AgeBound
<1>1. ClockMod \in Nat /\ ClockMod > 0
  BY ConstantTypes
<1>2. /\ ClockMod \div 2 \in Int /\ ClockMod % 2 \in 0 .. 1
      /\ ClockMod = 2 * (ClockMod \div 2) + (ClockMod % 2)
  BY <1>1, ModDiv
<1> QED BY <1>1, <1>2, ArpTiming DEF AgeBound

\* A reading of the clock x ticks ago, one tick later.
LEMMA TickReading ==
  ASSUME NEW c \in Int, NEW x \in Int
  PROVE  (((c + 1) % ClockMod) - (x + 1)) % ClockMod = (c - x) % ClockMod
<1>1. (((c + 1) % ClockMod) + (-(x + 1))) % ClockMod
        = ((c + 1) + (-(x + 1))) % ClockMod
  <2> DEFINE k == c + 1
             j == -(x + 1)
  <2>1. k \in Int /\ j \in Int
    OBVIOUS
  <2> HIDE DEF k, j
  <2>2. ((k % ClockMod) + j) % ClockMod = (k + j) % ClockMod
    BY <2>1, ConstantTypes, ModShift
  <2> QED BY <2>2 DEF k, j
<1>2. /\ (c + 1) + (-(x + 1)) = c - x
      /\ ((c + 1) % ClockMod) + (-(x + 1)) = ((c + 1) % ClockMod) - (x + 1)
  BY ConstantTypes, ModRange
<1> QED BY <1>1, <1>2

LEMMA FreshReading ==
  ASSUME NEW c \in 0 .. ClockMod - 1
  PROVE  c = (c - 0) % ClockMod
BY ConstantTypes, SmallMod

(* Two readings, x and y ticks old: their modular difference.              *)
LEMMA ReadingsDiffer ==
  ASSUME NEW c \in Int, NEW x \in Nat, NEW y \in Nat,
         x <= AgeBound, y <= AgeBound
  PROVE  (((c - x) % ClockMod) - ((c - y) % ClockMod)) % ClockMod
           = IF y >= x THEN y - x ELSE y - x + ClockMod
<1>1. y - x \in Int /\ -ClockMod <= y - x /\ y - x < ClockMod
  BY Window
<1>2. (y - x) % ClockMod = IF y - x >= 0 THEN y - x ELSE y - x + ClockMod
  <2> DEFINE d == y - x
  <2>1. d \in Int /\ -ClockMod <= d /\ d < ClockMod
    BY <1>1
  <2> HIDE DEF d
  <2>2. d % ClockMod = IF d >= 0 THEN d ELSE d + ClockMod
    BY <2>1, ConstantTypes, SmallMod
  <2> QED BY <2>2 DEF d
<1>3. (((c - x) % ClockMod) - ((c - y) % ClockMod)) % ClockMod = (y - x) % ClockMod
  <2>1. x \in Int /\ y \in Int /\ ClockMod \in Nat /\ ClockMod > 0
    BY ConstantTypes
  <2> QED BY <2>1, Difference, Zenon
<1> QED BY <1>2, <1>3

(* The code's two comparisons, by the ages.                                *)
LEMMA ExpiredIs ==
  ASSUME NEW c \in Int, NEW lag \in Nat, NEW old \in Nat, NEW e,
         lag <= MaxDelay, old <= AgeBound, e.last = (c - old) % ClockMod
  PROVE  Expired((c - lag) % ClockMod, e) <=> old > GW_ARP_TTL + lag \/ old < lag
<1>1. lag <= AgeBound
  BY Window
<1>2. (((c - lag) % ClockMod) - ((c - old) % ClockMod)) % ClockMod
        = IF old >= lag THEN old - lag ELSE old - lag + ClockMod
  BY <1>1, ReadingsDiffer
<1> QED BY <1>2, Window DEF Expired

LEMMA BeforeIs ==
  ASSUME NEW c \in Int, NEW x \in Nat, NEW y \in Nat,
         x <= AgeBound, y <= AgeBound
  PROVE  Before((c - x) % ClockMod, (c - y) % ClockMod) <=> x > y
<1>1. (((c - x) % ClockMod) - ((c - y) % ClockMod)) % ClockMod
        = IF y >= x THEN y - x ELSE y - x + ClockMod
  BY ReadingsDiffer
<1> QED BY <1>1, Window DEF Before

-----------------------------------------------------------------------------
(* What each operation does to the fields of the records it rewrites, for  *)
(* the step lemmas of the five parts of TimeInv.                           *)

\* A step that changes no slot, other than to free it.
OnlyFrees ==
  /\ \A s \in Slot : arp'[s].used => arp'[s] = arp[s] /\ age'[s] = age[s]
  /\ \A s \in pend' : s \in pend /\ age'[s] = age[s]

LEMMA FreedOnlyFrees ==
  ASSUME ArpTypeOK, NEW gone, Freed(gone)
  PROVE  OnlyFrees
BY RestTypes DEF ArpTypeOK, Freed, OnlyFrees

LEMMA SameOnlyFrees ==
  ASSUME arp' = arp, age' = age, pend' = pend
  PROVE  OnlyFrees
BY DEF OnlyFrees

LEMMA TickDoes ==
  ASSUME ArpTypeOK, Tick
  PROVE  /\ clock' = (clock + 1) % ClockMod
         /\ UNCHANGED <<arp, lock, notified, pend, late, assoc, sta>>
         /\ \A t \in RxTask :
              /\ rx'[t].pc = rx[t].pc /\ rx'[t].now = rx[t].now
              /\ rx'[t].claim = rx[t].claim /\ rx'[t].slot = rx[t].slot
              /\ rx'[t].isNew = rx[t].isNew
              /\ rx[t].pc # "idle" => /\ rx'[t].lag = rx[t].lag + 1
                                      /\ rx[t].lag < MaxDelay
         /\ ann'.pc = ann.pc /\ ann'.idx = ann.idx /\ ann'.now = ann.now
         /\ IF ann.pc = "wait"
              THEN ann'.wait = ann.wait - 1 /\ ann.wait > 0 /\ ~notified
              ELSE /\ ann'.wait = ann.wait /\ ann'.lag = ann.lag + 1
                   /\ ann.lag < MaxDelay
<1>1. /\ clock' = (clock + 1) % ClockMod
      /\ UNCHANGED <<arp, lock, notified, pend, late, assoc, sta>>
  BY DEF Tick, clientVars
<1>2. ASSUME NEW t \in RxTask
      PROVE  /\ rx'[t].pc = rx[t].pc /\ rx'[t].now = rx[t].now
             /\ rx'[t].claim = rx[t].claim /\ rx'[t].slot = rx[t].slot
             /\ rx'[t].isNew = rx[t].isNew
             /\ rx[t].pc # "idle" => /\ rx'[t].lag = rx[t].lag + 1
                                     /\ rx[t].lag < MaxDelay
  <2>1. rx[t] \in RxLocals
    BY DEF ArpTypeOK
  <2>2. rx'[t] = IF rx[t].pc = "idle" THEN rx[t] ELSE [rx[t] EXCEPT !.lag = @ + 1]
    BY DEF Tick
  <2>3. rx[t].pc # "idle" => rx[t].lag < MaxDelay
    BY DEF Tick, OnTime
  <2> QED BY <2>1, <2>2, <2>3 DEF RxLocals
<1>3. /\ ann'.pc = ann.pc /\ ann'.idx = ann.idx /\ ann'.now = ann.now
      /\ IF ann.pc = "wait"
           THEN ann'.wait = ann.wait - 1 /\ ann.wait > 0 /\ ~notified
           ELSE /\ ann'.wait = ann.wait /\ ann'.lag = ann.lag + 1
                /\ ann.lag < MaxDelay
  <2>1. ann \in AnnLocals
    BY DEF ArpTypeOK
  <2>2. ann' = IF ann.pc = "wait" THEN [ann EXCEPT !.wait = @ - 1]
                                  ELSE [ann EXCEPT !.lag = @ + 1]
    BY DEF Tick
  <2>3. IF ann.pc = "wait" THEN ann.wait > 0 /\ ~notified
                           ELSE ann.lag < MaxDelay
    BY DEF Tick, OnTime
  <2> QED BY <2>1, <2>2, <2>3 DEF AnnLocals
<1> QED BY <1>1, <1>2, <1>3

LEMMA RxFrameDoes ==
  ASSUME ArpTypeOK, NEW t \in RxTask, NEW c \in Claim, NEW want,
         RxFrame(t, c, want)
  PROVE  /\ UNCHANGED <<clock, arp, lock, ann, notified, age, pend, late, assoc, sta>>
         /\ rx[t].pc = "idle" /\ \A u \in RxTask \ {t} : rx'[u] = rx[u]
         /\ rx'[t].pc \in {"learn", "proxy"} /\ rx'[t].claim = c
         /\ rx'[t].now = clock /\ rx'[t].lag = 0 /\ ~rx'[t].isNew
         /\ c.side = AP => c.mac \in assoc
BY DEF RxFrame, RxIdle, ArpTypeOK, tableVars, clientVars

LEMMA LearnScanDoes ==
  ASSUME ArpTypeOK, NEW t \in RxTask, LearnScan(t)
  PROVE  /\ UNCHANGED <<clock, arp, ann, notified, age, pend, late, assoc, sta>>
         /\ lock = NoTask
         /\ rx[t].pc = "learn" /\ \A u \in RxTask \ {t} : rx'[u] = rx[u]
         /\ rx'[t].pc = "publish" /\ rx'[t].claim = rx[t].claim
         /\ rx'[t].now = rx[t].now /\ rx'[t].lag = rx[t].lag
         /\ rx'[t].slot \in Slot /\ Chosen(rx'[t].slot, rx[t].claim.ip)
         /\ rx'[t].isNew = ~Holds(rx'[t].slot, rx[t].claim.ip)
<1>1. PICK s \in Slot :
        /\ Chosen(s, rx[t].claim.ip)
        /\ rx' = [rx EXCEPT ![t].pc = "publish", ![t].slot = s,
                            ![t].isNew = ~Holds(s, rx[t].claim.ip)]
  BY DEF LearnScan
<1> DEFINE new == ~Holds(s, rx[t].claim.ip)
<1>2. rx'[t] = [rx[t] EXCEPT !.pc = "publish", !.slot = s, !.isNew = new]
  BY <1>1 DEF ArpTypeOK
<1>3. rx[t] \in RxLocals /\ new \in BOOLEAN
  BY DEF ArpTypeOK
<1>4. \A u \in RxTask \ {t} : rx'[u] = rx[u]
  BY <1>1 DEF ArpTypeOK
<1>5. /\ rx'[t].pc = "publish" /\ rx'[t].claim = rx[t].claim
      /\ rx'[t].now = rx[t].now /\ rx'[t].lag = rx[t].lag
      /\ rx'[t].slot = s /\ rx'[t].isNew = new
  <2>1. s \in Slot
    OBVIOUS
  <2> HIDE DEF new
  <2>2. /\ rx'[t].pc = "publish" /\ rx'[t].claim = rx[t].claim
        /\ rx'[t].now = rx[t].now /\ rx'[t].lag = rx[t].lag
        /\ rx'[t].slot = s
    BY <1>2, <1>3, <2>1 DEF RxLocals
  <2>3. rx'[t].isNew = new
    BY <1>2, <1>3, <2>1, Zenon DEF RxLocals
  <2> QED BY <2>2, <2>3
<1>6. rx'[t].isNew = ~Holds(rx'[t].slot, rx[t].claim.ip)
  BY <1>5, Zenon
<1> HIDE DEF new
<1> QED BY <1>1, <1>4, <1>5, <1>6 DEF LearnScan, historyVars, clientVars

LEMMA LearnPublishDoes ==
  ASSUME ArpTypeOK, NEW t \in RxTask, LearnPublish(t)
  PROVE  /\ UNCHANGED <<clock, ann, notified, late, assoc, sta>>
         /\ rx[t].pc = "publish" /\ \A u \in RxTask \ {t} : rx'[u] = rx[u]
         /\ rx'[t].pc = "proxy" /\ rx'[t].claim = rx[t].claim
         /\ rx'[t].now = rx[t].now /\ rx'[t].lag = rx[t].lag
         /\ rx'[t].slot = rx[t].slot /\ rx'[t].isNew = rx[t].isNew
         /\ rx[t].slot \in Slot
         /\ \A s \in Slot \ {rx[t].slot} : arp'[s] = arp[s] /\ age'[s] = age[s]
         /\ arp'[rx[t].slot].used /\ arp'[rx[t].slot].claim = rx[t].claim
         /\ arp'[rx[t].slot].last = rx[t].now
         /\ age'[rx[t].slot] = rx[t].lag
         /\ pend' = IF rx[t].isNew THEN pend \cup {rx[t].slot} ELSE pend
BY DEF LearnPublish, ArpTypeOK, RxLocals, clientVars

LEMMA LearnDoneDoes ==
  ASSUME ArpTypeOK, NEW t \in RxTask, LearnDone(t)
  PROVE  /\ UNCHANGED <<clock, arp, lock, ann, age, pend, late, assoc, sta>>
         /\ notified' = (notified \/ rx[t].isNew)
         /\ rx[t].pc = "proxy" /\ \A u \in RxTask \ {t} : rx'[u] = rx[u]
         /\ \/ rx'[t].pc = "idle"
            \/ rx'[t].pc = "lookup" /\ rx'[t].now = clock /\ rx'[t].lag = 0
BY DEF LearnDone, ArpTypeOK, RxLocals, RxIdle, tableVars, clientVars

LEMMA LookupDoes ==
  ASSUME ArpTypeOK, NEW t \in RxTask, Lookup(t)
  PROVE  /\ UNCHANGED <<clock, lock, ann, notified, late, assoc, sta>>
         /\ lock = NoTask /\ OnlyFrees
         /\ rx[t].pc = "lookup" /\ \A u \in RxTask \ {t} : rx'[u] = rx[u]
         /\ \/ rx'[t].pc = "idle"
            \/ /\ rx'[t].pc = "reply"
               /\ rx'[t].now = rx[t].now /\ rx'[t].lag = rx[t].lag
         /\ \A s \in Slot : arp[s].used /\ ~arp'[s].used => Expired(rx[t].now, arp[s])
         /\ rx'[t].pc = "reply" =>
              \E s \in Slot : /\ arp[s].used /\ arp[s].claim = rx'[t].answer
                              /\ arp[s].claim.ip = rx[t].want
                              /\ arp[s].claim.side # rx[t].claim.side
                              /\ ~Expired(rx[t].now, arp[s])
<1> DEFINE ip  == rx[t].want
           hit == {s \in Slot : IsHit(s, ip)}
           old == {s \in hit : Expired(rx[t].now, arp[s])}
           ans == {s \in hit \ old : OtherSide(t, s)}
<1>1. /\ rx[t].pc = "lookup" /\ lock = NoTask /\ Freed(old)
      /\ \/ rx' = [rx EXCEPT ![t] = RxIdle]
         \/ \E s \in ans :
              rx' = [rx EXCEPT ![t].pc = "reply", ![t].answer = arp[s].claim]
      /\ UNCHANGED <<clock, lock, ann, notified, late, assoc, sta>>
  BY DEF Lookup, clientVars
<1>2. OnlyFrees
  BY <1>1, FreedOnlyFrees
<1>3. \A s \in Slot : arp[s].used /\ ~arp'[s].used => Expired(rx[t].now, arp[s])
  BY <1>1 DEF Freed
<1>4. rx[t] \in RxLocals /\ rx \in [RxTask -> RxLocals]
  BY DEF ArpTypeOK
<1>5. CASE rx' = [rx EXCEPT ![t] = RxIdle]
  BY <1>1, <1>2, <1>3, <1>4, <1>5, RestTypes
<1>6. CASE \E s \in ans :
             rx' = [rx EXCEPT ![t].pc = "reply", ![t].answer = arp[s].claim]
  <2>1. PICK s \in ans :
          rx' = [rx EXCEPT ![t].pc = "reply", ![t].answer = arp[s].claim]
    BY <1>6
  <2>2. /\ rx'[t].pc = "reply" /\ rx'[t].answer = arp[s].claim
        /\ rx'[t].now = rx[t].now /\ rx'[t].lag = rx[t].lag
        /\ \A u \in RxTask \ {t} : rx'[u] = rx[u]
    BY <1>4, <2>1 DEF RxLocals
  <2>3. /\ s \in Slot /\ arp[s].used /\ arp[s].claim.ip = rx[t].want
        /\ arp[s].claim.side # rx[t].claim.side
        /\ ~Expired(rx[t].now, arp[s])
    BY DEF IsHit, Holds, OtherSide
  <2> QED BY <1>1, <1>2, <1>3, <2>2, <2>3
<1> QED BY <1>1, <1>5, <1>6

LEMMA ReplyDoes ==
  ASSUME ArpTypeOK, NEW t \in RxTask, Reply(t)
  PROVE  /\ UNCHANGED <<clock, arp, lock, ann, notified, age, pend, late, assoc, sta>>
         /\ rx[t].pc = "reply" /\ \A u \in RxTask \ {t} : rx'[u] = rx[u]
         /\ rx'[t].pc = "idle"
BY RestTypes DEF Reply, ArpTypeOK, tableVars, clientVars

LEMMA StatusDoes ==
  ASSUME ArpTypeOK, Report \/ StaStatus \/ Forget
  PROVE  /\ UNCHANGED <<clock, lock, rx, ann, notified>>
         /\ OnlyFrees
         /\ \/ UNCHANGED <<arp, age, pend>>
            \/ lock = NoTask /\ sta' # sta
<1>1. CASE Report \/ StaStatus
  <2>1. /\ UNCHANGED <<clock, lock, rx, ann, notified>>
        /\ UNCHANGED <<arp, age, pend>>
    BY <1>1 DEF Report, StaStatus, tableVars, historyVars
  <2> QED BY <2>1, SameOnlyFrees
<1>2. CASE Forget
  <2>1. PICK gone : Freed(gone)
    BY <1>2 DEF Forget
  <2>2. OnlyFrees
    BY <2>1, FreedOnlyFrees
  <2>3. sta' # sta
    BY <1>2 DEF Forget, StaForgotten, StaIdle
  <2> QED BY <1>2, <2>2, <2>3 DEF Forget
<1> QED BY <1>1, <1>2

LEMMA AnnounceWakeDoes ==
  ASSUME ArpTypeOK, AnnounceWake
  PROVE  /\ UNCHANGED <<clock, arp, lock, rx, age, pend, late, assoc, sta>>
         /\ ann.pc = "wait" /\ (notified \/ ann.wait = 0)
         /\ ann'.pc = "lock" /\ ann'.wait = ann.wait
         /\ ann'.now = clock /\ ann'.lag = 0
BY DEF AnnounceWake, ArpTypeOK, AnnLocals, tableVars, clientVars

LEMMA AnnounceLockDoes ==
  ASSUME ArpTypeOK, AnnounceLock
  PROVE  /\ UNCHANGED <<clock, arp, rx, age, pend, notified, late, assoc, sta>>
         /\ lock = NoTask /\ ann.pc = "lock"
         /\ ann'.pc = "scan" /\ ann'.wait = ann.wait /\ ann'.idx = 1
         /\ ann'.now = ann.now /\ ann'.lag = ann.lag
BY DEF AnnounceLock, ArpTypeOK, AnnLocals, historyVars, clientVars

LEMMA AnnounceScanDoes ==
  ASSUME ArpTypeOK, AnnounceScan
  PROVE  /\ UNCHANGED <<clock, rx, notified, late, assoc, sta>>
         /\ OnlyFrees /\ pend' = pend \ {ann.idx}
         /\ ann.idx \in Slot /\ ann.pc = "scan"
         /\ \A s \in Slot : arp'[s].used /\ s = ann.idx => ~Expired(ann.now, arp[s])
         /\ \A s \in Slot : arp[s].used /\ ~arp'[s].used => Expired(ann.now, arp[s])
         /\ ann'.wait = ann.wait /\ ann'.now = ann.now /\ ann'.lag = ann.lag
         /\ \/ ann.idx = GW_ARP_MAX /\ ann'.pc = "push"
            \/ ann'.pc = "scan" /\ ann'.idx = ann.idx + 1
<1> DEFINE s    == ann.idx
           old  == arp[s].used /\ Expired(ann.now, arp[s])
           seen == IF arp[s].used /\ ~old THEN ann.view \cup {arp[s].claim}
                                          ELSE ann.view
<1>1. /\ ann.pc = "scan" /\ UNCHANGED <<clock, rx, notified, late, assoc, sta>>
      /\ arp' = IF old THEN [arp EXCEPT ![s] = Vacant] ELSE arp
      /\ age' = IF old THEN [age EXCEPT ![s] = 0] ELSE age
      /\ pend' = pend \ {s}
      /\ ann' = IF LastSlot(s) THEN [ann EXCEPT !.pc = "push", !.view = seen]
                               ELSE [ann EXCEPT !.idx = s + 1, !.view = seen]
  BY DEF AnnounceScan, clientVars
<1>2. ann \in AnnLocals /\ s \in Slot /\ arp \in [Slot -> Entry]
      /\ age \in [Slot -> Nat] /\ pend \subseteq Slot
  BY DEF ArpTypeOK, AnnLocals
<1>3. OnlyFrees
  BY <1>1, <1>2, RestTypes DEF OnlyFrees
<1>4. /\ \A r \in Slot : arp'[r].used /\ r = s => ~Expired(ann.now, arp[r])
      /\ \A r \in Slot : arp[r].used /\ ~arp'[r].used => Expired(ann.now, arp[r])
  BY <1>1, <1>2, RestTypes
<1>5. /\ ann'.wait = ann.wait /\ ann'.now = ann.now /\ ann'.lag = ann.lag
      /\ \/ s = GW_ARP_MAX /\ ann'.pc = "push"
         \/ ann'.pc = "scan" /\ ann'.idx = s + 1
  <2> HIDE DEF seen
  <2> QED BY <1>1, <1>2 DEF AnnLocals, LastSlot
<1> QED BY <1>1, <1>2, <1>3, <1>4, <1>5

LEMMA AnnouncePushDoes ==
  ASSUME ArpTypeOK, AnnouncePush
  PROVE  /\ UNCHANGED <<clock, arp, lock, rx, age, pend, notified, late, assoc, sta>>
         /\ ann.pc = "push" /\ ann'.pc = "wait" /\ ann'.wait = ANNOUNCE_PERIOD
BY DEF AnnouncePush, AnnWait, tableVars, clientVars

-----------------------------------------------------------------------------
(* Refinement: the locked table is the atomic cache of module ArpCache.    *)
LEMMA ToldKept ==
  ASSUME \A t \in RxTask :
           /\ rx'[t].pc = "reply" <=> rx[t].pc = "reply"
           /\ rx[t].pc = "reply" => /\ rx'[t].want = rx[t].want
                                    /\ rx'[t].claim = rx[t].claim
                                    /\ rx'[t].answer = rx[t].answer
  PROVE  Told' = Told
BY DEF Told, Asked

LEMMA TaughtKept ==
  ASSUME ann' = ann \/ (ann.pc # "push" /\ ann'.pc # "push")
  PROVE  Taught' = Taught
BY DEF Taught

LEMMA TickTells ==
  ASSUME ArpTypeOK, Tick
  PROVE  Told' = Told /\ Taught' = Taught
<1>1. Told' = Told
  <2>1. ASSUME NEW t \in RxTask
        PROVE  /\ rx'[t].pc = rx[t].pc /\ rx'[t].want = rx[t].want
               /\ rx'[t].claim = rx[t].claim /\ rx'[t].answer = rx[t].answer
    <3>1. rx[t] \in RxLocals
      BY DEF ArpTypeOK
    <3>2. rx'[t] = IF rx[t].pc = "idle" THEN rx[t] ELSE [rx[t] EXCEPT !.lag = @ + 1]
      BY DEF Tick
    <3> QED BY <3>1, <3>2 DEF RxLocals
  <2> QED BY <2>1, ToldKept
<1>2. ann'.pc = ann.pc /\ ann'.view = ann.view
  <2>1. ann \in AnnLocals
    BY DEF ArpTypeOK
  <2>2. ann' = IF ann.pc = "wait" THEN [ann EXCEPT !.wait = @ - 1]
                                  ELSE [ann EXCEPT !.lag = @ + 1]
    BY DEF Tick
  <2> QED BY <2>1, <2>2 DEF AnnLocals
<1> QED BY <1>1, <1>2 DEF Taught

\* A step that neither answers, nor replies, nor ends a scan or a round is silent.
LEMMA OthersTellNothing ==
  ASSUME ArpTypeOK, [Next]_vars, ~AnnounceScan, ~AnnouncePush,
         \A t \in RxTask : ~Lookup(t) /\ ~Reply(t)
  PROVE  Told' = Told /\ Taught' = Taught
<1>1. CASE Tick
  BY <1>1, TickTells
<1>2. ASSUME NEW t \in RxTask, NEW c \in Claim, NEW want, RxFrame(t, c, want)
      PROVE  Told' = Told /\ Taught' = Taught
  BY <1>2, RxFrameDoes, ToldKept, TaughtKept
<1>3. ASSUME NEW t \in RxTask, LearnScan(t) \/ LearnPublish(t) \/ LearnDone(t)
      PROVE  Told' = Told /\ Taught' = Taught
  <2>1. /\ rx[t].pc # "reply" /\ rx'[t].pc # "reply" /\ ann' = ann
        /\ \A u \in RxTask \ {t} : rx'[u] = rx[u]
    BY <1>3, LearnScanDoes, LearnPublishDoes, LearnDoneDoes
  <2> QED BY <2>1, ToldKept, TaughtKept
<1>4. CASE Report \/ StaStatus \/ Forget
  BY <1>4, StatusDoes, ToldKept, TaughtKept
<1>5. CASE AnnounceWake \/ AnnounceLock
  BY <1>5, AnnounceWakeDoes, AnnounceLockDoes, ToldKept, TaughtKept
<1>6. CASE UNCHANGED vars
  BY <1>6, ToldKept, TaughtKept DEF vars
<1> QED BY <1>1, <1>2, <1>3, <1>4, <1>5, <1>6 DEF Next, RxStep, AnnounceStep

LEMMA OnlyPublishAdds ==
  ASSUME ArpTypeOK, [Next]_vars, \A t \in RxTask : ~LearnPublish(t)
  PROVE  Shrinks
<1>0. arp \in [Slot -> Entry]
  BY DEF ArpTypeOK
<1>1. CASE Tick
  BY <1>1 DEF Tick, Shrinks
<1>2. ASSUME NEW t \in RxTask, NEW c, NEW want, RxFrame(t, c, want)
      PROVE  Shrinks
  BY <1>2 DEF RxFrame, tableVars, Shrinks
<1>3. ASSUME NEW t \in RxTask, LearnScan(t) \/ LearnDone(t) \/ Reply(t)
      PROVE  Shrinks
  BY <1>3 DEF LearnScan, LearnDone, Reply, tableVars, Shrinks
<1>4. ASSUME NEW t \in RxTask, Lookup(t)
      PROVE  Shrinks
  BY <1>4, FreedShrinks DEF Lookup
<1>5. CASE Report \/ StaStatus
  BY <1>5 DEF Report, StaStatus, tableVars, Shrinks
<1>6. CASE Forget
  BY <1>6, FreedShrinks DEF Forget
<1>7. CASE AnnounceWake \/ AnnounceLock \/ AnnouncePush
  BY <1>7 DEF AnnounceWake, AnnounceLock, AnnouncePush, tableVars, Shrinks
<1>8. CASE AnnounceScan
  BY <1>0, <1>8, RestTypes DEF AnnounceScan, Shrinks
<1>9. CASE UNCHANGED vars
  BY <1>9 DEF vars, Shrinks
<1> QED BY <1>1, <1>2, <1>3, <1>4, <1>5, <1>6, <1>7, <1>8, <1>9
        DEF Next, RxStep, AnnounceStep

LEMMA ShrinkIsDrop ==
  ASSUME Shrinks
  PROVE  Cache!Drop
<1>1. Known' \subseteq Known
  BY DEF Shrinks, Known, Used
<1>2. Known \ Known' \in SUBSET Known /\ Known' = Known \ (Known \ Known')
  BY <1>1
<1> QED BY <1>2 DEF Cache!Drop

LEMMA PublishIsLearn ==
  ASSUME TableInv, NEW t \in RxTask, LearnPublish(t)
  PROVE  Cache!Refresh(rx[t].claim) \/ Cache!Insert(rx[t].claim)
<1> DEFINE s == rx[t].slot
           c == rx[t].claim
<1>1. s \in Slot /\ c \in Claim /\ arp \in [Slot -> Entry]
  BY DEF TableInv, ArpTypeOK, RxLocals, LearnPublish
<1>2. /\ arp'[s].used /\ arp'[s].claim = c
      /\ \A r \in Slot : r # s => arp'[r] = arp[r]
  BY <1>1 DEF LearnPublish
<1>3. \A r \in Slot : r # s => ~Holds(r, c.ip)
  BY DEF TableInv, ScanStands, LearnPublish
<1>4. Known' = {arp[r].claim : r \in Used \ {s}} \cup {c}
  BY <1>1, <1>2 DEF Known, Used
<1>5. \A q \in Used : s \in Used /\ arp[q].claim = arp[s].claim => q = s
  BY DEF TableInv, UniqueIp
<1>6. CASE Holds(s, c.ip)
  <2>1. Cache!SameIp(c) = {arp[s].claim}
    BY <1>1, <1>3, <1>6 DEF Cache!SameIp, Known, Used, Holds
  <2>2. {arp[r].claim : r \in Used \ {s}} = Known \ {arp[s].claim}
    BY <1>1, <1>5, <1>6 DEF Known, Holds, Used
  <2>3. Known' = (Known \ {arp[s].claim}) \cup {c}
    BY <1>4, <2>2
  <2> QED BY <2>1, <2>3 DEF Cache!Refresh
<1>7. CASE ~Holds(s, c.ip)
  <2>1. Cache!SameIp(c) = {}
    BY <1>1, <1>3, <1>7 DEF Cache!SameIp, Known, Used, Holds
  <2>2. CASE arp[s].used
    <3>1. arp[s].claim \in Known
      BY <1>1, <2>2 DEF Known, Used
    <3>2. Known' = (Known \ {arp[s].claim}) \cup {c}
      BY <1>1, <1>4, <1>5, <2>2 DEF Known, Used
    <3> QED BY <2>1, <3>1, <3>2 DEF Cache!Insert
  <2>3. CASE ~arp[s].used
    <3>1. Known' = (Known \ {c}) \cup {c}
      BY <1>4, <2>3 DEF Known, Used
    <3> QED BY <2>1, <3>1 DEF Cache!Insert
  <2> QED BY <2>2, <2>3
<1> QED BY <1>6, <1>7

\* gw_proxy_arp tells its requester what the cache held.
LEMMA LookupAnswers ==
  ASSUME TableInv, NEW t \in RxTask, Lookup(t)
  PROVE  /\ Taught' = Taught
         /\ \/ Cache!Drop /\ Told' = Told
            \/ Cache!Answer(t) /\ Known' = Known
<1>0. ArpTypeOK /\ rx[t] \in RxLocals /\ rx \in [RxTask -> RxLocals]
  BY DEF TableInv, ArpTypeOK
<1> DEFINE old == {s \in Slot : IsHit(s, rx[t].want) /\ Expired(rx[t].now, arp[s])}
<1>1. /\ rx[t].pc = "lookup" /\ ann' = ann
      /\ \A u \in RxTask \ {t} : rx'[u] = rx[u]
      /\ Freed(old)
  BY <1>0, LookupDoes DEF Lookup
<1>2. Taught' = Taught
  BY <1>1, TaughtKept
<1>3. CASE rx' = [rx EXCEPT ![t] = RxIdle]
  <2>1. rx'[t].pc # "reply"
    BY <1>0, <1>3, RestTypes
  <2>2. Told' = Told
    BY <1>1, <2>1, ToldKept
  <2>3. Shrinks
    BY <1>0, <1>1, FreedShrinks
  <2> QED BY <1>2, <2>2, <2>3, ShrinkIsDrop
<1>4. CASE rx' # [rx EXCEPT ![t] = RxIdle]
  <2>1. PICK s \in Slot : /\ IsHit(s, rx[t].want) /\ ~Expired(rx[t].now, arp[s])
                          /\ OtherSide(t, s)
                          /\ rx' = [rx EXCEPT ![t].pc = "reply",
                                              ![t].answer = arp[s].claim]
    BY <1>4 DEF Lookup
  <2> DEFINE c == arp[s].claim
             q == Asked(t)
  <2>2. /\ c \in Claim /\ c \in Known /\ c.ip = rx[t].want /\ c.ip # NoIp
        /\ c.side # rx[t].claim.side
    BY <1>0, <2>1, ArpClaims DEF IsHit, Holds, OtherSide, Known, Used, ArpTypeOK
  <2>3. q \in [ip : Wanted, side : Side] /\ c \in Cache!Answers(q)
    <3>1. rx[t].want \in Wanted
      BY <1>0, <2>2 DEF RxLocals
    <3>2. rx[t].claim \in Claim
      BY <1>0, <1>1 DEF ArpTypeOK
    <3>3. rx[t].claim.side \in Side
      BY <3>2, ArpClaims
    <3> QED BY <2>2, <3>1, <3>3 DEF Cache!Answers, Asked
  <2>4. Told[t] = {} /\ Told' = [Told EXCEPT ![t] = {[question |-> q, claim |-> c]}]
    <3>1. /\ rx'[t].pc = "reply" /\ rx'[t].answer = c
          /\ rx'[t].want = rx[t].want /\ rx'[t].claim = rx[t].claim
      BY <1>0, <2>1 DEF RxLocals
    <3>2. Asked(t)' = q
      BY <3>1 DEF Asked
    <3>3. \A u \in RxTask \ {t} : Told'[u] = Told[u]
      BY <1>1 DEF Told, Asked
    <3>4. Told'[t] = {[question |-> q, claim |-> c]}
      BY <3>1, <3>2 DEF Told
    <3> HIDE DEF q, c
    <3> QED BY <1>1, <3>3, <3>4 DEF Told
  <2>5. Known' = Known
    <3>1. \A r \in old : r = s
      BY <2>1, ConstantTypes DEF IsHit
    <3>2. old = {}
      BY <2>1, <3>1
    <3> HIDE DEF old
    <3>3. arp' = arp
      BY <1>0, <1>1, <3>2 DEF Freed, ArpTypeOK
    <3> QED BY <3>3 DEF Known, Used
  <2>6. Cache!Answer(t)
    BY <2>3, <2>4 DEF Cache!Answer
  <2> QED BY <1>2, <2>5, <2>6
<1> QED BY <1>3, <1>4

LEMMA ReplyPassesOn ==
  ASSUME ArpTypeOK, NEW t \in RxTask, Reply(t)
  PROVE  Cache!PassOn(t) /\ Known' = Known /\ Taught' = Taught
<1>1. /\ rx[t].pc = "reply" /\ rx'[t].pc = "idle" /\ ann' = ann /\ arp' = arp
      /\ \A u \in RxTask \ {t} : rx'[u] = rx[u]
  BY ReplyDoes
<1>2. Told[t] # {} /\ Told' = [Told EXCEPT ![t] = {}]
  BY <1>1 DEF Told, Asked
<1> QED BY <1>1, <1>2, TaughtKept DEF Cache!PassOn, Known, Used

\* The last slot scanned is the moment of the round's view.
LEMMA ScanBegins ==
  ASSUME TableInv, ViewIsSnapshot, AnnounceScan
  PROVE  /\ Told' = Told
         /\ \/ Cache!Drop /\ Taught' = Taught
            \/ Cache!BeginRound
<1>0. ArpTypeOK /\ ann \in AnnLocals
  BY DEF TableInv, ArpTypeOK
<1>1. /\ rx' = rx /\ ann.pc = "scan" /\ ann.idx \in Slot
      /\ \/ ann.idx = GW_ARP_MAX /\ ann'.pc = "push"
         \/ ann'.pc = "scan"
  BY <1>0, AnnounceScanDoes
<1>2. Told' = Told
  BY <1>1, ToldKept
<1>3. Cache!Drop
  BY <1>0, RestTypes, ShrinkIsDrop DEF AnnounceScan, Shrinks, ArpTypeOK
<1>4. CASE ann'.pc = "scan"
  BY <1>1, <1>2, <1>3, <1>4, TaughtKept
<1>5. CASE ann.idx = GW_ARP_MAX /\ ann'.pc = "push"
  <2>1. ann'.view = {arp'[r].claim : r \in {q \in Used' : q < ann.idx + 1}}
    BY SeenIsScanned
  <2>2. \A q \in Slot : q < ann.idx + 1
    BY <1>0, <1>1, <1>5, ConstantTypes DEF Slot
  <2>3. ann'.view = Known'
    BY <2>1, <2>2 DEF Known, Used
  <2>4. Taught = {} /\ Taught' = Known'
    BY <1>1, <1>5, <2>3 DEF Taught
  <2> QED BY <1>2, <1>3, <2>4 DEF Cache!BeginRound
<1> QED BY <1>1, <1>4, <1>5

LEMMA PushEnds ==
  ASSUME ArpTypeOK, AnnouncePush
  PROVE  /\ Told' = Told /\ Known' = Known
         /\ Taught' = Taught \/ Cache!EndRound
<1>1. rx' = rx /\ arp' = arp /\ ann'.pc = "wait"
  BY AnnouncePushDoes
<1>2. Taught' = {}
  BY <1>1 DEF Taught
<1> QED BY <1>1, <1>2, ToldKept DEF Cache!EndRound, Known, Used

\* What is on its way into the table is neither 0.0.0.0's nor a group address's.
OnlyLearnable ==
  \A t \in RxTask : rx[t].pc \in {"learn", "publish"} => Learnable(rx[t].claim)

LEMMA LearnableStep ==
  TableInv /\ OnlyLearnable /\ [Next]_vars => OnlyLearnable'
<1> SUFFICES ASSUME ArpTypeOK, OnlyLearnable, [Next]_vars
             PROVE  OnlyLearnable'
  BY DEF TableInv
<1> DEFINE Learning(u) == rx[u].pc \in {"learn", "publish"}
<1>0. SUFFICES \A u \in RxTask : Learning(u)' =>
        \/ Learnable(rx'[u].claim)
        \/ Learning(u) /\ rx'[u].claim = rx[u].claim
  BY DEF OnlyLearnable, Learnable
<1>1. CASE Tick
  BY <1>1, TickDoes
<1>2. ASSUME NEW t \in RxTask, NEW c \in Claim, NEW want, RxFrame(t, c, want)
      PROVE  \A u \in RxTask : Learning(u)' =>
        \/ Learnable(rx'[u].claim)
        \/ Learning(u) /\ rx'[u].claim = rx[u].claim
  <2>1. Learning(t)' => Learnable(rx'[t].claim)
    BY <1>2 DEF RxFrame, RxIdle, ArpTypeOK
  <2> QED BY <1>2, <2>1, RxFrameDoes
<1>3. ASSUME NEW t \in RxTask,
             LearnScan(t) \/ LearnPublish(t) \/ LearnDone(t) \/ Lookup(t) \/ Reply(t)
      PROVE  \A u \in RxTask : Learning(u)' =>
        \/ Learnable(rx'[u].claim)
        \/ Learning(u) /\ rx'[u].claim = rx[u].claim
  BY <1>3, LearnScanDoes, LearnPublishDoes, LearnDoneDoes, LookupDoes, ReplyDoes
<1>4. CASE Report \/ StaStatus \/ Forget \/ AnnounceStep
  <2>1. rx' = rx
    BY <1>4, StatusDoes
    DEF AnnounceStep, AnnounceWake, AnnounceLock, AnnounceScan, AnnouncePush, tableVars
  <2> QED BY <2>1
<1>5. CASE UNCHANGED vars
  BY <1>5 DEF vars
<1> QED BY <1>1, <1>2, <1>3, <1>4, <1>5 DEF Next, RxStep

LEMMA CacheStep ==
  TableInv /\ ViewIsSnapshot /\ OnlyLearnable /\ [Next]_vars => [Cache!Next]_(Cache!vars)
<1> SUFFICES ASSUME TableInv, ViewIsSnapshot, OnlyLearnable, [Next]_vars
             PROVE  [Cache!Next]_(Cache!vars)
  OBVIOUS
<1>0. ArpTypeOK
  BY DEF TableInv
<1>1. ASSUME NEW t \in RxTask, LearnPublish(t)
      PROVE  Cache!Next
  <2>1. rx[t].claim \in HostClaim
    BY <1>0, <1>1 DEF ArpTypeOK, LearnPublish, OnlyLearnable, Learnable, HostClaim
  <2>2. Told' = Told /\ Taught' = Taught
    <3>1. /\ rx[t].pc # "reply" /\ rx'[t].pc # "reply" /\ ann' = ann
          /\ \A u \in RxTask \ {t} : rx'[u] = rx[u]
      BY <1>0, <1>1, LearnPublishDoes
    <3> QED BY <3>1, ToldKept, TaughtKept
  <2> QED BY <1>1, <2>1, <2>2, PublishIsLearn DEF Cache!Next
<1>2. ASSUME NEW t \in RxTask, Lookup(t)
      PROVE  Cache!Next
  BY <1>2, LookupAnswers DEF Cache!Next
<1>3. ASSUME NEW t \in RxTask, Reply(t)
      PROVE  Cache!Next
  BY <1>0, <1>3, ReplyPassesOn DEF Cache!Next
<1>4. CASE AnnounceScan
  BY <1>4, ScanBegins DEF Cache!Next
<1>5. CASE AnnouncePush
  BY <1>0, <1>5, PushEnds DEF Cache!Next, Cache!vars
<1>6. CASE /\ ~AnnounceScan /\ ~AnnouncePush
           /\ \A t \in RxTask : ~LearnPublish(t) /\ ~Lookup(t) /\ ~Reply(t)
  <2>1. Told' = Told /\ Taught' = Taught
    BY <1>0, <1>6, OthersTellNothing
  <2>2. Cache!Drop
    BY <1>0, <1>6, OnlyPublishAdds, ShrinkIsDrop
  <2> QED BY <2>1, <2>2 DEF Cache!Next
<1> QED BY <1>1, <1>2, <1>3, <1>4, <1>5, <1>6

(* The table implements the atomic cache: no mapping of 0.0.0.0 or of a    *)
(* group address is ever in it, an IP's mapping is the latest learnt, a    *)
(* refresh costs no other mapping and a new one at most one, a requester   *)
(* is told what the table held when it was looked up, and what a round     *)
(* teaches is what the table held when its scan ended.                     *)
THEOREM TableIsCache == Spec => ImplementsCache
<1>1. Init => Cache!Init
  BY RestTypes DEF Init, Cache!Init, Known, Used, Told, Taught, AnnWait
<1>2. Init => ViewIsSnapshot
  BY DEF Init, ViewIsSnapshot, AnnWait
<1>3. Init => OnlyLearnable
  BY RestTypes DEF Init, OnlyLearnable, RxIdle
<1> QED BY <1>1, <1>2, <1>3, TableInvariant, ViewStep, LearnableStep, CacheStep, PTL
        DEF Spec, ImplementsCache, Cache!Spec

-----------------------------------------------------------------------------
(* The steps keep TimeInv, part by part.                                   *)
LEMMA AgesInBound ==
  ASSUME ArpTypeOK, ClockRead, AgesBounded, NEW s \in Used
  PROVE  s \in Slot /\ age[s] \in Nat /\ age[s] <= AgeBound
<1>1. /\ s \in Slot /\ age[s] \in Nat /\ ann.wait \in Nat /\ ann.lag \in Nat
      /\ ann.pc # "wait" => ann.lag <= MaxDelay
  BY DEF ArpTypeOK, AnnLocals, Used, ClockRead
<1>2. CASE ann.pc = "wait"
  BY <1>1, <1>2, Window DEF AgesBounded, WaitBound
<1>3. CASE Unscanned(s)
  BY <1>1, <1>3, Window DEF AgesBounded, WaitBound, Unscanned
<1>4. CASE ann.pc # "wait" /\ ~Unscanned(s)
  BY <1>1, <1>4, Window DEF AgesBounded
<1> QED BY <1>1, <1>2, <1>3, <1>4

LEMMA TickAges ==
  ASSUME ArpTypeOK, ClockRead, AgesBounded, Tick
  PROVE  \A s \in Slot : age'[s] = IF arp[s].used THEN age[s] + 1 ELSE age[s]
BY AgesInBound DEF Tick, Older, Used

LEMMA ClockReadStep ==
  ASSUME ArpTypeOK, ClockRead, AgesBounded, [Next]_vars
  PROVE  ClockRead'
<1> DEFINE RxRead(t) ==
             rx'[t].pc # "idle" =>
               /\ rx'[t].lag <= MaxDelay
               /\ rx'[t].now = (clock' - rx'[t].lag) % ClockMod
           AnnRead ==
             ann'.pc # "wait" =>
               /\ ann'.lag <= MaxDelay
               /\ ann'.now = (clock' - ann'.lag) % ClockMod
           TableRead ==
             \A s \in Used' : arp'[s].last = (clock' - age'[s]) % ClockMod
<1>0. /\ clock \in 0 .. ClockMod - 1 /\ clock \in Int
      /\ \A t \in RxTask : rx[t].lag \in Nat
      /\ ann.lag \in Nat /\ \A s \in Slot : age[s] \in Nat
  BY ConstantTypes DEF ArpTypeOK, RxLocals, AnnLocals
<1>1. ASSUME clock' = clock, OnlyFrees
      PROVE  TableRead
  BY <1>1 DEF ClockRead, OnlyFrees, Used
<1>2. ASSUME clock' = clock, NEW t \in RxTask, rx'[t] = rx[t]
      PROVE  RxRead(t)
  BY <1>2 DEF ClockRead
<1>3. ASSUME clock' = clock, ann' = ann
      PROVE  AnnRead
  BY <1>3 DEF ClockRead
<1>4. MaxDelay \in Nat /\ 0 <= MaxDelay
  BY Window
<1>5. ASSUME clock' = clock, arp' = arp, age' = age
      PROVE  TableRead
  BY <1>5 DEF ClockRead, Used
<1>6. CASE Tick
  <2>1. ASSUME NEW t \in RxTask PROVE RxRead(t)
    BY <1>0, <1>4, <1>6, TickDoes, TickReading DEF ClockRead
  <2>2. AnnRead
    BY <1>0, <1>4, <1>6, TickDoes, TickReading DEF ClockRead
  <2>3. TableRead
    BY <1>0, <1>6, TickDoes, TickAges, TickReading DEF ClockRead, Used
  <2> QED BY <2>1, <2>2, <2>3 DEF ClockRead
<1>7. ASSUME NEW t \in RxTask, NEW c \in Claim, NEW want, RxFrame(t, c, want)
      PROVE  ClockRead'
  <2>1. RxRead(t)
    BY <1>0, <1>4, <1>7, RxFrameDoes, FreshReading
  <2> QED BY <1>2, <1>3, <1>5, <1>7, <2>1, RxFrameDoes DEF ClockRead
<1>8. ASSUME NEW t \in RxTask, LearnScan(t)
      PROVE  ClockRead'
  <2>1. RxRead(t)
    BY <1>8, LearnScanDoes DEF ClockRead
  <2> QED BY <1>2, <1>3, <1>5, <1>8, <2>1, LearnScanDoes DEF ClockRead
<1>9. ASSUME NEW t \in RxTask, LearnPublish(t)
      PROVE  ClockRead'
  <2>1. RxRead(t)
    BY <1>9, LearnPublishDoes DEF ClockRead
  <2>2. TableRead
    BY <1>9, LearnPublishDoes DEF ClockRead, Used
  <2> QED BY <1>2, <1>3, <1>9, <2>1, <2>2, LearnPublishDoes DEF ClockRead
<1>10. ASSUME NEW t \in RxTask, LearnDone(t)
       PROVE  ClockRead'
  <2>1. RxRead(t)
    BY <1>0, <1>4, <1>10, LearnDoneDoes, FreshReading
  <2> QED BY <1>2, <1>3, <1>5, <1>10, <2>1, LearnDoneDoes DEF ClockRead
<1>11. ASSUME NEW t \in RxTask, Lookup(t)
       PROVE  ClockRead'
  <2>1. RxRead(t)
    BY <1>11, LookupDoes DEF ClockRead
  <2> QED BY <1>1, <1>2, <1>3, <1>11, <2>1, LookupDoes DEF ClockRead
<1>12. ASSUME NEW t \in RxTask, Reply(t)
       PROVE  ClockRead'
  <2>1. RxRead(t)
    BY <1>12, ReplyDoes
  <2> QED BY <1>2, <1>3, <1>5, <1>12, <2>1, ReplyDoes DEF ClockRead
<1>13. CASE Report \/ StaStatus \/ Forget
  BY <1>1, <1>2, <1>3, <1>13, StatusDoes DEF ClockRead
<1>14. CASE AnnounceWake
  <2>1. AnnRead
    BY <1>0, <1>4, <1>14, AnnounceWakeDoes, FreshReading
  <2> QED BY <1>2, <1>5, <1>14, <2>1, AnnounceWakeDoes DEF ClockRead
<1>15. CASE AnnounceLock
  <2>1. AnnRead
    BY <1>15, AnnounceLockDoes DEF ClockRead
  <2> QED BY <1>2, <1>5, <1>15, <2>1, AnnounceLockDoes DEF ClockRead
<1>16. CASE AnnounceScan
  <2>1. AnnRead
    BY <1>16, AnnounceScanDoes DEF ClockRead
  <2> QED BY <1>1, <1>2, <1>16, <2>1, AnnounceScanDoes DEF ClockRead
<1>17. CASE AnnouncePush
  <2>1. AnnRead
    BY <1>17, AnnouncePushDoes
  <2> QED BY <1>2, <1>5, <1>17, <2>1, AnnouncePushDoes DEF ClockRead
<1>18. CASE UNCHANGED vars
  BY <1>2, <1>3, <1>5, <1>18 DEF ClockRead, vars, historyVars
<1> QED BY <1>6, <1>7, <1>8, <1>9, <1>10, <1>11, <1>12, <1>13, <1>14, <1>15,
           <1>16, <1>17, <1>18
        DEF Next, RxStep, AnnounceStep

LEMMA AgesStep ==
  ASSUME TableInv, ClockRead, AgesBounded, [Next]_vars
  PROVE  AgesBounded'
<1> DEFINE Bounded(s) ==
             /\ ann'.pc = "wait" => age'[s] + ann'.wait <= WaitBound
             /\ Unscanned(s)' => age'[s] <= WaitBound + ann'.lag
             /\ ann'.pc # "wait" /\ ~Unscanned(s)' => age'[s] <= GW_ARP_TTL + ann'.lag
<1>0. /\ ArpTypeOK /\ LockOwned
      /\ clock \in Int /\ ann.wait \in Nat /\ ann.lag \in Nat /\ ann.wait <= ANNOUNCE_PERIOD
      /\ ann.pc # "wait" => ann.lag <= MaxDelay
      /\ ann.idx \in Slot /\ ann.idx \in Nat
      /\ \A s \in Slot : age[s] \in Nat /\ s \in Nat /\ s >= 1 /\ s <= GW_ARP_MAX
      /\ GW_ARP_MAX \in Nat
      /\ \A t \in RxTask : /\ rx[t].lag \in Nat
                           /\ rx[t].pc # "idle" => rx[t].lag <= MaxDelay
  BY ConstantTypes, ArpTiming
  DEF TableInv, ArpTypeOK, RxLocals, AnnLocals, ClockRead, AgesBounded
<1>1. \A s \in Slot : arp[s].used =>
        /\ ann.pc = "wait" => age[s] + ann.wait <= WaitBound
        /\ Unscanned(s) => age[s] <= WaitBound + ann.lag
        /\ ann.pc # "wait" /\ ~Unscanned(s) => age[s] <= GW_ARP_TTL + ann.lag
  BY DEF AgesBounded, Used
<1>2. WaitBound \in Nat /\ WaitBound = GW_ARP_TTL + MaxDelay + ANNOUNCE_PERIOD
  BY Window DEF WaitBound
<1>3. ASSUME ann' = ann, OnlyFrees
      PROVE  AgesBounded'
  <2>1. ASSUME NEW s \in Slot, arp'[s].used PROVE Bounded(s)
    BY <1>1, <1>3, <2>1 DEF OnlyFrees, Unscanned
  <2> QED BY <1>0, <1>3, <2>1 DEF AgesBounded, Used
<1>4. ASSUME NEW t \in RxTask, RxStep(t), ~LearnPublish(t)
      PROVE  OnlyFrees /\ ann' = ann
  BY <1>0, <1>4, LearnScanDoes, LearnDoneDoes, LookupDoes, ReplyDoes, SameOnlyFrees
  DEF RxStep
<1>5. CASE Tick
  <2>1. ASSUME NEW s \in Slot, arp'[s].used PROVE Bounded(s)
    <3>1. arp[s].used /\ age'[s] = age[s] + 1
      BY <1>0, <1>5, <2>1, TickDoes, TickAges
    <3>2. /\ ann'.pc = ann.pc /\ ann'.idx = ann.idx
          /\ IF ann.pc = "wait" THEN ann'.wait = ann.wait - 1
                                ELSE ann'.lag = ann.lag + 1
      BY <1>0, <1>5, TickDoes
    <3>3. Unscanned(s)' <=> Unscanned(s)
      BY <3>2 DEF Unscanned
    <3> QED BY <1>0, <1>1, <1>2, <3>1, <3>2, <3>3, Window DEF Unscanned
  <2>2. ann'.wait <= ANNOUNCE_PERIOD
    BY <1>0, <1>5, TickDoes, Window
  <2> QED BY <2>1, <2>2 DEF AgesBounded, Used
<1>6. ASSUME NEW t \in RxTask, NEW c \in Claim, NEW want, RxFrame(t, c, want)
      PROVE  AgesBounded'
  BY <1>0, <1>3, <1>6, RxFrameDoes, SameOnlyFrees
<1>7. ASSUME NEW t \in RxTask, LearnPublish(t)
      PROVE  AgesBounded'
  <2>1. ASSUME NEW s \in Slot, arp'[s].used PROVE Bounded(s)
    <3>1. CASE s # rx[t].slot
      BY <1>0, <1>1, <1>7, <2>1, <3>1, LearnPublishDoes DEF Unscanned
    <3>2. CASE s = rx[t].slot
      <4>1. age'[s] = rx[t].lag /\ rx[t].lag <= MaxDelay /\ ann' = ann
        BY <1>0, <1>7, <3>2, LearnPublishDoes
      <4> QED BY <1>0, <1>2, <4>1, Window
    <3> QED BY <3>1, <3>2
  <2> QED BY <1>0, <1>7, <2>1, LearnPublishDoes DEF AgesBounded, Used
<1>8. CASE Report \/ StaStatus \/ Forget
  BY <1>0, <1>3, <1>8, StatusDoes
<1>9. CASE AnnounceWake
  <2>1. ASSUME NEW s \in Slot, arp'[s].used PROVE Bounded(s)
    BY <1>0, <1>1, <1>2, <1>9, <2>1, AnnounceWakeDoes DEF Unscanned
  <2> QED BY <1>0, <1>9, <2>1, AnnounceWakeDoes DEF AgesBounded, Used
<1>10. CASE AnnounceLock
  <2>1. ASSUME NEW s \in Slot, arp'[s].used PROVE Bounded(s)
    BY <1>0, <1>1, <1>10, <2>1, AnnounceLockDoes DEF Unscanned
  <2> QED BY <1>0, <1>10, <2>1, AnnounceLockDoes DEF AgesBounded, Used
<1>11. CASE AnnounceScan
  <2>1. ASSUME NEW s \in Slot, arp'[s].used PROVE Bounded(s)
    <3>1. /\ arp[s].used /\ arp'[s] = arp[s] /\ age'[s] = age[s]
          /\ ann.pc = "scan" /\ ann'.lag = ann.lag
          /\ \/ ann.idx = GW_ARP_MAX /\ ann'.pc = "push"
             \/ ann'.pc = "scan" /\ ann'.idx = ann.idx + 1
      BY <1>0, <1>11, <2>1, AnnounceScanDoes DEF OnlyFrees
    <3>2. CASE s > ann.idx
      BY <1>0, <1>1, <3>1, <3>2 DEF Unscanned
    <3>3. CASE s = ann.idx
      <4>1. ~Expired(ann.now, arp[s])
        BY <1>0, <1>11, <2>1, <3>3, AnnounceScanDoes
      <4>2. age[s] <= AgeBound /\ ann.now = (clock - ann.lag) % ClockMod
            /\ arp[s].last = (clock - age[s]) % ClockMod
        BY <1>0, <3>1, AgesInBound DEF Used, ClockRead
      <4>3. Expired((clock - ann.lag) % ClockMod, arp[s])
              <=> age[s] > GW_ARP_TTL + ann.lag \/ age[s] < ann.lag
        BY <1>0, <3>1, <4>2, ExpiredIs
      <4>4. age[s] <= GW_ARP_TTL + ann.lag
        BY <1>0, <4>1, <4>2, <4>3, Window
      <4> QED BY <1>0, <3>1, <3>3, <4>4 DEF Unscanned
    <3>4. CASE s < ann.idx
      BY <1>0, <1>1, <3>1, <3>4 DEF Unscanned
    <3> QED BY <1>0, <3>2, <3>3, <3>4
  <2> QED BY <1>0, <1>11, <2>1, AnnounceScanDoes DEF AgesBounded, Used
<1>12. CASE AnnouncePush
  <2>1. ASSUME NEW s \in Slot, arp'[s].used PROVE Bounded(s)
    BY <1>0, <1>1, <1>2, <1>12, <2>1, AnnouncePushDoes, Window DEF Unscanned
  <2>2. ann'.wait <= ANNOUNCE_PERIOD
    BY <1>0, <1>12, AnnouncePushDoes, Window
  <2> QED BY <2>1, <2>2 DEF AgesBounded, Used
<1>13. CASE UNCHANGED vars
  BY <1>3, <1>13, SameOnlyFrees DEF vars, historyVars
<1> QED BY <1>3, <1>4, <1>5, <1>6, <1>7, <1>8, <1>9, <1>10, <1>11, <1>12, <1>13
        DEF Next, AnnounceStep

\* What keeps a slot's learner on its way to the announce task.
LEMMA WakingStays ==
  ASSUME NEW s, NEW t \in RxTask, Waking(s), rx[t].pc # "proxy",
         \A u \in RxTask \ {t} : rx'[u] = rx[u], age'[s] = age[s]
  PROVE  Waking(s)'
BY DEF Waking

LEMMA ScanDueStep ==
  ASSUME TableInv, ClockRead, AgesBounded, ScanDue, [Next]_vars
  PROVE  ScanDue'
<1> DEFINE Due(s) ==
             /\ ann.pc = "wait" => Waking(s) \/ (notified /\ age[s] <= 2 * MaxDelay)
             /\ ann.pc \in {"lock", "scan"} =>
                  Unscanned(s) /\ age[s] <= 2 * MaxDelay + ann.lag
             /\ ann.pc = "push" =>
                  (Waking(s) \/ notified) /\ age[s] <= MaxDelay + ann.lag
<1>0. /\ ArpTypeOK /\ LockOwned
      /\ ann.pc \in {"wait", "lock", "scan", "push"} /\ ann.lag \in Nat
      /\ ann.pc # "wait" => ann.lag <= MaxDelay
      /\ ann.idx \in Slot /\ ann.idx \in Nat
      /\ \A s \in Slot : age[s] \in Nat /\ s \in Nat /\ s >= 1 /\ s <= GW_ARP_MAX
      /\ GW_ARP_MAX \in Nat /\ pend \subseteq Slot
      /\ \A t \in RxTask : /\ rx[t].lag \in Nat
                           /\ rx[t].pc # "idle" => rx[t].lag <= MaxDelay
      /\ MaxDelay \in Nat /\ notified \in BOOLEAN
  BY ConstantTypes, ArpTiming, Window
  DEF TableInv, ArpTypeOK, RxLocals, AnnLocals, ClockRead
<1>1. \A s \in pend : Due(s)
  BY DEF ScanDue
<1>2. ASSUME \A s \in pend' : Due(s)'
      PROVE  ScanDue'
  BY <1>2 DEF ScanDue
<1>3. ASSUME NEW t \in RxTask, rx[t].pc # "proxy", ann' = ann, notified' = notified,
             \A u \in RxTask \ {t} : rx'[u] = rx[u], OnlyFrees
      PROVE  ScanDue'
  <2>1. ASSUME NEW s \in pend' PROVE Due(s)'
    <3>1. s \in pend /\ age'[s] = age[s]
      BY <1>3 DEF OnlyFrees
    <3>2. Waking(s) => Waking(s)'
      BY <1>3, <3>1, WakingStays
    <3> QED BY <1>1, <1>3, <3>1, <3>2 DEF Unscanned
  <2> QED BY <1>2, <2>1
<1>4. CASE Tick
  <2>1. ASSUME NEW s \in pend' PROVE Due(s)'
    <3>1. s \in pend /\ s \in Slot /\ age'[s] <= age[s] + 1 /\ age'[s] \in Nat
      BY <1>0, <1>4, TickDoes, TickAges
    <3>2. Waking(s) => Waking(s)'
      <4> SUFFICES ASSUME Waking(s) PROVE Waking(s)'
        OBVIOUS
      <4>1. PICK t \in RxTask : /\ rx[t].pc = "proxy" /\ rx[t].isNew /\ rx[t].slot = s
                                /\ age[s] <= MaxDelay + rx[t].lag
        BY DEF Waking
      <4>2. /\ rx'[t].pc = "proxy" /\ rx'[t].isNew /\ rx'[t].slot = s
            /\ rx'[t].lag = rx[t].lag + 1
        BY <1>0, <1>4, <4>1, TickDoes
      <4>3. age'[s] <= MaxDelay + rx'[t].lag
        BY <1>0, <3>1, <4>1, <4>2
      <4> QED BY <4>2, <4>3 DEF Waking
    <3>3. /\ ann'.pc = ann.pc /\ ann'.idx = ann.idx /\ notified' = notified
          /\ ann.pc = "wait" => ~notified
          /\ ann.pc # "wait" => ann'.lag = ann.lag + 1
      BY <1>0, <1>4, TickDoes
    <3>4. Unscanned(s) => Unscanned(s)'
      BY <3>3 DEF Unscanned
    <3>5. Due(s)
      BY <1>1, <3>1
    <3>6. ann'.pc = "wait" => Waking(s)'
      BY <3>2, <3>3, <3>5
    <3>7. ann'.pc \in {"lock", "scan"} =>
             Unscanned(s)' /\ age'[s] <= 2 * MaxDelay + ann'.lag
      BY <1>0, <3>1, <3>3, <3>4, <3>5
    <3>8. ann'.pc = "push" =>
             (Waking(s)' \/ notified') /\ age'[s] <= MaxDelay + ann'.lag
      BY <1>0, <3>1, <3>2, <3>3, <3>5
    <3> QED BY <3>6, <3>7, <3>8
  <2> QED BY <1>2, <2>1
<1>5. ASSUME NEW t \in RxTask, NEW c \in Claim, NEW want, RxFrame(t, c, want)
      PROVE  ScanDue'
  BY <1>0, <1>3, <1>5, RxFrameDoes, SameOnlyFrees
<1>6. ASSUME NEW t \in RxTask, LearnScan(t)
      PROVE  ScanDue'
  BY <1>0, <1>3, <1>6, LearnScanDoes, SameOnlyFrees
<1>7. ASSUME NEW t \in RxTask, LearnPublish(t)
      PROVE  ScanDue'
  <2>1. ASSUME NEW s \in pend' PROVE Due(s)'
    <3>1. /\ ann' = ann /\ notified' = notified
          /\ \A u \in RxTask \ {t} : rx'[u] = rx[u]
          /\ rx[t].pc = "publish" /\ rx'[t].pc = "proxy"
          /\ rx'[t].lag = rx[t].lag /\ rx'[t].slot = rx[t].slot
          /\ rx'[t].isNew = rx[t].isNew
          /\ rx[t].lag <= MaxDelay
      BY <1>0, <1>7, LearnPublishDoes
    <3>2. ann.pc # "scan"
      BY <1>0, <3>1, ArpTasks DEF LockOwned
    <3>3. CASE s # rx[t].slot
      <4>1. s \in pend /\ age'[s] = age[s]
        BY <1>0, <1>7, <3>3, LearnPublishDoes
      <4>2. Waking(s) => Waking(s)'
        BY <3>1, <4>1, WakingStays
      <4> QED BY <1>1, <3>1, <4>1, <4>2 DEF Unscanned
    <3>4. CASE s = rx[t].slot
      <4>1. age'[s] = rx[t].lag /\ age'[s] \in Nat /\ age'[s] <= MaxDelay
        BY <1>0, <1>7, <3>1, <3>4, LearnPublishDoes
      <4>2. CASE rx[t].isNew
        <5>1. /\ rx'[t].pc = "proxy" /\ rx'[t].slot = s
              /\ age'[s] <= MaxDelay + rx'[t].lag
          BY <1>0, <3>1, <3>4, <4>1
        <5>2. rx'[t].isNew
          BY <3>1, <4>2
        <5>3. Waking(s)'
          BY <5>1, <5>2 DEF Waking
        <5> QED BY <1>0, <3>1, <3>2, <4>1, <5>3 DEF Unscanned
      <4>3. CASE ~rx[t].isNew
        <5>1. s \in pend
          BY <1>0, <1>7, <4>3, LearnPublishDoes
        <5>2. Waking(s) => Waking(s)'
          <6> SUFFICES ASSUME Waking(s) PROVE Waking(s)'
            OBVIOUS
          <6>1. PICK u \in RxTask : rx[u].pc = "proxy" /\ rx[u].isNew /\ rx[u].slot = s
            BY DEF Waking
          <6>2. rx'[u] = rx[u] /\ age'[s] <= MaxDelay + rx[u].lag
            BY <1>0, <3>1, <4>1, <6>1
          <6> QED BY <6>1, <6>2 DEF Waking
        <5>3. Due(s)
          BY <1>1, <5>1
        <5> QED BY <1>0, <3>1, <3>2, <4>1, <5>2, <5>3 DEF Unscanned
      <4> QED BY <4>2, <4>3
    <3> QED BY <3>3, <3>4
  <2> QED BY <1>2, <2>1
<1>8. ASSUME NEW t \in RxTask, LearnDone(t)
      PROVE  ScanDue'
  <2>1. ASSUME NEW s \in pend' PROVE Due(s)'
    <3>1. /\ s \in pend /\ age' = age /\ ann' = ann
          /\ notified' = (notified \/ rx[t].isNew) /\ rx[t].pc = "proxy"
          /\ \A u \in RxTask \ {t} : rx'[u] = rx[u]
          /\ rx[t].lag <= MaxDelay
      BY <1>0, <1>8, LearnDoneDoes
    <3>2. Waking(s) => Waking(s)' \/ (notified' /\ age'[s] <= 2 * MaxDelay)
      <4> SUFFICES ASSUME Waking(s)
                   PROVE  Waking(s)' \/ (notified' /\ age'[s] <= 2 * MaxDelay)
        OBVIOUS
      <4>1. PICK u \in RxTask : /\ rx[u].pc = "proxy" /\ rx[u].isNew /\ rx[u].slot = s
                                /\ age[s] <= MaxDelay + rx[u].lag
        BY DEF Waking
      <4>2. CASE u = t
        <5>1. notified'
          BY <3>1, <4>1, <4>2
        <5>2. age'[s] <= 2 * MaxDelay
          BY <1>0, <3>1, <4>1, <4>2
        <5> QED BY <5>1, <5>2
      <4>3. CASE u # t
        BY <3>1, <4>1, <4>3 DEF Waking
      <4> QED BY <4>2, <4>3
    <3>3. notified => notified'
      BY <3>1
    <3> QED BY <1>1, <3>1, <3>2, <3>3 DEF Unscanned
  <2> QED BY <1>2, <2>1
<1>9. ASSUME NEW t \in RxTask, Lookup(t) \/ Reply(t)
      PROVE  ScanDue'
  BY <1>0, <1>3, <1>9, LookupDoes, ReplyDoes, SameOnlyFrees
<1>10. ASSUME rx' = rx, ann' = ann, notified' = notified, OnlyFrees
       PROVE  ScanDue'
  <2>1. ASSUME NEW s \in pend' PROVE Due(s)'
    BY <1>1, <1>10 DEF OnlyFrees, Unscanned, Waking
  <2> QED BY <1>2, <2>1
<1>11. CASE Report \/ StaStatus \/ Forget
  BY <1>0, <1>10, <1>11, StatusDoes
<1>12. CASE AnnounceWake
  <2>1. ASSUME NEW s \in pend' PROVE Due(s)'
    <3>1. /\ s \in pend /\ age' = age /\ ann.pc = "wait"
          /\ ann'.pc = "lock" /\ ann'.lag = 0
      BY <1>0, <1>12, AnnounceWakeDoes
    <3>2. age[s] <= 2 * MaxDelay
      <4>1. Waking(s) => age[s] <= 2 * MaxDelay
        BY <1>0, <3>1 DEF Waking
      <4> QED BY <1>1, <3>1, <4>1
    <3> QED BY <1>0, <3>1, <3>2 DEF Unscanned
  <2> QED BY <1>2, <2>1
<1>13. CASE AnnounceLock
  <2>1. ASSUME NEW s \in pend' PROVE Due(s)'
    <3>1. /\ s \in pend /\ age' = age /\ ann.pc = "lock"
          /\ ann'.pc = "scan" /\ ann'.lag = ann.lag /\ ann'.idx = 1
      BY <1>0, <1>13, AnnounceLockDoes
    <3> QED BY <1>0, <1>1, <3>1 DEF Unscanned
  <2> QED BY <1>2, <2>1
<1>14. CASE AnnounceScan
  <2>1. ASSUME NEW s \in pend' PROVE Due(s)'
    <3>1. /\ s \in pend /\ s # ann.idx /\ age'[s] = age[s] /\ ann.pc = "scan"
          /\ ann'.lag = ann.lag
          /\ \/ ann.idx = GW_ARP_MAX /\ ann'.pc = "push"
             \/ ann'.pc = "scan" /\ ann'.idx = ann.idx + 1
      BY <1>0, <1>14, AnnounceScanDoes DEF OnlyFrees
    <3>2. s >= ann.idx /\ age[s] <= 2 * MaxDelay + ann.lag
      BY <1>1, <3>1 DEF Unscanned
    <3>3. ann'.pc = "scan" /\ ann'.idx = ann.idx + 1 /\ s >= ann.idx + 1
      BY <1>0, <3>1, <3>2
    <3> QED BY <3>1, <3>2, <3>3 DEF Unscanned
  <2> QED BY <1>2, <2>1
<1>15. CASE AnnouncePush
  <2>1. ASSUME NEW s \in pend' PROVE Due(s)'
    <3>1. /\ s \in pend /\ age' = age /\ rx' = rx /\ notified' = notified
          /\ ann.pc = "push" /\ ann'.pc = "wait"
      BY <1>0, <1>15, AnnouncePushDoes
    <3>2. Waking(s) => Waking(s)'
      BY <3>1 DEF Waking
    <3>3. age[s] <= 2 * MaxDelay
      BY <1>0, <1>1, <3>1
    <3> QED BY <1>1, <3>1, <3>2, <3>3
  <2> QED BY <1>2, <2>1
<1>16. CASE UNCHANGED vars
  BY <1>10, <1>16, SameOnlyFrees DEF vars, historyVars
<1> QED BY <1>4, <1>5, <1>6, <1>7, <1>8, <1>9, <1>11, <1>12, <1>13, <1>14,
           <1>15, <1>16
        DEF Next, RxStep, AnnounceStep

LEMMA VictimStep ==
  ASSUME TableInv, ClockRead, AgesBounded, VictimIsOldest, [Next]_vars
  PROVE  VictimIsOldest'
<1> DEFINE Oldest(t) ==
             /\ rx[t].isNew = ~Holds(rx[t].slot, rx[t].claim.ip)
             /\ rx[t].isNew /\ arp[rx[t].slot].used =>
                  Used = Slot /\ \A r \in Slot : age[r] <= age[rx[t].slot]
<1>0. /\ ArpTypeOK /\ LockOwned
      /\ clock \in Int
      /\ \A s \in Slot : age[s] \in Nat
      /\ \A t \in RxTask : rx[t].slot \in Slot
  BY ConstantTypes DEF TableInv, ArpTypeOK, RxLocals
<1> USE ArpTasks
<1>1. \A t \in RxTask : rx[t].pc = "publish" => Oldest(t) /\ lock = t
  BY <1>0 DEF VictimIsOldest, LockOwned
<1>2. ASSUME \A t \in RxTask : rx'[t].pc = "publish" => Oldest(t)'
      PROVE  VictimIsOldest'
  BY <1>2 DEF VictimIsOldest
<1>3. ASSUME \A t \in RxTask : rx'[t].pc = "publish" => rx'[t] = rx[t],
             (lock # NoTask /\ lock # Ann) => arp' = arp /\ age' = age
      PROVE  VictimIsOldest'
  <2>1. ASSUME NEW t \in RxTask, rx'[t].pc = "publish" PROVE Oldest(t)'
    <3>1. rx'[t] = rx[t] /\ rx[t].pc = "publish" /\ Oldest(t) /\ lock = t
      BY <1>1, <1>3, <2>1
    <3>2. arp' = arp /\ age' = age
      BY <1>3, <3>1
    <3> QED BY <3>1, <3>2 DEF Holds, Used
  <2> QED BY <1>2, <2>1
<1>4. CASE Tick
  <2>1. ASSUME NEW t \in RxTask, rx'[t].pc = "publish" PROVE Oldest(t)'
    <3>1. /\ rx[t].pc = "publish" /\ Oldest(t) /\ arp' = arp
          /\ rx'[t].slot = rx[t].slot /\ rx'[t].isNew = rx[t].isNew
          /\ rx'[t].claim = rx[t].claim
      BY <1>0, <1>1, <1>4, <2>1, TickDoes
    <3>2. Used = Slot => \A s \in Slot : age'[s] = age[s] + 1
      BY <1>0, <1>4, TickAges DEF Used
    <3>3. rx'[t].isNew = ~Holds(rx[t].slot, rx[t].claim.ip)'
      BY <3>1 DEF Holds
    <3>4. ASSUME rx[t].isNew, arp[rx[t].slot].used
          PROVE  Used' = Slot /\ \A r \in Slot : age'[r] <= age'[rx[t].slot]
      BY <1>0, <3>1, <3>2, <3>4 DEF Used
    <3> QED BY <3>1, <3>3, <3>4 DEF Holds
  <2> QED BY <1>2, <2>1
<1>5. ASSUME NEW t \in RxTask, NEW c \in Claim, NEW want, RxFrame(t, c, want)
      PROVE  VictimIsOldest'
  BY <1>0, <1>3, <1>5, RxFrameDoes
<1>6. ASSUME NEW t \in RxTask, LearnScan(t)
      PROVE  VictimIsOldest'
  <2> DEFINE s == rx'[t].slot
             ip == rx[t].claim.ip
  <2>1. /\ arp' = arp /\ age' = age /\ lock = NoTask
        /\ \A u \in RxTask \ {t} : rx'[u] = rx[u]
        /\ rx'[t].claim = rx[t].claim /\ s \in Slot /\ Chosen(s, ip)
        /\ rx'[t].isNew = ~Holds(s, ip)
    BY <1>0, <1>6, LearnScanDoes
  <2>2. \A u \in RxTask \ {t} : rx'[u].pc # "publish"
    BY <1>1, <2>1
  <2>3. ASSUME rx'[t].isNew, arp[s].used
        PROVE  Used = Slot /\ \A r \in Slot : age[r] <= age[s]
    <3>1. ~Holds(s, ip)
      BY <2>1, <2>3
    <3>2. Used = Slot /\ IsLru(s)
      BY <2>1, <2>3, <3>1 DEF Chosen, IsHit, IsFree, Used
    <3>3. \A r \in Slot : /\ age[r] \in Nat /\ age[r] <= AgeBound
                          /\ arp[r].last = (clock - age[r]) % ClockMod
      BY <1>0, <3>2, AgesInBound DEF ClockRead
    <3>4. \A q, r \in Slot : Before(arp[q].last, arp[r].last) <=> age[q] > age[r]
      BY <1>0, <3>3, BeforeIs
    <3>5. ASSUME NEW r \in Slot PROVE age[r] <= age[s]
      <4>1. s \in Slot /\ \A q \in Slot : q \in Nat /\ q >= 1 /\ q <= GW_ARP_MAX
        BY <2>1, ConstantTypes
      <4>2. r \in 1 .. s - 1 \/ r \in s + 1 .. GW_ARP_MAX \/ r = s
        BY <4>1, ArpTiming
      <4> HIDE DEF s
      <4>3. CASE r \in 1 .. s - 1
        <5>1. Before(arp[s].last, arp[r].last)
          BY <3>2, <4>3 DEF IsLru
        <5> QED BY <1>0, <3>4, <4>1, <5>1
      <4>4. CASE r \in s + 1 .. GW_ARP_MAX
        <5>1. ~Before(arp[r].last, arp[s].last)
          BY <3>2, <4>4 DEF IsLru
        <5> QED BY <1>0, <3>4, <4>1, <5>1
      <4> QED BY <1>0, <2>1, <4>2, <4>3, <4>4
    <3> QED BY <3>2, <3>5
  <2>4. Oldest(t)'
    <3>1. rx'[t].isNew = ~(/\ arp'[rx'[t].slot].used
                           /\ arp'[rx'[t].slot].claim.ip = rx'[t].claim.ip)
      BY <2>1 DEF Holds
    <3>2. rx'[t].isNew /\ arp'[rx'[t].slot].used =>
            Used' = Slot /\ \A r \in Slot : age'[r] <= age'[rx'[t].slot]
      BY <2>1, <2>3 DEF Used
    <3> QED BY <3>1, <3>2 DEF Holds
  <2> QED BY <1>2, <2>2, <2>4
<1>7. ASSUME NEW t \in RxTask, LearnPublish(t)
      PROVE  VictimIsOldest'
  <2>1. /\ rx[t].pc = "publish" /\ rx'[t].pc = "proxy"
        /\ \A u \in RxTask \ {t} : rx'[u] = rx[u]
    BY <1>0, <1>7, LearnPublishDoes
  <2>2. \A u \in RxTask : rx'[u].pc # "publish"
    BY <1>1, <2>1
  <2> QED BY <1>2, <2>2
<1>8. ASSUME NEW t \in RxTask, LearnDone(t) \/ Reply(t)
      PROVE  VictimIsOldest'
  BY <1>0, <1>3, <1>8, LearnDoneDoes, ReplyDoes
<1>9. ASSUME NEW t \in RxTask, Lookup(t)
      PROVE  VictimIsOldest'
  BY <1>0, <1>3, <1>9, LookupDoes
<1>10. CASE Report \/ StaStatus \/ Forget
  BY <1>0, <1>3, <1>10, StatusDoes
<1>11. CASE AnnounceWake \/ AnnouncePush
  BY <1>0, <1>3, <1>11, AnnounceWakeDoes, AnnouncePushDoes
<1>12. CASE AnnounceLock
  BY <1>0, <1>3, <1>12, AnnounceLockDoes
<1>13. CASE AnnounceScan
  <2>1. lock = Ann /\ rx' = rx
    BY <1>0, <1>13, AnnounceScanDoes DEF LockOwned
  <2> QED BY <1>3, <2>1
<1>14. CASE UNCHANGED vars
  BY <1>3, <1>14 DEF vars, historyVars
<1> QED BY <1>4, <1>5, <1>6, <1>7, <1>8, <1>9, <1>10, <1>11, <1>12, <1>13, <1>14
        DEF Next, RxStep, AnnounceStep

LEMMA PresentStep ==
  ASSUME ArpTypeOK, ClientsPresent, [Next]_vars
  PROVE  ClientsPresent'
<1> DEFINE TablePresent ==
             \A s \in Used' : arp'[s].claim.side = AP => arp'[s].claim.mac \in Present'
           RxPresent(t) ==
             rx'[t].pc \in {"learn", "publish"} /\ rx'[t].claim.side = AP =>
               rx'[t].claim.mac \in Present'
           StaShape == sta' = [pc |-> sta'.pc, mac |-> sta'.mac]
<1>0. /\ sta = [pc |-> sta.pc, mac |-> sta.mac]
      /\ \A s \in Slot : arp[s].used =>
           (arp[s].claim.side = AP => arp[s].claim.mac \in Present)
      /\ \A t \in RxTask :
           rx[t].pc \in {"learn", "publish"} /\ rx[t].claim.side = AP =>
             rx[t].claim.mac \in Present
  BY DEF ClientsPresent, Used
<1>1. ASSUME StaShape, TablePresent, \A t \in RxTask : RxPresent(t)
      PROVE  ClientsPresent'
  BY <1>1 DEF ClientsPresent
<1>2. ASSUME Present \subseteq Present', OnlyFrees
      PROVE  TablePresent
  BY <1>0, <1>2 DEF OnlyFrees, Used
<1>3. ASSUME Present \subseteq Present', NEW t \in RxTask, rx'[t] = rx[t]
      PROVE  RxPresent(t)
  BY <1>0, <1>3
<1>4. ASSUME UNCHANGED <<assoc, late, sta>>
      PROVE  Present \subseteq Present' /\ StaShape
  BY <1>0, <1>4 DEF Present
<1>5. ASSUME UNCHANGED <<assoc, late, sta>>, rx' = rx, OnlyFrees
      PROVE  ClientsPresent'
  BY <1>1, <1>2, <1>3, <1>4, <1>5
<1>6. CASE Tick
  <2>1. /\ UNCHANGED <<assoc, late, sta, arp>>
        /\ \A t \in RxTask : rx'[t].pc = rx[t].pc /\ rx'[t].claim = rx[t].claim
    BY <1>6, TickDoes
  <2>2. Present' = Present
    BY <2>1 DEF Present
  <2> QED BY <1>0, <1>1, <2>1, <2>2 DEF Used
<1>7. ASSUME NEW t \in RxTask, NEW c \in Claim, NEW want, RxFrame(t, c, want)
      PROVE  ClientsPresent'
  <2>1. RxPresent(t)
    BY <1>7, RxFrameDoes DEF Present
  <2>2. /\ UNCHANGED <<assoc, late, sta>> /\ OnlyFrees
        /\ \A u \in RxTask \ {t} : rx'[u] = rx[u]
    BY <1>7, RxFrameDoes, SameOnlyFrees
  <2> QED BY <1>1, <1>2, <1>3, <1>4, <2>1, <2>2
<1>8. ASSUME NEW t \in RxTask, LearnScan(t) \/ LearnDone(t) \/ Lookup(t) \/ Reply(t)
      PROVE  ClientsPresent'
  <2>1. /\ UNCHANGED <<assoc, late, sta>> /\ OnlyFrees
        /\ \A u \in RxTask \ {t} : rx'[u] = rx[u]
    BY <1>8, LearnScanDoes, LearnDoneDoes, LookupDoes, ReplyDoes, SameOnlyFrees
  <2>2. \/ rx[t].pc = "learn" /\ rx'[t].claim = rx[t].claim
        \/ rx'[t].pc \notin {"learn", "publish"}
    BY <1>8, LearnScanDoes, LearnDoneDoes, LookupDoes, ReplyDoes
  <2>3. RxPresent(t)
    BY <1>0, <1>4, <2>1, <2>2
  <2> QED BY <1>1, <1>2, <1>3, <1>4, <2>1, <2>3
<1>9. ASSUME NEW t \in RxTask, LearnPublish(t)
      PROVE  ClientsPresent'
  <2>1. /\ UNCHANGED <<assoc, late, sta>>
        /\ \A u \in RxTask \ {t} : rx'[u] = rx[u]
        /\ rx[t].pc = "publish" /\ rx'[t].pc = "proxy"
        /\ \A s \in Slot \ {rx[t].slot} : arp'[s] = arp[s]
        /\ arp'[rx[t].slot].claim = rx[t].claim
    BY <1>9, LearnPublishDoes
  <2>2. TablePresent
    BY <1>0, <1>4, <2>1 DEF Used
  <2>3. RxPresent(t)
    BY <2>1
  <2> QED BY <1>1, <1>3, <1>4, <2>1, <2>2, <2>3
<1>10. CASE Report
  <2>1. PICK m \in ClientMac : \/ ReportAuthorized(m) /\ late' = late \ {m}
                               \/ ReportUnknown(m) /\ late' = late
    BY <1>10 DEF Report
  <2>2. /\ sta.pc = "idle" /\ sta'.mac = m /\ StaShape
        /\ \/ assoc' = assoc \cup {m} /\ late' = late \ {m}
           \/ assoc' = assoc \ {m} /\ late' = late /\ sta'.pc = "unknown"
    BY <2>1 DEF ReportAuthorized, ReportUnknown
  <2>3. Present \subseteq Present'
    BY <2>2 DEF Present
  <2>4. rx' = rx /\ OnlyFrees
    BY <1>10, StatusDoes
  <2> QED BY <1>1, <1>2, <1>3, <2>2, <2>3, <2>4
<1>11. CASE StaStatus
  <2>1. /\ UNCHANGED <<assoc, late>> /\ StaShape
        /\ \/ sta.pc = "authorized"
           \/ sta.pc = "unknown" /\ sta'.pc = "forget" /\ sta'.mac = sta.mac
    BY <1>0, <1>11
    DEF StaStatus, StaStep, StaAuthorized, StaUnknown, StaIdle, historyVars
  <2>2. Present \subseteq Present'
    BY <2>1 DEF Present
  <2>3. rx' = rx /\ OnlyFrees
    BY <1>11, StatusDoes
  <2> QED BY <1>1, <1>2, <1>3, <2>1, <2>2, <2>3
<1>12. CASE Forget
  <2>1. /\ sta.pc = "forget" /\ StaShape /\ assoc' = assoc /\ rx' = rx
        /\ late' = IF InFlight(sta.mac) THEN late \cup {sta.mac} ELSE late
    BY <1>12 DEF Forget, StaForgotten, StaIdle
  <2>2. Present \ {sta.mac} \subseteq Present'
    BY <2>1 DEF Present
  <2>3. \A s \in Slot : arp'[s].used =>
          arp[s].used /\ arp'[s] = arp[s] /\ arp[s].claim.mac # sta.mac
    BY <1>12, RestTypes DEF Forget, Freed
  <2>4. TablePresent
    BY <1>0, <2>2, <2>3 DEF Used
  <2>5. ASSUME NEW t \in RxTask PROVE RxPresent(t)
    <3> SUFFICES ASSUME rx'[t].pc \in {"learn", "publish"}, rx'[t].claim.side = AP
                 PROVE  rx'[t].claim.mac \in Present'
      OBVIOUS
    <3>1. rx[t].claim.mac \in Present
      BY <1>0, <2>1
    <3>2. CASE rx[t].claim.mac = sta.mac
      <4>1. InFlight(sta.mac)
        BY <2>1, <3>2 DEF InFlight
      <4> QED BY <2>1, <3>2, <4>1 DEF Present
    <3>3. CASE rx[t].claim.mac # sta.mac
      BY <2>1, <2>2, <3>1, <3>3
    <3> QED BY <3>2, <3>3
  <2> QED BY <1>1, <2>1, <2>4, <2>5
<1>13. CASE AnnounceStep
  <2>1. UNCHANGED <<assoc, late, sta>> /\ rx' = rx /\ OnlyFrees
    BY <1>13, AnnounceWakeDoes, AnnounceLockDoes, AnnounceScanDoes,
       AnnouncePushDoes, SameOnlyFrees
    DEF AnnounceStep
  <2> QED BY <1>5, <2>1
<1>14. CASE UNCHANGED vars
  BY <1>5, <1>14, SameOnlyFrees DEF vars, historyVars, clientVars
<1> QED BY <1>6, <1>7, <1>8, <1>9, <1>10, <1>11, <1>12, <1>13, <1>14
        DEF Next, RxStep

-----------------------------------------------------------------------------
LEMMA TimeInit == Init => TimeInv
<1> SUFFICES ASSUME Init PROVE TimeInv
  OBVIOUS
<1>1. /\ Used = {} /\ pend = {} /\ \A t \in RxTask : rx[t].pc = "idle"
      /\ ann.pc = "wait" /\ ann.wait = ANNOUNCE_PERIOD
      /\ sta = [pc |-> "idle", mac |-> NoMac]
  BY RestTypes DEF Init, Used, AnnWait, ClientsInit, StaIdle
<1> QED BY <1>1, Window
        DEF TimeInv, ClockRead, AgesBounded, ScanDue, VictimIsOldest, ClientsPresent

LEMMA TimeStep == TableInv /\ TimeInv /\ [Next]_vars => TimeInv'
BY ClockReadStep, AgesStep, ScanDueStep, VictimStep, PresentStep
DEF TimeInv, TableInv

LEMMA TimeInvariant == Spec => [](TableInv /\ TimeInv)
BY TableInvariant, TimeInit, TimeStep, PTL DEF Spec

(* No mapping outlives its time in the table: it goes one TTL, one period  *)
(* and two delays after its host was last heard at the latest, and with    *)
(* its client, unless a frame of the client was being learnt just then.    *)
THEOREM NothingOverdue == Spec => []NoneOverdue
<1>1. TableInv /\ TimeInv => NoneOverdue
  <2> SUFFICES ASSUME TableInv, TimeInv PROVE NoneOverdue
    OBVIOUS
  <2>1. NoImmortalEntry
    BY AgesInBound DEF TableInv, TimeInv, ClockRead, NoImmortalEntry
  <2>2. DepartedForgotten
    BY DEF TimeInv, ClientsPresent, Present, DepartedForgotten
  <2> QED BY <2>1, <2>2 DEF NoneOverdue
<1> QED BY <1>1, TimeInvariant, PTL

(* A new mapping is met by an announce scan within three delays of its     *)
(* frame, wherever the announce task was when its notification came.       *)
THEOREM NewIsAnnounced == Spec => []PromptAnnounce
<1>1. TableInv /\ TimeInv => PromptAnnounce
  <2> SUFFICES ASSUME TableInv, TimeInv, NEW s \in pend
               PROVE  age[s] <= 3 * MaxDelay
    BY DEF PromptAnnounce
  <2>1. /\ ann.pc \in {"wait", "lock", "scan", "push"} /\ ann.lag \in Nat
        /\ ann.pc # "wait" => ann.lag <= MaxDelay
        /\ s \in Slot /\ age[s] \in Nat /\ MaxDelay \in Nat
        /\ \A t \in RxTask : /\ rx[t].lag \in Nat
                             /\ rx[t].pc # "idle" => rx[t].lag <= MaxDelay
    BY Window DEF TableInv, TimeInv, ArpTypeOK, RxLocals, AnnLocals, ClockRead
  <2>2. Waking(s) => age[s] <= 2 * MaxDelay
    BY <2>1 DEF Waking
  <2> QED BY <2>1, <2>2 DEF TimeInv, ScanDue
<1> QED BY <1>1, TimeInvariant, PTL

(* The ages of a slot in use and of a task's reading decide the expiry.    *)
LEMMA ExpiredAtLookup ==
  ASSUME TableInv, TimeInv, NEW s \in Used, NEW t \in RxTask, rx[t].pc # "idle"
  PROVE  Expired(rx[t].now, arp[s])
           <=> age[s] > GW_ARP_TTL + rx[t].lag \/ age[s] < rx[t].lag
<1>1. ArpTypeOK /\ ClockRead /\ AgesBounded
  BY DEF TableInv, TimeInv
<1>2. /\ rx[t].lag \in Nat /\ rx[t].lag <= MaxDelay /\ clock \in Int
      /\ rx[t].now = (clock - rx[t].lag) % ClockMod
      /\ arp[s].last = (clock - age[s]) % ClockMod
      /\ age[s] \in Nat /\ age[s] <= AgeBound
  BY <1>1, ConstantTypes, AgesInBound DEF ArpTypeOK, RxLocals, ClockRead
<1>3. Expired((clock - rx[t].lag) % ClockMod, arp[s])
        <=> age[s] > GW_ARP_TTL + rx[t].lag \/ age[s] < rx[t].lag
  BY <1>2, ExpiredIs
<1> QED BY <1>2, <1>3

LEMMA ExpiredAtScan ==
  ASSUME TableInv, TimeInv, NEW s \in Used, ann.pc # "wait"
  PROVE  Expired(ann.now, arp[s])
           <=> age[s] > GW_ARP_TTL + ann.lag \/ age[s] < ann.lag
<1>1. ArpTypeOK /\ ClockRead /\ AgesBounded
  BY DEF TableInv, TimeInv
<1>2. /\ ann.lag \in Nat /\ ann.lag <= MaxDelay /\ clock \in Int
      /\ ann.now = (clock - ann.lag) % ClockMod
      /\ arp[s].last = (clock - age[s]) % ClockMod
      /\ age[s] \in Nat /\ age[s] <= AgeBound
  BY <1>1, ConstantTypes, AgesInBound DEF ArpTypeOK, AnnLocals, ClockRead
<1>3. Expired((clock - ann.lag) % ClockMod, arp[s])
        <=> age[s] > GW_ARP_TTL + ann.lag \/ age[s] < ann.lag
  BY <1>2, ExpiredIs
<1> QED BY <1>2, <1>3

(* A task drops a mapping for its age only when the host has not been      *)
(* heard for the TTL, or was heard after the task read the clock.          *)
THEOREM OnlyStaleExpires == Spec => ExpiryJustified
<1> DEFINE Justified(s) ==
             \/ age[s] > GW_ARP_TTL
             \/ ann.pc = "scan" /\ age[s] < ann.lag
             \/ \E t \in RxTask : rx[t].pc = "lookup" /\ age[s] < rx[t].lag
<1>1. ASSUME TableInv, TimeInv, [Next]_vars, NEW s \in Slot, Dropped(s)
      PROVE  Justified(s)
  <2>0. /\ ArpTypeOK /\ s \in Used /\ arp' # arp /\ ~arp'[s].used /\ sta' = sta
        /\ age[s] \in Nat /\ GW_ARP_TTL \in Nat /\ ann.lag \in Nat
        /\ \A t \in RxTask : rx[t].lag \in Nat
    BY <1>1, Window DEF Dropped, Used, TableInv, ArpTypeOK, RxLocals, AnnLocals
  <2>1. CASE \E t \in RxTask : LearnPublish(t)
    BY <2>0, <2>1, LearnPublishDoes DEF Used
  <2>2. ASSUME NEW t \in RxTask, Lookup(t)
        PROVE  Justified(s)
    <3>1. rx[t].pc = "lookup" /\ Expired(rx[t].now, arp[s])
      BY <2>0, <2>2, LookupDoes DEF Used
    <3>2. age[s] > GW_ARP_TTL + rx[t].lag \/ age[s] < rx[t].lag
      BY <1>1, <2>0, <3>1, ExpiredAtLookup
    <3> QED BY <2>0, <3>1, <3>2
  <2>3. CASE AnnounceScan
    <3>1. ann.pc = "scan" /\ Expired(ann.now, arp[s])
      BY <2>0, <2>3, AnnounceScanDoes DEF Used
    <3>2. age[s] > GW_ARP_TTL + ann.lag \/ age[s] < ann.lag
      BY <1>1, <2>0, <3>1, ExpiredAtScan
    <3> QED BY <2>0, <3>1, <3>2
  <2>4. CASE \/ Tick \/ Report \/ StaStatus \/ Forget
             \/ AnnounceWake \/ AnnounceLock \/ AnnouncePush \/ UNCHANGED vars
    BY <2>0, <2>4, TickDoes, StatusDoes, AnnounceWakeDoes, AnnounceLockDoes,
       AnnouncePushDoes
    DEF vars
  <2>5. ASSUME NEW t \in RxTask, LearnScan(t) \/ LearnDone(t) \/ Reply(t)
        PROVE  FALSE
    BY <2>0, <2>5, LearnScanDoes, LearnDoneDoes, ReplyDoes
  <2>6. ASSUME NEW t \in RxTask, NEW c \in Claim, NEW want, RxFrame(t, c, want)
        PROVE  FALSE
    BY <2>0, <2>6, RxFrameDoes
  <2> QED BY <1>1, <2>1, <2>2, <2>3, <2>4, <2>5, <2>6
          DEF Next, RxStep, AnnounceStep
<1>2. TableInv /\ TimeInv /\ [Next]_vars => [\A s \in Slot : Dropped(s) => Justified(s)]_vars
  BY <1>1
<1> QED BY <1>2, TimeInvariant, PTL DEF Spec, ExpiryJustified

(* An ARP request is answered only with a mapping of the other side that   *)
(* the table holds and that was fresh when the request came.               *)
THEOREM AnswersAreFresh == Spec => AnswerFresh
<1> DEFINE Fresh(t) ==
             \E s \in Used : /\ arp[s].claim = rx'[t].answer
                             /\ arp[s].claim.ip = rx[t].want
                             /\ arp[s].claim.side # rx[t].claim.side
                             /\ age[s] <= GW_ARP_TTL + rx[t].lag
<1>1. ASSUME TableInv, TimeInv, [Next]_vars, NEW t \in RxTask,
             rx[t].pc = "lookup", rx'[t].pc = "reply"
      PROVE  Fresh(t)
  <2>0. ArpTypeOK
    BY <1>1 DEF TableInv
  <2>1. ASSUME Lookup(t)
        PROVE  Fresh(t)
    <3>1. PICK s \in Slot : /\ arp[s].used /\ arp[s].claim = rx'[t].answer
                            /\ arp[s].claim.ip = rx[t].want
                            /\ arp[s].claim.side # rx[t].claim.side
                            /\ ~Expired(rx[t].now, arp[s])
      BY <1>1, <2>0, <2>1, LookupDoes
    <3>2. ~(age[s] > GW_ARP_TTL + rx[t].lag)
      BY <1>1, <3>1, ExpiredAtLookup DEF Used
    <3>3. age[s] \in Nat /\ GW_ARP_TTL \in Nat /\ rx[t].lag \in Nat
      BY <2>0, Window DEF ArpTypeOK, RxLocals
    <3> QED BY <3>1, <3>2, <3>3 DEF Used
  <2>2. ASSUME NEW u \in RxTask, RxStep(u), u # t
        PROVE  FALSE
    BY <1>1, <2>0, <2>2, LearnScanDoes, LearnPublishDoes, LearnDoneDoes,
       LookupDoes, ReplyDoes
    DEF RxStep
  <2>3. ASSUME RxStep(t), ~Lookup(t)
        PROVE  FALSE
    BY <1>1, <2>0, <2>3, LearnScanDoes, LearnPublishDoes, LearnDoneDoes,
       ReplyDoes
    DEF RxStep
  <2>4. ASSUME NEW u \in RxTask, NEW c \in Claim, NEW want, RxFrame(u, c, want)
        PROVE  FALSE
    BY <1>1, <2>0, <2>4, RxFrameDoes
  <2>5. CASE Tick
    BY <1>1, <2>0, <2>5, TickDoes
  <2>6. CASE Report \/ StaStatus \/ Forget \/ AnnounceStep \/ UNCHANGED vars
    BY <1>1, <2>0, <2>6, StatusDoes, AnnounceWakeDoes, AnnounceLockDoes,
       AnnounceScanDoes, AnnouncePushDoes
    DEF AnnounceStep, vars
  <2> QED BY <1>1, <2>1, <2>2, <2>3, <2>4, <2>5, <2>6 DEF Next
<1>2. TableInv /\ TimeInv /\ [Next]_vars =>
        [\A t \in RxTask : rx[t].pc = "lookup" /\ rx'[t].pc = "reply" => Fresh(t)]_vars
  BY <1>1
<1> QED BY <1>2, TimeInvariant, PTL DEF Spec, AnswerFresh

(* A mapping makes room for another only in a full table, and only as the  *)
(* one unheard for longest, wherever the clock wraps.                      *)
THEOREM VictimIsLongestUnheard == Spec => EvictsOldest
<1> DEFINE Evicted(s) ==
             arp[s].used /\ arp'[s].used /\ arp[s].claim.ip # arp'[s].claim.ip
<1>1. ASSUME TableInv, TimeInv, [Next]_vars, NEW s \in Slot, Evicted(s)
      PROVE  Used = Slot /\ \A r \in Slot : age[r] <= age[s]
  <2>1. ~Shrinks
    BY <1>1 DEF Shrinks
  <2>2. PICK t \in RxTask : LearnPublish(t)
    BY <1>1, <2>1, OnlyPublishAdds DEF TableInv
  <2>3. /\ rx[t].pc = "publish" /\ s = rx[t].slot
        /\ arp'[s].claim = rx[t].claim
    BY <1>1, <2>2, LearnPublishDoes DEF TableInv
  <2>4. ~Holds(s, rx[t].claim.ip)
    BY <1>1, <2>3 DEF Holds
  <2>5. rx[t].isNew
    BY <1>1, <2>3, <2>4 DEF TimeInv, VictimIsOldest
  <2> QED BY <1>1, <2>3, <2>5 DEF TimeInv, VictimIsOldest
<1>2. TableInv /\ TimeInv /\ [Next]_vars =>
        [\A s \in Slot :
           Evicted(s) => Used = Slot /\ \A r \in Slot : age[r] <= age[s]]_vars
  BY <1>1
<1> QED BY <1>2, TimeInvariant, PTL DEF Spec, EvictsOldest

=============================================================================
