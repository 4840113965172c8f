-------------------------- MODULE GateBringUpProofs --------------------------
(***************************************************************************)
(* Theorems about the start-up, for any number of stations and polls: the  *)
(* steps of app_main that each callback and task relies on are behind it   *)
(* when it first runs, whatever fails and whenever the chip resets.        *)
(***************************************************************************)
EXTENDS GateBringUp, GateClientsProofs

(* Order, and what app_main has behind it: every step before the next one  *)
(* succeeded, or failed and was ignored; none was skipped.                 *)
Behind == {Order[i] : i \in 1 .. step - 1}

Progress ==
  /\ ready \subseteq Behind
  /\ Behind \subseteq ready \cup lost

(* What is under way was armed by a step that succeeded.                   *)
Armed ==
  /\ assoc # {} \/ sta.pc # "idle" => "ap" \in ready
  /\ rx.pc # "idle" /\ rx.vif = "sta" => "rxSta" \in ready
  /\ rx.pc # "idle" /\ rx.vif = "ap" => "rxAp" \in ready
  /\ ann => "announce" \in ready

BringUpInv ==
  /\ ClientsInv
  /\ BringUpTypeOK
  /\ Progress
  /\ Armed
  /\ WakeReachesTask

-----------------------------------------------------------------------------
(* The order of the twelve steps, place by place.                          *)
LEMMA OrderPlaces ==
  /\ Len(Order) = 12 /\ DOMAIN Order = 1 .. 12
  /\ Order[1] = "sys" /\ Order[2] = "lock" /\ Order[3] = "init"
  /\ Order[4] = "mesh" /\ Order[5] = "ap" /\ Order[6] = "apNetif"
  /\ Order[7] = "bssid" /\ Order[8] = "input" /\ Order[9] = "announce"
  /\ Order[10] = "rxSta" /\ Order[11] = "rxAp" /\ Order[12] = "netTask"
BY DEF Order

(* A step that is ready has every earlier one behind it: the checked ones  *)
(* are ready, and the announce task is ready or was ignored.               *)
LEMMA ReadyHasEarlier ==
  ASSUME BringUpInv
  PROVE  /\ "ap" \in ready => "lock" \in ready
         /\ "announce" \in ready => "lock" \in ready
         /\ "rxSta" \in ready => "lock" \in ready /\ "announce" \in ready \cup lost
         /\ "rxAp" \in ready => /\ {"lock", "bssid", "input"} \subseteq ready
                                /\ "announce" \in ready \cup lost
<1>1. step \in 1 .. 13 /\ lost \subseteq {"announce", "netTask"}
  BY OrderPlaces DEF BringUpInv, BringUpTypeOK, Unchecked
<1>2. /\ "ap" \in ready => step > 5
      /\ "announce" \in ready => step > 9
      /\ "rxSta" \in ready => step > 10
      /\ "rxAp" \in ready => step > 11
  BY <1>1, OrderPlaces DEF BringUpInv, Progress, Behind
<1>3. /\ step > 2 => "lock" \in ready
      /\ step > 8 => {"bssid", "input"} \subseteq ready
      /\ step > 9 => "announce" \in ready \cup lost
  BY <1>1, OrderPlaces DEF BringUpInv, Progress, Behind
<1> QED BY <1>1, <1>2, <1>3

(* The three parts of StartedInOrder follow.                               *)
LEMMA InvOrders == BringUpInv => StartedInOrder
<1> SUFFICES ASSUME BringUpInv PROVE StartedInOrder
  OBVIOUS
<1>1. rx.pc # "idle" => rx.vif \in {"sta", "ap"}
  BY DEF BringUpInv, BringUpTypeOK
<1>2. AccessorsFindLock
  BY <1>1, ReadyHasEarlier DEF BringUpInv, Armed, AccessorsFindLock
<1>3. ApFrameHasNetif
  BY ReadyHasEarlier DEF BringUpInv, Armed, ApFrameHasNetif
<1> QED BY <1>2, <1>3 DEF BringUpInv, StartedInOrder

-----------------------------------------------------------------------------
(* A chip that powers on, or resets, has nothing armed.                    *)
LEMMA BringUpInit == Init => BringUpInv
<1> SUFFICES ASSUME Init PROVE BringUpInv
  OBVIOUS
<1>1. ClientsInv
  BY ClientsInitInv DEF Init
<1>2. BringUpTypeOK
  <2>1. 1 \in 1 .. Len(Order) + 1
    BY OrderPlaces
  <2>2. RxIdle \in [pc : {"idle", "learn", "wake"}, vif : {"sta", "ap"}, isNew : BOOLEAN]
    BY DEF RxIdle
  <2>3. NetIdle \in [pc : {"none", "start", "poll", "pin", "pinned", "missing"},
                     polls : 0 .. Polls]
    BY PollsBound DEF NetIdle
  <2> QED BY <1>1, <2>1, <2>2, <2>3 DEF Init, BringUpTypeOK, ClientsInv
<1>3. Progress
  BY DEF Init, Progress, Behind
<1>4. Armed /\ WakeReachesTask
  BY DEF Init, ClientsInit, StaIdle, RxIdle, Armed, WakeReachesTask
<1> QED BY <1>1, <1>2, <1>3, <1>4 DEF BringUpInv

LEMMA PowerOnAgain == Init' => BringUpInv'
BY BringUpInit, PTL

(* The steps of app_main move the frontier by one, or stay.                *)
LEMMA FrontierMoves ==
  ASSUME BringUpInv, Running, step' = step + 1
  PROVE  Behind' = Behind \cup {Order[step]} /\ step' \in 1 .. Len(Order) + 1
<1>1. step \in 1 .. 12
  BY OrderPlaces DEF BringUpInv, BringUpTypeOK, Running
<1>2. 1 .. step' - 1 = (1 .. step - 1) \cup {step}
  BY <1>1
<1>3. Behind' = {Order[i] : i \in 1 .. step' - 1}
  BY DEF Behind, Order
<1> QED BY <1>1, <1>2, <1>3, OrderPlaces DEF Behind

LEMMA BootKeeps ==
  ASSUME BringUpInv, Boot
  PROVE  BringUpInv'
<1> USE DEF BringUpInv
<1>1. CASE Advance
  <2>1. /\ Running /\ UNCHANGED clientVars
        /\ ready' = ready \cup {Order[step]} /\ step' = step + 1
        /\ UNCHANGED <<lost, rx, ann, dropped, netUp>>
    BY <1>1 DEF Advance
  <2>2. Behind' = Behind \cup {Order[step]} /\ step' \in 1 .. Len(Order) + 1
    BY <2>1, FrontierMoves
  <2>3. ClientsInv'
    BY <2>1, ClientsStutter
  <2>4. Order[step] \in Step
    BY <2>1 DEF Step, Running, BringUpTypeOK
  <2>5. BringUpTypeOK'
    <3>1. app' \in {"running", "returned"}
      BY <1>1 DEF Advance, BringUpTypeOK
    <3>2. net' \in [pc : {"none", "start", "poll", "pin", "pinned", "missing"},
                    polls : 0 .. Polls]
      BY <1>1 DEF Advance, BringUpTypeOK
    <3> QED BY <2>1, <2>2, <2>3, <2>4, <3>1, <3>2 DEF BringUpTypeOK, ClientsInv, Step, Order
  <2>6. Progress'
    BY <2>1, <2>2 DEF Progress
  <2>7. Armed' /\ WakeReachesTask'
    BY <2>1 DEF Armed, WakeReachesTask, clientVars
  <2> QED BY <2>3, <2>5, <2>6, <2>7
<1>2. CASE Abort
  <2>1. Init'
    BY <1>2 DEF Abort, Init, ClientsInit
  <2> QED BY <2>1, PowerOnAgain
<1>3. CASE Return
  <2>1. UNCHANGED <<clientVars, step, ready, lost, runVars>> /\ app' = "returned"
    BY <1>3 DEF Return
  <2>2. ClientsInv'
    BY <2>1, ClientsStutter
  <2>3. BringUpTypeOK'
    BY <2>1, <2>2 DEF BringUpTypeOK, ClientsInv, runVars, Step, Order
  <2>4. Progress' /\ Armed' /\ WakeReachesTask'
    BY <2>1 DEF Progress, Behind, Armed, WakeReachesTask, runVars, clientVars, Order
  <2> QED BY <2>2, <2>3, <2>4
<1>4. CASE Ignore
  <2>1. /\ Running /\ UNCHANGED clientVars /\ Order[step] \in Unchecked
        /\ lost' = lost \cup {Order[step]} /\ step' = step + 1
        /\ UNCHANGED <<ready, rx, ann, dropped, netUp, net>>
        /\ app' \in {"running", "returned"}
    BY <1>4 DEF Ignore, runVars, BringUpTypeOK
  <2>2. Behind' = Behind \cup {Order[step]} /\ step' \in 1 .. Len(Order) + 1
    BY <2>1, FrontierMoves
  <2>3. ClientsInv'
    BY <2>1, ClientsStutter
  <2>4. BringUpTypeOK'
    BY <2>1, <2>2, <2>3 DEF BringUpTypeOK, ClientsInv, Step, Order
  <2>5. Progress'
    BY <2>1, <2>2 DEF Progress
  <2>6. Armed' /\ WakeReachesTask'
    BY <2>1 DEF Armed, WakeReachesTask, clientVars
  <2> QED BY <2>3, <2>4, <2>5, <2>6
<1> QED BY <1>1, <1>2, <1>3, <1>4 DEF Boot

-----------------------------------------------------------------------------
(* What has been armed.                                                    *)
LEMMA StationKeeps ==
  ASSUME BringUpInv, Station
  PROVE  BringUpInv'
<1>1. "ap" \in ready /\ UNCHANGED <<bootVars, runVars>>
  BY DEF Station
<1>2. ClientsInv'
  BY ReportKeeps, StaStepKeeps DEF Station, BringUpInv
<1>3. BringUpTypeOK'
  BY <1>1, <1>2 DEF BringUpInv, BringUpTypeOK, ClientsInv, bootVars, runVars, Step, Order
<1>4. Progress' /\ Armed' /\ WakeReachesTask'
  BY <1>1 DEF BringUpInv, Progress, Behind, Armed, WakeReachesTask, bootVars, runVars, Order
<1> QED BY <1>2, <1>3, <1>4 DEF BringUpInv

(* A wake that finds no task: both callbacks are armed after the announce  *)
(* task was created or its failure ignored.                                *)
LEMMA RxKeeps ==
  ASSUME BringUpInv, Rx
  PROVE  BringUpInv'
<1>1. UNCHANGED <<clientVars, bootVars, ann, netUp, net>>
  BY DEF Rx, Frame, Learn, Wake
<1>2. ClientsInv'
  BY <1>1, ClientsStutter DEF BringUpInv
<1>3. Progress'
  BY <1>1 DEF BringUpInv, Progress, Behind, bootVars, Order
<1> DEFINE Callback == /\ rx \in [pc : {"idle", "learn", "wake"}, vif : {"sta", "ap"},
                                 isNew : BOOLEAN]
                       /\ dropped \in BOOLEAN /\ Armed /\ WakeReachesTask
<1>4. Callback'
  <2>1. ASSUME NEW vif \in {"sta", "ap"}, Frame(vif)
        PROVE  Callback'
    BY <1>1, <2>1
    DEF Frame, BringUpInv, BringUpTypeOK, Armed, WakeReachesTask, bootVars, clientVars
  <2>2. CASE Learn
    BY <1>1, <2>2
    DEF Learn, BringUpInv, BringUpTypeOK, Armed, WakeReachesTask, bootVars, clientVars
  <2>3. CASE Wake
    <3>1. "announce" \in ready \cup lost
      BY <2>3, ReadyHasEarlier DEF Wake, BringUpInv, BringUpTypeOK, Armed
    <3> QED
      BY <1>1, <2>3, <3>1
      DEF Wake, BringUpInv, BringUpTypeOK, Armed, WakeReachesTask, RxIdle, bootVars, clientVars
  <2> QED BY <2>1, <2>2, <2>3 DEF Rx
<1>5. BringUpTypeOK'
  BY <1>1, <1>2, <1>4 DEF BringUpInv, BringUpTypeOK, ClientsInv, bootVars, Step, Order
<1> QED BY <1>2, <1>3, <1>4, <1>5 DEF BringUpInv

LEMMA TasksKeep ==
  ASSUME BringUpInv, Announce \/ NetifUp \/ Net
  PROVE  BringUpInv'
<1>1. UNCHANGED <<clientVars, bootVars, rx, dropped>>
  BY DEF Announce, AnnounceTake, AnnounceGive, NetifUp, Net, NetStart, NetPoll, NetPin
<1>2. ClientsInv'
  BY <1>1, ClientsStutter DEF BringUpInv
<1>3. Progress' /\ WakeReachesTask'
  BY <1>1 DEF BringUpInv, Progress, Behind, WakeReachesTask, bootVars, Order
<1>4. ann' \in BOOLEAN
  BY DEF BringUpInv, BringUpTypeOK, Announce, AnnounceTake, AnnounceGive, NetifUp, Net,
         NetStart, NetPoll, NetPin
<1>a. ann' => "announce" \in ready
  BY DEF BringUpInv, BringUpTypeOK, Armed, Announce, AnnounceTake, AnnounceGive, NetifUp, Net,
         NetStart, NetPoll, NetPin
<1>5. Armed'
  BY <1>1, <1>a DEF BringUpInv, Armed, bootVars, clientVars
<1>6. netUp' \in BOOLEAN
  BY DEF BringUpInv, BringUpTypeOK, Announce, AnnounceTake, AnnounceGive, NetifUp, Net,
         NetStart, NetPoll, NetPin
<1>7. net' \in [pc : {"none", "start", "poll", "pin", "pinned", "missing"}, polls : 0 .. Polls]
  <2>1. net \in [pc : {"none", "start", "poll", "pin", "pinned", "missing"}, polls : 0 .. Polls]
    BY DEF BringUpInv, BringUpTypeOK
  <2>2. CASE NetPoll
    <3>1. net.polls # Polls => net.polls + 1 \in 0 .. Polls
      BY <2>1, PollsBound
    <3> QED BY <2>1, <2>2, <3>1 DEF NetPoll
  <2>3. CASE NetStart \/ NetPin
    BY <2>1, <2>3 DEF NetStart, NetPin
  <2>4. CASE Announce \/ NetifUp
    BY <2>1, <2>4 DEF Announce, AnnounceTake, AnnounceGive, NetifUp
  <2> QED BY <2>2, <2>3, <2>4 DEF Net
<1>8. BringUpTypeOK'
  BY <1>1, <1>2, <1>4, <1>6, <1>7
  DEF BringUpInv, BringUpTypeOK, ClientsInv, bootVars, Step, Order
<1> QED BY <1>2, <1>3, <1>5, <1>8 DEF BringUpInv

LEMMA BringUpStep == BringUpInv /\ [Next]_vars => BringUpInv'
<1> SUFFICES ASSUME BringUpInv, [Next]_vars PROVE BringUpInv'
  OBVIOUS
<1>1. CASE Next
  BY <1>1, BootKeeps, StationKeeps, RxKeeps, TasksKeep DEF Next
<1>2. CASE UNCHANGED vars
  <2>1. UNCHANGED <<clientVars, bootVars, runVars>>
    BY <1>2 DEF vars
  <2>2. ClientsInv'
    BY <2>1, ClientsStutter DEF BringUpInv
  <2>3. BringUpTypeOK'
    BY <2>1, <2>2 DEF BringUpInv, BringUpTypeOK, ClientsInv, bootVars, runVars, Step, Order
  <2>4. Progress' /\ Armed' /\ WakeReachesTask'
    BY <2>1
    DEF BringUpInv, Progress, Behind, Armed, WakeReachesTask, bootVars, runVars, clientVars,
        Order
  <2> QED BY <2>2, <2>3, <2>4 DEF BringUpInv
<1> QED BY <1>1, <1>2

THEOREM BringUpInvariant == Spec => []BringUpInv
<1> QED BY BringUpInit, BringUpStep, PTL DEF Spec

-----------------------------------------------------------------------------
(* Type correctness of the start-up, for any number of stations and polls. *)
THEOREM BringUpTyped == Spec => []BringUpTypeOK
<1>1. BringUpInv => BringUpTypeOK
  BY DEF BringUpInv
<1> QED BY <1>1, BringUpInvariant, PTL

(* No accessor of the ARP table runs before its lock exists, no wake is    *)
(* dropped while the announce task can still be created, and no client's   *)
(* frame meets a netif that is not there, whatever fails.                  *)
THEOREM BringUpOrdered == Spec => []StartedInOrder
BY InvOrders, BringUpInvariant, PTL

=============================================================================
