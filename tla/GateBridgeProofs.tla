--------------------------- MODULE GateBridgeProofs ---------------------------
(***************************************************************************)
(* Theorems about the forwarding plane, for every set of stations, claims  *)
(* and frames: received buffers are freed exactly once, and a client that  *)
(* stays associated while its frame is handled is served, whatever the     *)
(* status task does to the table meanwhile.                                *)
(***************************************************************************)
EXTENDS GateBridge, GateClientsProofs, SequenceTheorems

InCallback == {"snoop", "proxy", "meshBridge", "apBridge", "local"}

(* Who holds the frame, at each place in the callbacks.                    *)
Held ==
  /\ held \in Int
  /\ held = IF rx.pc \in InCallback THEN 1 ELSE 0

(* The strengthening of ClientServed: a frame for a steady client is still *)
(* in gate_ae_rx_cb, or has left it for the AP vif.                        *)
Serving ==
  /\ rx.frame.dst \in steady /\ rx.frame.cb = "ae" => rx.pc \notin InCallback
  /\ rx.pc \in {"ae", "aeSend"} => rx.frame.cb = "ae" /\ rx.out = <<>>


BridgeInv ==
  /\ ClientsInv
  /\ Held
  /\ rx = [pc |-> rx.pc, frame |-> rx.frame, out |-> rx.out]
  /\ steady \subseteq Settled
  /\ Serving
  /\ ClientServed

-----------------------------------------------------------------------------
LEMMA BridgeInit == Init => BridgeInv
<1> SUFFICES ASSUME Init PROVE BridgeInv
  OBVIOUS
<1>1. ClientsInv
  BY ClientsInitInv DEF Init
<1> QED BY <1>1
    DEF Init, BridgeInv, Held, InCallback, Serving, ClientServed, Handled,
        RxNone, NoFrame

LEMMA ReceiveKeeps ==
  ASSUME BridgeInv, NEW f \in Frame, Receive(f)
  PROVE  BridgeInv'
<1>1. ClientsInv' /\ steady' \subseteq Settled'
  <2>1. UNCHANGED clientVars /\ steady' = Settled
    BY DEF Receive
  <2>2. Settled' = Settled
    BY <2>1 DEF clientVars, Settled
  <2> QED BY <2>1, <2>2, ClientsStutter DEF BridgeInv
<1>2. /\ rx' = [pc |-> IF f.cb = "ae" THEN "ae" ELSE "snoop",
                frame |-> f, out |-> <<>>]
      /\ held' = (IF f.cb = "ae" THEN held ELSE held + 1)
      /\ rx.pc = "idle"
  BY DEF Receive
<1>3. Held'
  BY <1>2 DEF BridgeInv, Held, InCallback
<1>4. Serving' /\ ClientServed'
  BY <1>2 DEF Serving, ClientServed, Handled, InCallback
<1>5. (rx = [pc |-> rx.pc, frame |-> rx.frame, out |-> rx.out])'
  BY <1>2
<1> QED BY <1>1, <1>3, <1>4, <1>5 DEF BridgeInv

(* The callbacks' steps leave the clients alone.                           *)
LEMMA RxStepClients ==
  ASSUME BridgeInv, RxStep
  PROVE  ClientsInv' /\ steady' \subseteq Settled'
<1>1. UNCHANGED clientVars /\ steady' = steady
  BY DEF RxStep, AeMember, AeSend, Snoop, ProxyArp, MeshBridge, ApBridge,
         Deliver, RxOnly
<1>2. Settled' = Settled
  BY <1>1 DEF clientVars, Settled
<1> QED BY <1>1, <1>2, ClientsStutter DEF BridgeInv

(* A frame the ext callbacks handle is for no steady client, so that its   *)
(* ports are free; the mmpkt is held for as long as it is in them.         *)
LEMMA Passed ==
  ASSUME BridgeInv, rx.pc \in InCallback, ClientsInv', steady' \subseteq Settled',
         steady' = steady,
         NEW pc, NEW out, rx' = [rx EXCEPT !.pc = pc, !.out = out],
         \/ pc \in InCallback /\ held' = held
         \/ pc = "idle" /\ held' = held - 1
  PROVE  BridgeInv'
<1>1. /\ rx'.pc = pc /\ rx'.frame = rx.frame
      /\ rx' = [pc |-> rx'.pc, frame |-> rx'.frame, out |-> rx'.out]
  BY DEF BridgeInv
<1>2. ~(rx.frame.dst \in steady /\ rx.frame.cb = "ae")
  BY DEF BridgeInv, Serving
<1>3. Held'
  BY <1>1 DEF BridgeInv, Held, InCallback
<1>4. Serving' /\ ClientServed'
  BY <1>1, <1>2 DEF Serving, ClientServed, InCallback
<1> QED BY <1>1, <1>3, <1>4 DEF BridgeInv

(* Of those steps only the membership check can send a frame out of        *)
(* gate_ae_rx_cb, and it keeps the frames of listed clients.               *)
LEMMA RxStepKeeps ==
  ASSUME BridgeInv, RxStep
  PROVE  BridgeInv'
<1>0. ClientsInv' /\ steady' \subseteq Settled'
  BY RxStepClients
<1>a. rx = [pc |-> rx.pc, frame |-> rx.frame, out |-> rx.out]
      /\ Held /\ Serving /\ ClientServed
  BY DEF BridgeInv
<1>b. steady' = steady /\ steady \subseteq Listed
  <2>1. steady' = steady
    BY DEF RxStep, AeMember, AeSend, Snoop, ProxyArp, MeshBridge, ApBridge,
           Deliver, RxOnly
  <2> QED BY <2>1 DEF BridgeInv, ClientsInv, ClientsTrackAdmission
<1> USE DEF Held, InCallback, Serving, ClientServed, Handled
<1>1. CASE AeMember
  <2>1. CASE IsApClient(rx.frame.dst)
    <3>1. rx' = [rx EXCEPT !.pc = "aeSend"] /\ held' = held /\ rx.pc = "ae"
      BY <1>1, <2>1 DEF AeMember, To
    <3> QED BY <1>0, <1>a, <1>b, <3>1 DEF BridgeInv
  <2>2. CASE ~IsApClient(rx.frame.dst)
    <3>1. rx.frame.dst \notin steady
      BY <2>2, <1>b DEF IsApClient
    <3>2. \/ rx' = [rx EXCEPT !.pc = "snoop"] /\ held' = held + 1
          \/ rx' = [rx EXCEPT !.pc = "idle"] /\ held' = held
      BY <1>1, <2>2 DEF AeMember, To
    <3>3. rx.pc = "ae"
      BY <1>1 DEF AeMember
    <3> QED BY <1>0, <1>a, <1>b, <3>1, <3>2, <3>3 DEF BridgeInv
  <2> QED BY <2>1, <2>2
<1>2. CASE AeSend
  <2>1. /\ rx.pc = "aeSend" /\ held' = held
        /\ IF rx.frame.fits
             THEN rx' = [rx EXCEPT !.pc = "idle", !.out = Append(rx.out, "ap")]
             ELSE rx' = [rx EXCEPT !.pc = "idle"]
    BY <1>2 DEF AeSend, To, Give
  <2>2. Append(<<>>, "ap") = <<"ap">>
    OBVIOUS
  <2> QED BY <1>0, <1>a, <1>b, <2>1, <2>2 DEF BridgeInv
<1>3. CASE Snoop
  <2>1. /\ rx.pc = "snoop" /\ held' = held
        /\ rx' = [rx EXCEPT !.pc = "local", !.out = rx.out] \/ rx' = [rx EXCEPT !.pc = "proxy", !.out = rx.out]
    BY <1>3 DEF Snoop, To
  <2> QED BY <1>0, <1>a, <1>b, <2>1, Passed DEF BridgeInv
<1>4. CASE ProxyArp
  <2>1. rx.pc = "proxy"
    BY <1>4 DEF ProxyArp
  <2>2. \/ /\ rx' = [rx EXCEPT !.pc = "idle", !.out = Append(rx.out, "reply")]
           /\ held' = held - 1
        \/ /\ \/ rx' = [rx EXCEPT !.pc = "meshBridge", !.out = rx.out]
              \/ rx' = [rx EXCEPT !.pc = "apBridge", !.out = rx.out]
           /\ held' = held
    BY <1>4 DEF ProxyArp, To, Give
  <2> QED BY <1>0, <1>a, <1>b, <2>1, <2>2, Passed
<1>5. CASE MeshBridge
  <2>1. /\ rx.pc = "meshBridge" /\ held' = held
        /\ \/ rx' = [rx EXCEPT !.pc = "local", !.out = Append(rx.out, "ap")]
           \/ rx' = [rx EXCEPT !.pc = "local", !.out = rx.out]
    BY <1>5 DEF MeshBridge, To, Give
  <2> QED BY <1>0, <1>a, <1>b, <2>1, Passed
<1>6. CASE ApBridge
  <2>1. rx.pc = "apBridge"
    BY <1>6 DEF ApBridge
  <2>2. \/ /\ rx' = [rx EXCEPT !.pc = "idle", !.out = Append(rx.out, "mesh")]
           /\ held' = held - 1
        \/ /\ \/ rx' = [rx EXCEPT !.pc = "local", !.out = Append(rx.out, "mesh")]
              \/ rx' = [rx EXCEPT !.pc = "local", !.out = rx.out]
           /\ held' = held
    BY <1>6 DEF ApBridge, To, Give
  <2> QED BY <1>0, <1>a, <1>b, <2>1, <2>2, Passed
<1>7. CASE Deliver
  <2>1. /\ rx.pc = "local" /\ held' = held - 1
        /\ rx' = [rx EXCEPT !.pc = "idle", !.out = Append(rx.out, "local")]
    BY <1>7 DEF Deliver, Give
  <2> QED BY <1>0, <1>a, <1>b, <2>1, Passed
<1> QED BY <1>1, <1>2, <1>3, <1>4, <1>5, <1>6, <1>7 DEF RxStep

(* The status task's steps leave the frame alone, and can only make fewer  *)
(* stations steady.                                                        *)
LEMMA ClientStepKeeps ==
  ASSUME BridgeInv, ClientStep
  PROVE  BridgeInv'
<1>1. ClientsInv'
  BY ReportKeeps, StaStepKeeps DEF BridgeInv, ClientStep
<1>2. rx' = rx /\ held' = held /\ steady' = steady \cap Settled'
  BY DEF ClientStep
<1> QED BY <1>1, <1>2
    DEF BridgeInv, Held, InCallback, Serving, ClientServed, Handled

LEMMA StutterKeeps ==
  ASSUME BridgeInv, AgeOut \/ UNCHANGED vars
  PROVE  BridgeInv'
<1>1. UNCHANGED <<clientVars, rx, held, steady>>
  BY DEF AgeOut, vars, bridgeVars
<1>2. ClientsInv' /\ Settled' = Settled
  BY <1>1, ClientsStutter DEF BridgeInv, clientVars, Settled
<1> QED BY <1>1, <1>2
    DEF BridgeInv, Held, InCallback, Serving, ClientServed, Handled

LEMMA BridgeInvariant == Spec => []BridgeInv
<1>1. BridgeInv /\ [Next]_vars => BridgeInv'
  BY ReceiveKeeps, RxStepKeeps, ClientStepKeeps, StutterKeeps DEF Next
<1> QED BY <1>1, BridgeInit, PTL DEF Spec

-----------------------------------------------------------------------------
(* The ports of a frame, at each place of its way: RightPorts needs what   *)
(* was given so far (Way), that the stations listed while it was handled   *)
(* are remembered, and what the frame is.                                  *)
Group == rx.frame.dst = GROUP

Way ==
  /\ rx.pc \in {"ae", "aeSend"} => rx.frame.cb = "ae"
  /\ rx.pc = "aeSend" => rx.frame.dst \in seen
  /\ rx.pc = "meshBridge" => rx.frame.cb # "ap"
  /\ rx.pc = "apBridge" => rx.frame.cb = "ap"
  /\ rx.pc \notin {"idle", "local"} => rx.out = <<>>
  /\ rx.pc = "local" =>
       \/ rx.out = <<>> /\ (Group /\ rx.frame.fits => rx.frame.cb = "mesh" /\ steady = {})
       \/ rx.out = <<"ap">> /\ Group /\ rx.frame.cb # "ap"
       \/ rx.out = <<"mesh">> /\ Group /\ rx.frame.cb = "ap"

Ending ==
  rx.pc = "idle" =>
    \/ rx.out = <<>> /\ (rx.frame = NoFrame \/ rx.frame.cb = "ae")
    \/ rx.out = <<"ap">> /\ rx.frame.cb = "ae" /\ rx.frame.dst \in seen
    \/ rx.out = <<"reply">>
    \/ rx.out = <<"mesh">> /\ rx.frame.cb = "ap" /\ ~Group
    \/ rx.out = <<"local">> /\ (Group /\ rx.frame.fits => rx.frame.cb = "mesh" /\ steady = {})
    \/ rx.out = <<"ap", "local">> /\ Group /\ rx.frame.cb # "ap"
    \/ rx.out = <<"mesh", "local">> /\ Group /\ rx.frame.cb = "ap"

Framed ==
  /\ rx.frame \in Frame \cup {NoFrame}
  /\ rx.pc # "idle" => rx.frame \in Frame
  /\ rx.pc \in {"idle", "ae", "aeSend", "snoop", "proxy", "meshBridge", "apBridge", "local"}

Remembered ==
  /\ known \subseteq Claim
  /\ seen \subseteq ClientMac
  /\ rx.pc # "idle" => Listed \subseteq seen

PathInv == BridgeInv /\ Framed /\ Remembered /\ Way /\ Ending

(* Outputs of one port and of two.                                         *)
LEMMA AppendOne == \A x : Append(<<>>, x) = <<x>>
OBVIOUS

LEMMA AppendTwo ==
  ASSUME NEW S, NEW x \in S, NEW y \in S
  PROVE  Append(<<x>>, y) = <<x, y>>
<1>1. <<x>> \in Seq(S) /\ Len(<<x>>) = 1 /\ <<x>>[1] = x
  OBVIOUS
<1>2. /\ Append(<<x>>, y) \in Seq(S) /\ Len(Append(<<x>>, y)) = 2
      /\ Append(<<x>>, y)[1] = x /\ Append(<<x>>, y)[2] = y
  BY <1>1, AppendProperties
<1>3. <<x, y>> \in Seq(S) /\ Len(<<x, y>>) = 2 /\ <<x, y>>[1] = x /\ <<x, y>>[2] = y
  OBVIOUS
<1>4. \A i \in 1..2 : Append(<<x>>, y)[i] = <<x, y>>[i]
  BY <1>2, <1>3
<1> QED BY <1>2, <1>3, <1>4, SeqEqual

LEMMA LearnTyped ==
  ASSUME NEW c \in Claim \cup {NoClaim}, known \subseteq Claim, Learn(c)
  PROVE  known' \subseteq Claim
BY DEF Learn, Cache!Refresh, Cache!Insert, Cache!SameIp

(* A frame of a callback has the shape BridgeFrames gives it.              *)
LEMMA FrameShape ==
  ASSUME PathInv, rx.pc # "idle"
  PROVE  /\ rx.frame.cb \in {"ae", "mesh", "ap"} /\ rx.frame.fits \in BOOLEAN
         /\ rx.frame.claim \in Claim \cup {NoClaim}
         /\ rx.frame.cb = "ae" => rx.frame.dst # GROUP
BY BridgeFrames DEF PathInv, Framed

LEMMA PathInit == Init => PathInv
<1> SUFFICES ASSUME Init PROVE PathInv
  OBVIOUS
<1>1. rx = RxNone /\ known = {} /\ seen = {}
  BY DEF Init, Cache!Init
<1> QED BY <1>1, BridgeInit DEF PathInv, Framed, Remembered, Way, Ending, RxNone

LEMMA ReceivePath ==
  ASSUME PathInv, NEW f \in Frame, Receive(f)
  PROVE  PathInv'
<1>1. BridgeInv'
  BY ReceiveKeeps DEF PathInv
<1>2. /\ rx' = [pc |-> IF f.cb = "ae" THEN "ae" ELSE "snoop", frame |-> f, out |-> <<>>]
      /\ seen' = Listed /\ known' = known /\ clients' = clients
  BY DEF Receive, clientVars
<1>3. Listed' = Listed
  BY <1>2 DEF Listed
<1>4. Listed \subseteq ClientMac
  BY DEF PathInv, BridgeInv, ClientsInv, ClientsTypeOK, Listed
<1>5. Framed' /\ Remembered'
  BY <1>2, <1>3, <1>4 DEF PathInv, Framed, Remembered
<1>6. Way' /\ Ending'
  BY <1>2 DEF Way, Ending
<1> QED BY <1>1, <1>5, <1>6 DEF PathInv

(* What every step of the callbacks leaves alone.                          *)
LEMMA PathFrame ==
  ASSUME PathInv, RxStep
  PROVE  /\ BridgeInv'
         /\ rx.pc # "idle" /\ rx.frame \in Frame
         /\ rx = [pc |-> rx.pc, frame |-> rx.frame, out |-> rx.out]
         /\ clients' = clients /\ steady' = steady /\ seen' = seen
         /\ known' \subseteq Claim
<1>1. BridgeInv'
  BY RxStepKeeps DEF PathInv
<1>2. rx.pc # "idle"
  BY DEF RxStep, AeMember, AeSend, Snoop, ProxyArp, MeshBridge, ApBridge, Deliver
<1>3. clients' = clients /\ steady' = steady /\ seen' = seen
  BY DEF RxStep, AeMember, AeSend, Snoop, ProxyArp, MeshBridge, ApBridge, Deliver, RxOnly,
         clientVars
<1>4. known' = known \/ Learn(rx.frame.claim)
  BY DEF RxStep, AeMember, AeSend, Snoop, ProxyArp, MeshBridge, ApBridge, Deliver, RxOnly
<1>5. known' \subseteq Claim
  BY <1>2, <1>4, FrameShape, LearnTyped DEF PathInv, Remembered
<1> QED BY <1>1, <1>2, <1>3, <1>5 DEF PathInv, BridgeInv, Framed

LEMMA RxStepPath ==
  ASSUME PathInv, RxStep
  PROVE  PathInv'
<1>1. /\ BridgeInv'
      /\ rx.pc # "idle" /\ rx.frame \in Frame
      /\ rx = [pc |-> rx.pc, frame |-> rx.frame, out |-> rx.out]
      /\ clients' = clients /\ steady' = steady /\ seen' = seen
      /\ known' \subseteq Claim
  BY PathFrame
<1>2. Listed' = Listed
  BY <1>1 DEF Listed
<1>3. Way /\ Remembered
  BY DEF PathInv
<1>4. SUFFICES ASSUME TRUE
               PROVE  /\ rx' = [pc |-> rx'.pc, frame |-> rx.frame, out |-> rx'.out]
                      /\ rx'.pc \in {"idle", "aeSend", "snoop", "proxy", "meshBridge",
                                     "apBridge", "local"}
                      /\ Way' /\ Ending'
  BY <1>1, <1>2, <1>3, <1>4 DEF PathInv, Framed, Remembered
<1>5. /\ rx.frame.cb \in {"ae", "mesh", "ap"} /\ rx.frame.fits \in BOOLEAN
      /\ rx.frame.cb = "ae" => rx.frame.dst # GROUP
  BY <1>1, FrameShape
<1>6. /\ Append(<<>>, "ap") = <<"ap">> /\ Append(<<>>, "reply") = <<"reply">>
      /\ Append(<<>>, "mesh") = <<"mesh">> /\ Append(<<>>, "local") = <<"local">>
      /\ Append(<<"ap">>, "local") = <<"ap", "local">>
      /\ Append(<<"mesh">>, "local") = <<"mesh", "local">>
  <2> DEFINE S == {"ap", "mesh", "local"}
  <2>1. "ap" \in S /\ "mesh" \in S /\ "local" \in S
    OBVIOUS
  <2> HIDE DEF S
  <2> QED BY <2>1, AppendOne, AppendTwo
<1> USE DEF Way, Ending, Group, To, Give
<1>7. CASE AeMember
  <2>1. IsApClient(rx.frame.dst) => rx.frame.dst \in seen
    BY <1>1, <1>3 DEF Remembered, IsApClient
  <2> QED BY <1>1, <1>3, <1>5, <1>7, <2>1 DEF AeMember
<1>8. CASE AeSend
  BY <1>1, <1>3, <1>5, <1>6, <1>8 DEF AeSend
<1>9. CASE Snoop
  BY <1>1, <1>3, <1>5, <1>9 DEF Snoop, Side
<1>10. CASE ProxyArp
  BY <1>1, <1>3, <1>5, <1>6, <1>10 DEF ProxyArp, Side
<1>11. CASE MeshBridge
  <2>1. Len(clients) > 0 \/ steady = {}
    <3>1. Len(clients) = 0 => Listed = {}
      BY DEF PathInv, BridgeInv, ClientsInv, ClientsTypeOK, Listed
    <3>2. steady \subseteq Listed
      BY DEF PathInv, BridgeInv, ClientsInv, ClientsTrackAdmission
    <3>3. Len(clients) \in Nat
      BY DEF PathInv, BridgeInv, ClientsInv, ClientsTypeOK
    <3> QED BY <3>1, <3>2, <3>3
  <2> QED BY <1>1, <1>3, <1>5, <1>6, <1>11, <2>1 DEF MeshBridge
<1>12. CASE ApBridge
  BY <1>1, <1>3, <1>5, <1>6, <1>12, BridgeFrames DEF ApBridge, ForGate
<1>13. CASE Deliver
  BY <1>1, <1>3, <1>5, <1>6, <1>13 DEF Deliver
<1> QED BY <1>7, <1>8, <1>9, <1>10, <1>11, <1>12, <1>13 DEF RxStep

LEMMA OthersPath ==
  ASSUME PathInv, ClientStep \/ AgeOut \/ UNCHANGED vars
  PROVE  PathInv'
<1>1. BridgeInv'
  BY ClientStepKeeps, StutterKeeps DEF PathInv
<1>2. rx' = rx /\ steady' \subseteq steady /\ seen \subseteq seen'
  BY DEF ClientStep, AgeOut, vars, bridgeVars
<1>3. known' \subseteq Claim
  BY DEF PathInv, Remembered, ClientStep, AgeOut, Cache!Drop, vars, bridgeVars
<1>4. Listed' \subseteq ClientMac
  BY <1>1 DEF BridgeInv, ClientsInv, ClientsTypeOK, Listed
<1>5. seen' \subseteq ClientMac /\ (rx.pc # "idle" => Listed' \subseteq seen')
  <2>1. CASE ClientStep
    BY <1>4, <2>1 DEF ClientStep, PathInv, Remembered
  <2>2. CASE AgeOut \/ UNCHANGED vars
    <3>1. clients' = clients /\ seen' = seen
      BY <2>2 DEF AgeOut, vars, clientVars
    <3> QED BY <3>1 DEF PathInv, Remembered, Listed
  <2> QED BY <2>1, <2>2
<1>6. Framed' /\ Remembered'
  BY <1>2, <1>3, <1>5 DEF PathInv, Framed, Remembered
<1>7. Way'
  BY <1>2 DEF PathInv, Way, Group
<1>8. Ending'
  BY <1>2 DEF PathInv, Ending, Group
<1> QED BY <1>1, <1>6, <1>7, <1>8 DEF PathInv

LEMMA PathInvariant == Spec => []PathInv
<1>1. PathInv /\ [Next]_vars => PathInv'
  BY ReceivePath, RxStepPath, OthersPath DEF Next
<1> QED BY <1>1, PathInit, PTL DEF Spec

(* The seven outputs a frame can have, and what is known of it for each.   *)
Given(out) == rx.out = out

LEMMA PathOutputs ==
  ASSUME PathInv
  PROVE  \/ Given(<<>>) /\ (Handled => rx.frame.cb = "ae")
         \/ Given(<<"ap">>) /\ rx.frame.cb # "ap"
              /\ (Handled => rx.frame.cb = "ae" /\ rx.frame.dst \in seen)
         \/ Given(<<"reply">>)
         \/ Given(<<"mesh">>) /\ rx.frame.cb = "ap" /\ (Handled => ~Group)
         \/ Given(<<"local">>)
              /\ (Group /\ rx.frame.fits => rx.frame.cb = "mesh" /\ steady = {})
         \/ Given(<<"ap", "local">>) /\ Group /\ rx.frame.cb # "ap"
         \/ Given(<<"mesh", "local">>) /\ Group /\ rx.frame.cb = "ap"
<1>1. CASE rx.pc = "idle"
  <2>1. Ending
    BY DEF PathInv
  <2>2. rx.frame.cb = "ae" => rx.frame.cb # "ap"
    OBVIOUS
  <2> QED BY <1>1, <2>1, <2>2 DEF Ending, Given, Handled
<1>2. CASE rx.pc = "local"
  <2>1. Way /\ ~Handled
    BY <1>2 DEF PathInv, Handled
  <2> QED BY <1>2, <2>1 DEF Way, Given
<1>3. CASE rx.pc \notin {"idle", "local"}
  <2>1. Given(<<>>) /\ ~Handled
    BY <1>3 DEF PathInv, Way, Given, Handled
  <2> QED BY <2>1
<1> QED BY <1>1, <1>2, <1>3

(* Where the frame ended tells its ports.                                  *)
LEMMA PathPorts == PathInv => RightPorts
<1> SUFFICES ASSUME PathInv PROVE DeliveredOnce /\ NoStrayUnicast /\ BroadcastCrosses
  BY DEF RightPorts
<1>1. Handled => /\ rx.frame.cb \in {"ae", "mesh", "ap"}
                 /\ rx.frame.cb = "ae" => rx.frame.dst # GROUP
  BY BridgeFrames DEF PathInv, Framed, Handled
<1> USE DEF DeliveredOnce, NoStrayUnicast, BroadcastCrosses, Side, Group
<1>2. CASE Given(<<>>) /\ (Handled => rx.frame.cb = "ae")
  <2>1. Ports = {} /\ Len(rx.out) = 0 /\ DOMAIN rx.out = {}
    BY <1>2 DEF Given, Ports
  <2>2. DeliveredOnce
    BY <1>2, <2>1
  <2>3. NoStrayUnicast
    BY <1>2, <2>1
  <2>4. BroadcastCrosses
    BY <1>1, <1>2, <2>1
  <2> QED BY <2>2, <2>3, <2>4
<1>3. CASE /\ Given(<<"ap">>) /\ rx.frame.cb # "ap"
           /\ Handled => rx.frame.cb = "ae" /\ rx.frame.dst \in seen
  <2>1. Ports = {"ap"} /\ Len(rx.out) = 1 /\ DOMAIN rx.out = {1}
    BY <1>3 DEF Given, Ports
  <2>2. DeliveredOnce
    BY <1>3, <2>1
  <2>3. NoStrayUnicast
    BY <1>3, <2>1
  <2>4. BroadcastCrosses
    BY <1>1, <1>3, <2>1
  <2> QED BY <2>2, <2>3, <2>4
<1>4. CASE Given(<<"reply">>)
  <2>1. Ports = {"reply"} /\ Len(rx.out) = 1 /\ DOMAIN rx.out = {1} /\ rx.out = <<"reply">>
    BY <1>4 DEF Given, Ports
  <2>2. DeliveredOnce
    BY <2>1
  <2>3. NoStrayUnicast
    BY <2>1
  <2>4. BroadcastCrosses
    BY <2>1
  <2> QED BY <2>2, <2>3, <2>4
<1>5. CASE Given(<<"mesh">>) /\ rx.frame.cb = "ap" /\ (Handled => ~Group)
  <2>1. Ports = {"mesh"} /\ Len(rx.out) = 1 /\ DOMAIN rx.out = {1}
    BY <1>5 DEF Given, Ports
  <2> QED BY <1>1, <1>5, <2>1
<1>6. CASE /\ Given(<<"local">>)
           /\ Group /\ rx.frame.fits => rx.frame.cb = "mesh" /\ steady = {}
  <2>1. Ports = {"local"} /\ Len(rx.out) = 1 /\ DOMAIN rx.out = {1} /\ rx.out = <<"local">>
    BY <1>6 DEF Given, Ports
  <2>2. DeliveredOnce
    BY <1>6, <2>1
  <2>3. NoStrayUnicast
    BY <1>6, <2>1
  <2>4. BroadcastCrosses
    BY <1>1, <1>6, <2>1
  <2> QED BY <2>2, <2>3, <2>4
<1>7. CASE Given(<<"ap", "local">>) /\ Group /\ rx.frame.cb # "ap"
  <2>1. /\ Ports = {"ap", "local"} /\ Len(rx.out) = 2 /\ DOMAIN rx.out = {1, 2}
        /\ rx.out = <<"ap", "local">> /\ rx.out[1] = "ap" /\ rx.out[2] = "local"
    BY <1>7 DEF Given, Ports
  <2> QED BY <1>1, <1>7, <2>1
<1>8. CASE Given(<<"mesh", "local">>) /\ Group /\ rx.frame.cb = "ap"
  <2>1. /\ Ports = {"mesh", "local"} /\ Len(rx.out) = 2 /\ DOMAIN rx.out = {1, 2}
        /\ rx.out = <<"mesh", "local">> /\ rx.out[1] = "mesh" /\ rx.out[2] = "local"
    BY <1>8 DEF Given, Ports
  <2>2. DeliveredOnce
    BY <1>8, <2>1
  <2>3. NoStrayUnicast
    BY <1>8, <2>1
  <2>4. BroadcastCrosses
    BY <1>1, <1>8, <2>1
  <2> QED BY <2>2, <2>3, <2>4
<1> QED BY <1>2, <1>3, <1>4, <1>5, <1>6, <1>7, <1>8, PathOutputs

-----------------------------------------------------------------------------
(* The table of clients follows the admissions: nobody admitted is left    *)
(* out of the bridge, nobody departed stays in it.                         *)
THEOREM TableTracksAdmission == Spec => []ClientsTrackAdmission
<1>1. BridgeInv => ClientsTrackAdmission
  BY DEF BridgeInv, ClientsInv
<1> QED BY <1>1, BridgeInvariant, PTL

(* "Free it exactly once", on every path through the callbacks.            *)
THEOREM BuffersFreedOnce == Spec => []FreedExactlyOnce
<1>1. BridgeInv => FreedExactlyOnce
  BY DEF BridgeInv, Held, InCallback, FreedExactlyOnce
<1> QED BY <1>1, BridgeInvariant, PTL

(* The types of the bridge, the buffers and the frame in hand.             *)
THEOREM BridgeTyped == Spec => []BridgeTypeOK
<1>1. PathInv => BridgeTypeOK
  <2> SUFFICES ASSUME PathInv PROVE BridgeTypeOK
    OBVIOUS
  <2>1. rx.out \in Seq({"ap", "mesh", "local", "reply"})
    <3>1. /\ <<>> \in Seq({"ap", "mesh", "local", "reply"})
          /\ <<"ap">> \in Seq({"ap", "mesh", "local", "reply"})
          /\ <<"mesh">> \in Seq({"ap", "mesh", "local", "reply"})
          /\ <<"local">> \in Seq({"ap", "mesh", "local", "reply"})
          /\ <<"reply">> \in Seq({"ap", "mesh", "local", "reply"})
      OBVIOUS
    <3>2. /\ <<"ap", "local">> \in Seq({"ap", "mesh", "local", "reply"})
          /\ <<"mesh", "local">> \in Seq({"ap", "mesh", "local", "reply"})
      OBVIOUS
    <3> QED BY <3>1, <3>2, PathOutputs DEF Given
  <2>2. steady \subseteq ClientMac
    BY DEF PathInv, BridgeInv, ClientsInv, ClientsTypeOK, Settled
  <2> QED BY <2>1, <2>2
      DEF PathInv, BridgeInv, Held, ClientsInv, Framed, Remembered, BridgeTypeOK
<1> QED BY <1>1, PathInvariant, PTL

(* "No loop", no double delivery, no unicast to a stranger, and every      *)
(* broadcast across the bridge and up, for any frames and any timing of    *)
(* the status task.                                                        *)
THEOREM PortsAreRight == Spec => []RightPorts
BY PathPorts, PathInvariant, PTL

(* A unicast to a client that stays associated goes to the AP vif, and to  *)
(* nothing else.                                                           *)
THEOREM SteadyClientServed == Spec => []ClientServed
<1>1. BridgeInv => ClientServed
  BY DEF BridgeInv
<1> QED BY <1>1, BridgeInvariant, PTL

=============================================================================
