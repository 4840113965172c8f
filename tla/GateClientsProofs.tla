-------------------------- MODULE GateClientsProofs --------------------------
(***************************************************************************)
(* The client table follows the SoftAP's admissions, for any number of     *)
(* stations and any capacities that satisfy ClientCapacity: what each      *)
(* operation on the table does to it, and that every step of the module    *)
(* keeps ClientsInv.  The composing modules build their theorems on these. *)
(***************************************************************************)
EXTENDS GateClients, TLAPS, FunctionTheorems, FiniteSetTheorems

NoRepeats == \A i, j \in DOMAIN clients : clients[i] = clients[j] => i = j

(* The capacity part of ClientsTrackAdmission is not inductive alone: that *)
(* an admitted station finds room follows from the table being no longer   *)
(* than the set of admitted stations, whose size the SoftAP caps.          *)
Admitted ==
  /\ IsFiniteSet(assoc)
  /\ Cardinality(assoc) <= LINK_MAX_STAS

\* While a report waits to be handled, the admissions are what it says.
ReportStands ==
  /\ sta.pc = "authorized" => sta.mac \in assoc
  /\ sta.pc \in {"unknown", "forget"} => sta.mac \notin assoc

ClientsInv ==
  ClientsTypeOK /\ ClientsTrackAdmission /\ Admitted /\ ReportStands

-----------------------------------------------------------------------------
(* A table without repeats is as long as the set of stations it lists.     *)
LEMMA LengthIsCardinality ==
  ASSUME clients \in Seq(ClientMac), NoRepeats
  PROVE  IsFiniteSet(Listed) /\ Cardinality(Listed) = Len(clients)
<1>1. DOMAIN clients = 1 .. Len(clients) /\ Len(clients) \in Nat
  OBVIOUS
<1>2. clients \in Bijection(1 .. Len(clients), Listed)
  <2>1. clients \in [1 .. Len(clients) -> Listed]
    BY <1>1 DEF Listed
  <2>2. \A x \in Listed : \E i \in 1 .. Len(clients) : clients[i] = x
    BY <1>1 DEF Listed
  <2> QED BY <1>1, <2>1, <2>2, Fun_IsBij DEF NoRepeats
<1>3. IsFiniteSet(1 .. Len(clients)) /\ Cardinality(1 .. Len(clients)) = Len(clients)
  BY <1>1, FS_Interval
<1> QED BY <1>2, <1>3, FS_Bijection DEF ExistsBijection

(* Appending an unlisted station lists it and repeats nothing.             *)
LEMMA AppendedLists ==
  ASSUME clients \in Seq(ClientMac), NoRepeats, NEW m \in ClientMac,
         ~IsApClient(m), Len(clients) < GATE_MAX_CLIENTS, clients' = Appended(m)
  PROVE  /\ clients' \in Seq(ClientMac)
         /\ NoRepeats'
         /\ Listed' = Listed \cup {m}
         /\ Len(clients') = Len(clients) + 1
<1>1. clients' = Append(clients, m)
  BY ClientCapacity DEF Appended
<1>2. /\ Len(clients') = Len(clients) + 1
      /\ DOMAIN clients' = 1 .. Len(clients) + 1
      /\ DOMAIN clients = 1 .. Len(clients)
      /\ \A i \in 1 .. Len(clients) : clients'[i] = clients[i]
      /\ clients'[Len(clients) + 1] = m
  BY <1>1
<1>3. Listed' = Listed \cup {m}
  <2>1. \A x \in Listed' : x \in Listed \cup {m}
    BY <1>2 DEF Listed
  <2>2. \A x \in Listed \cup {m} : x \in Listed'
    BY <1>2 DEF Listed
  <2> QED BY <2>1, <2>2
<1>4. NoRepeats'
  BY <1>2 DEF NoRepeats, IsApClient, Listed
<1> QED BY <1>1, <1>2, <1>3, <1>4

(* Moving the last slot into the departed station's unlists that station   *)
(* and no other.                                                           *)
LEMMA SwapRemovedUnlists ==
  ASSUME clients \in Seq(ClientMac), NoRepeats, NEW m \in ClientMac,
         clients' = SwapRemoved(m)
  PROVE  /\ clients' \in Seq(ClientMac)
         /\ NoRepeats'
         /\ Listed' = Listed \ {m}
         /\ Len(clients') <= Len(clients)
<1>1. CASE ~IsApClient(m)
  BY <1>1 DEF SwapRemoved, IsApClient, NoRepeats, Listed
<1>2. CASE IsApClient(m)
  <2> DEFINE n == Len(clients)
             i == CHOOSE k \in DOMAIN clients : clients[k] = m
  <2>1. i \in 1 .. n /\ clients[i] = m /\ n \in Nat /\ n >= 1
    BY <1>2 DEF IsApClient, Listed
  <2>2. clients' = [k \in 1 .. n - 1 |-> IF k = i THEN clients[n] ELSE clients[k]]
    BY <1>2 DEF SwapRemoved
  <2>a. n - 1 \in Nat
    BY <2>1
  <2> HIDE DEF i
  <2>b. \A k \in 1 .. n : clients[k] \in ClientMac
    OBVIOUS
  <2>c. n \in 1 .. n /\ \A k \in 1 .. n - 1 : k \in 1 .. n
    BY <2>1
  <2>3. /\ clients' \in Seq(ClientMac)
        /\ Len(clients') = n - 1
        /\ DOMAIN clients' = 1 .. n - 1
    <3>1. clients' \in [1 .. n - 1 -> ClientMac]
      BY <2>2, <2>b, <2>c
    <3>2. clients' \in Seq(ClientMac)
      BY <3>1, <2>a
    <3> QED BY <3>1, <3>2, <2>a
  <2>4. \A k \in 1 .. n - 1 :
           clients'[k] = IF k = i THEN clients[n] ELSE clients[k]
    BY <2>2
  <2>5. \A k, l \in 1 .. n : clients[k] = clients[l] => k = l
    BY DEF NoRepeats
  <2> HIDE DEF n
  <2>6. NoRepeats'
    BY <2>1, <2>3, <2>4, <2>5 DEF NoRepeats
  <2>7. \A x \in Listed' : x \in Listed \ {m}
    <3>1. \A k \in 1 .. n - 1 : clients'[k] # m
      BY <2>1, <2>4, <2>5
    <3>2. \A k \in 1 .. n - 1 : \E l \in 1 .. n : clients'[k] = clients[l]
      BY <2>1, <2>4
    <3>3. DOMAIN clients = 1 .. n
      BY DEF n
    <3> QED BY <3>1, <3>2, <3>3, <2>3 DEF Listed
  <2>8. ASSUME NEW x \in Listed \ {m} PROVE x \in Listed'
    <3>1. PICK l \in 1 .. n : clients[l] = x
      BY DEF Listed, n
    <3>2. l # i
      BY <3>1, <2>1
    <3>3. CASE l = n
      <4>1. i \in 1 .. n - 1 /\ clients'[i] = x
        BY <2>1, <2>4, <3>1, <3>2, <3>3
      <4> QED BY <4>1, <2>3 DEF Listed
    <3>4. CASE l # n
      <4>1. l \in 1 .. n - 1 /\ clients'[l] = x
        BY <2>1, <2>4, <3>1, <3>2, <3>4
      <4> QED BY <4>1, <2>3 DEF Listed
    <3> QED BY <3>3, <3>4
  <2> QED BY <2>1, <2>3, <2>6, <2>7, <2>8 DEF n
<1> QED BY <1>1, <1>2

-----------------------------------------------------------------------------
(* The steps.                                                              *)
LEMMA ClientsInitInv == ClientsInit => ClientsInv
<1> SUFFICES ASSUME ClientsInit PROVE ClientsInv
  OBVIOUS
<1>1. Listed = {} /\ Len(clients) = 0
  BY DEF ClientsInit, Listed
<1>2. Admitted
  BY FS_EmptySet, ClientCapacity DEF ClientsInit, Admitted
<1>3. ClientsTypeOK
  BY DEF ClientsInit, ClientsTypeOK, StaIdle, StaPc
<1>4. ClientsTrackAdmission
  BY <1>1, ClientCapacity
  DEF ClientsInit, ClientsTrackAdmission, Settled, StaIdle
<1>5. ReportStands
  BY DEF ClientsInit, StaIdle, ReportStands
<1> QED BY <1>2, <1>3, <1>4, <1>5 DEF ClientsInv

(* A report changes the admissions under a table that lags behind by the   *)
(* station reported, and by no other.                                      *)
LEMMA ReportKeeps ==
  ASSUME ClientsInv, NEW m \in ClientMac, ReportAuthorized(m) \/ ReportUnknown(m)
  PROVE  ClientsInv'
<1> USE DEF ClientsInv
<1>1. /\ sta.pc = "idle" /\ Listed = assoc
      /\ sta'.mac = m /\ sta'.pc \in {"authorized", "unknown"}
      /\ Listed' = Listed /\ clients' = clients
  BY DEF ReportAuthorized, ReportUnknown, ClientsTrackAdmission, Listed
<1>2. ClientsTypeOK'
  BY DEF ReportAuthorized, ReportUnknown, ClientsTypeOK, StaPc
<1>3. ReportStands'
  BY DEF ReportAuthorized, ReportUnknown, ReportStands
<1>4. Settled' = assoc' \ {m}
  BY <1>1 DEF Settled
<1>5. assoc' \ {m} \subseteq assoc /\ assoc \subseteq assoc' \cup {m}
      /\ assoc \ {m} = assoc' \ {m}
  BY DEF ReportAuthorized, ReportUnknown
<1>6. ClientsTrackAdmission'
  BY <1>1, <1>4, <1>5 DEF ClientsTrackAdmission
<1>7. Admitted'
  <2>1. CASE ReportAuthorized(m)
    <3>1. assoc' = assoc \cup {m}
          /\ (m \in assoc \/ Cardinality(assoc) < LINK_MAX_STAS)
      BY <2>1 DEF ReportAuthorized
    <3>2. Cardinality(assoc) \in Nat
      BY FS_CardinalityType DEF Admitted
    <3>3. /\ IsFiniteSet(assoc')
          /\ Cardinality(assoc') = IF m \in assoc THEN Cardinality(assoc)
                                   ELSE Cardinality(assoc) + 1
      BY <3>1, FS_AddElement DEF Admitted
    <3> QED BY <3>1, <3>2, <3>3, ClientCapacity DEF Admitted
  <2>2. CASE ReportUnknown(m)
    <3>1. assoc' = assoc \ {m}
      BY <2>2 DEF ReportUnknown
    <3>2. Cardinality(assoc) \in Nat
      BY FS_CardinalityType DEF Admitted
    <3> QED BY <3>1, <3>2, FS_RemoveElement, ClientCapacity DEF Admitted
  <2> QED BY <2>1, <2>2
<1> QED BY <1>2, <1>3, <1>6, <1>7

(* There is room for a station that has been admitted and is not listed.   *)
LEMMA RoomForAdmitted ==
  ASSUME ClientsInv, sta.pc = "authorized", ~IsApClient(sta.mac)
  PROVE  Len(clients) < GATE_MAX_CLIENTS
<1> USE DEF ClientsInv
<1>1. Listed \subseteq assoc \ {sta.mac} /\ sta.mac \in assoc
  BY DEF ClientsTrackAdmission, Settled, ReportStands, IsApClient
<1>2. Cardinality(Listed) = Len(clients) /\ IsFiniteSet(Listed)
  BY LengthIsCardinality DEF ClientsTypeOK, ClientsTrackAdmission, NoRepeats
<1>3. /\ IsFiniteSet(assoc \ {sta.mac})
      /\ Cardinality(assoc \ {sta.mac}) = Cardinality(assoc) - 1
  BY <1>1, FS_RemoveElement DEF Admitted
<1>4. Cardinality(Listed) <= Cardinality(assoc \ {sta.mac})
  BY <1>1, <1>3, FS_Subset
<1>5. Cardinality(assoc) \in Nat /\ Len(clients) \in Nat
  BY FS_CardinalityType DEF Admitted, ClientsTypeOK
<1> QED BY <1>2, <1>3, <1>4, <1>5, ClientCapacity DEF Admitted

(* The callback brings the table back in step with the admissions.         *)
LEMMA StaStepKeeps ==
  ASSUME ClientsInv, StaStep \/ StaForgotten
  PROVE  ClientsInv'
<1> USE DEF ClientsInv
<1>0. clients \in Seq(ClientMac) /\ NoRepeats /\ Len(clients) \in Nat
  BY DEF ClientsTypeOK, ClientsTrackAdmission, NoRepeats
<1>1. CASE StaAuthorized
  <2>1. /\ sta.pc = "authorized" /\ sta.mac \in ClientMac
        /\ sta' = StaIdle /\ assoc' = assoc /\ clients' = Appended(sta.mac)
    BY <1>1 DEF StaAuthorized, ClientsTypeOK
  <2>2. /\ clients' \in Seq(ClientMac) /\ NoRepeats'
        /\ Listed' = Listed \cup {sta.mac}
        /\ Len(clients') <= GATE_MAX_CLIENTS
    <3>1. CASE IsApClient(sta.mac)
      <4>1. clients' = clients
        BY <2>1, <3>1 DEF Appended
      <4> QED BY <1>0, <4>1, <3>1
          DEF NoRepeats, Listed, IsApClient, ClientsTrackAdmission
    <3>2. CASE ~IsApClient(sta.mac)
      <4>1. Len(clients) < GATE_MAX_CLIENTS
        BY <2>1, <3>2, RoomForAdmitted
      <4> QED BY <1>0, <2>1, <3>2, <4>1, AppendedLists, ClientCapacity
    <3> QED BY <3>1, <3>2
  <2>3. Listed' = assoc'
    BY <2>1, <2>2 DEF ClientsTrackAdmission, Settled, ReportStands
  <2> QED BY <2>1, <2>2, <2>3
      DEF ClientsTypeOK, ClientsTrackAdmission, NoRepeats, Admitted,
          ReportStands, Settled, StaIdle, StaPc
<1>2. CASE StaUnknown
  <2>1. /\ sta.pc = "unknown" /\ sta.mac \in ClientMac
        /\ sta' = [sta EXCEPT !.pc = "forget"]
        /\ assoc' = assoc /\ clients' = SwapRemoved(sta.mac)
    BY <1>2 DEF StaUnknown, ClientsTypeOK
  <2>2. /\ clients' \in Seq(ClientMac) /\ NoRepeats'
        /\ Listed' = Listed \ {sta.mac}
        /\ Len(clients') <= Len(clients)
    BY <1>0, <2>1, SwapRemovedUnlists
  <2>3. /\ sta' \in [pc : StaPc, mac : ClientMac \cup {NoMac}]
        /\ sta'.pc = "forget" /\ sta'.mac = sta.mac
    BY <2>1 DEF ClientsTypeOK, StaPc
  <2>4. Listed' = assoc'
    BY <2>1, <2>2 DEF ClientsTrackAdmission, Settled, ReportStands
  <2>5. Len(clients') <= GATE_MAX_CLIENTS
    <3>1. Len(clients') \in Nat
      BY <2>2
    <3> QED BY <1>0, <2>2, <3>1, ClientCapacity DEF ClientsTrackAdmission
  <2> QED BY <2>1, <2>2, <2>3, <2>4, <2>5
      DEF ClientsTypeOK, ClientsTrackAdmission, NoRepeats, Admitted,
          ReportStands, Settled
<1>3. CASE StaForgotten
  <2>1. /\ sta.pc = "forget" /\ sta' = StaIdle
        /\ assoc' = assoc /\ clients' = clients /\ Listed' = Listed
    BY <1>3 DEF StaForgotten, Listed
  <2> QED BY <2>1
      DEF ClientsTypeOK, ClientsTrackAdmission, Admitted, ReportStands,
          Settled, StaIdle, StaPc
<1> QED BY <1>1, <1>2, <1>3 DEF StaStep

(* A step that leaves the client table alone keeps it.                     *)
LEMMA ClientsStutter ==
  ASSUME ClientsInv, UNCHANGED clientVars
  PROVE  ClientsInv'
BY DEF ClientsInv, clientVars, ClientsTypeOK, ClientsTrackAdmission, Admitted,
       ReportStands, Listed, Settled

=============================================================================
