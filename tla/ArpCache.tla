------------------------------ MODULE ArpCache -------------------------------
(***************************************************************************)
(* What the gate's proxy-ARP table promises its users: a cache of IP->MAC  *)
(* claims that behaves as if every operation on it were atomic.  Each IP   *)
(* has at most one claim, the latest learnt; learning an IP the cache      *)
(* already knows costs no other claim, and a new one costs at most one.    *)
(* An ARP request is answered with a claim held at that moment for the IP  *)
(* asked for, of a host on the other side.  An announce round teaches all  *)
(* claims of one moment, and those only.                                   *)
(***************************************************************************)
CONSTANTS
  Claim,
  Caller,    \* those who ask
  Question   \* an ARP request: [ip, side], the side it came from

VARIABLES
  known,     \* the claims held
  told,      \* per caller, the answer it is passing on, if any
  taught     \* the claims of the announce round under way

Init == known = {} /\ told = [t \in Caller |-> {}] /\ taught = {}

SameIp(c) == {d \in known : d.ip = c.ip}

Refresh(c) ==
  /\ SameIp(c) # {}
  /\ known' = (known \ SameIp(c)) \cup {c}

Insert(c) ==
  /\ SameIp(c) = {}
  /\ \E v \in known \cup {c} : known' = (known \ {v}) \cup {c}

Drop == \E gone \in SUBSET known : known' = known \ gone

Answers(q) == {c \in known : c.ip = q.ip /\ c.side # q.side}

Answer(t) ==
  /\ told[t] = {}
  /\ \E q \in Question : \E c \in Answers(q) :
       told' = [told EXCEPT ![t] = {[question |-> q, claim |-> c]}]

PassOn(t) == told[t] # {} /\ told' = [told EXCEPT ![t] = {}]

\* What a round ages out is gone from the claims it teaches.
BeginRound == taught = {} /\ Drop /\ taught' = known'

EndRound == taught # {} /\ taught' = {}

Next ==
  \/ /\ Drop \/ \E c \in Claim : Refresh(c) \/ Insert(c)
     /\ UNCHANGED <<told, taught>>
  \/ (\E t \in Caller : Answer(t) \/ PassOn(t)) /\ UNCHANGED <<known, taught>>
  \/ BeginRound /\ UNCHANGED told
  \/ EndRound /\ UNCHANGED <<known, told>>

vars == <<known, told, taught>>

Spec == Init /\ [][Next]_vars

=============================================================================
