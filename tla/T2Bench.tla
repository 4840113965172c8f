------------------------------- MODULE T2Bench -------------------------------
(***************************************************************************)
(* The on-air tier of the regression harness: tools/regtest/t2_onair.py    *)
(* and linux_peer.py, with go_radio_silent of common.py, over the stamped  *)
(* builds (module BuildStamp).  A call of Reporter.add is one step here,   *)
(* which appends to the run's results; module Reporter takes it apart.     *)
(*                                                                         *)
(* A run takes the selected tests in order.  A test resolves each of its   *)
(* roles to a device, brings up the support roles, flashes and captures    *)
(* the reporters, records one verdict, and tears its Linux node down; an   *)
(* exception ends the test alone.  Whatever happens, the boards the run    *)
(* used are flashed to the idle app at the end.  A single-board test is    *)
(* one reporter role on any board.                                         *)
(*                                                                         *)
(* The bench changes under the run: a board drops off the bus and comes    *)
(* back, a flash fails half way, ssh fails, a capture sees nothing, and    *)
(* the run is interrupted or killed.                                       *)
(***************************************************************************)
EXTENDS Results, BuildStamp

CONSTANTS
  Board,       \* the ESP boards
  Port0,       \* the board on /dev/ttyACM0, the Makefile's default PORT
  Linux,       \* the Linux node, as a device
  AnyEsp,      \* a role's device: the first ESP that is free
  Suite        \* T2_TESTS: [slug, blocked, roles], in order

(* A role is [dev, app, vars, marker, reporter]: its device, firmware, its *)
(* share of the app's build options, whether it has an up_marker.  The     *)
(* roles of a test name different boards, and a role on any board comes    *)
(* after those that name theirs: the resolution of a named board does not  *)
(* look at the ones already taken.                                         *)
ASSUME BenchSuite ==
  /\ Port0 \in Board
  /\ Linux \notin Board /\ AnyEsp \notin Board \cup {Linux}
  /\ 1 \in DOMAIN Suite
  /\ \A i \in DOMAIN Suite :
       /\ Suite[i].slug \notin Board /\ DOMAIN Suite[i].roles \subseteq Nat \ {0}
       /\ ~Suite[i].blocked => \E k \in DOMAIN Suite[i].roles : Suite[i].roles[k].reporter
       /\ \A j \in DOMAIN Suite : Suite[j].slug = Suite[i].slug => i = j
       /\ \A k \in DOMAIN Suite[i].roles :
            LET r == Suite[i].roles[k] IN
            /\ r.dev \in Board \cup {Linux, AnyEsp}
            /\ r.dev # Linux => r.app \in App
            /\ r.vars \subseteq Var
            /\ r.reporter => r.dev # Linux
       /\ \A j, k \in DOMAIN Suite[i].roles :
            j < k /\ Suite[i].roles[k].dev \in Board =>
              Suite[i].roles[j].dev \notin {AnyEsp, Suite[i].roles[k].dev}

VARIABLES
  present,   \* the boards enumerated
  image,     \* what each board runs: Idle, or an app, the options wanted and
             \* built; history: those its cache had been given by hand
  node,      \* the Linux node is on the air
  t2         \* the run: where it is, and its locals

benchVars == <<present, image, node, t2>>
vars == <<buildVars, benchVars>>

Idle == [app |-> "idle", want |-> {}, built |-> {}, hand |-> {}]

(* assign: the role's device, by role.  port: the device's port was found  *)
(* for the flash.  used: used_boards.  said: the reporters' verdicts.      *)
(* owed: a Linux teardown is due.  exc: an exception is on its way out of  *)
(* the test.  quit: out of the run.  quiet: go_radio_silent's results.     *)
(* History: up, the supports that came up; taken, the tests begun;         *)
(* flashed, the boards whose flash returned; adrift, the node was left on *)
(* by a kill or a failed step; shot, the run was killed, or its silence    *)
(* raised.                                                                 *)
NoRun == [pc |-> "off", todo |-> {}, test |-> 1, role |-> 1, done |-> {}, assign |-> <<>>,
          port |-> FALSE, used |-> {}, said |-> {}, owed |-> FALSE,
          exc |-> FALSE, quit |-> FALSE, left |-> {}, quiet |-> <<>>,
          results |-> <<>>, complete |-> FALSE,
          up |-> {}, taken |-> {}, flashed |-> {}, adrift |-> FALSE, shot |-> FALSE]

Init ==
  /\ BuildInit
  /\ present = Board
  /\ image = [b \in Board |-> Idle]
  /\ node = FALSE
  /\ t2 = NoRun

T2Only == UNCHANGED <<buildVars, present, image, node>>

\* The roles of the test, the supports first, each in declaration order.
Roles(test) == Suite[test].roles
Supports(test) == {k \in DOMAIN Roles(test) : ~Roles(test)[k].reporter}
Reporters(test) == DOMAIN Roles(test) \ Supports(test)
Precedes(test, j, k) ==
  IF (j \in Supports(test)) = (k \in Supports(test)) THEN j < k
                                                     ELSE j \in Supports(test)

Role == Roles(t2.test)[t2.role]
Device == t2.assign[t2.role]

\* _resolve_build_vars: every flash of an app gets what its roles contribute.
BuildVars(test, app) ==
  UNION {Roles(test)[k].vars : k \in {j \in DOMAIN Roles(test) : Roles(test)[j].app = app}}

\* On with run r: the next role in turn and, after the last, the verdict.
Onward(r) ==
  LET left == DOMAIN Roles(r.test) \ r.done IN
  \/ /\ left = {}
     /\ t2' = [r EXCEPT !.pc = "verdict"]
  \/ \E k \in left :
       /\ \A j \in left \ {k} : Precedes(r.test, k, j)
       /\ t2' = [r EXCEPT !.pc = "role", !.role = k]

-----------------------------------------------------------------------------
(* run: start, the next test, the record of its result                     *)

Start(todo) ==
  /\ t2.pc = "off"
  /\ t2' = [NoRun EXCEPT !.pc = "next", !.todo = todo, !.adrift = t2.adrift]
  /\ T2Only

\* Slip: the roles resolved for a test are still there for the next one.
EndedKeepsRoles(r) == [r EXCEPT !.pc = "next", !.role = 1, !.done = {}, !.up = {},
                                !.said = {}, !.exc = FALSE]

\* The test is over, and its locals with it.
Ended(r) == [r EXCEPT !.pc = "next", !.role = 1, !.done = {}, !.assign = <<>>, !.up = {},
                      !.said = {}, !.exc = FALSE]

\* One result of the current test.
Record(r, status) ==
  /\ t2' = [r EXCEPT !.results = Append(@, ResultOf(Suite[t2.test].slug, status))]
  /\ T2Only

\* Slip: a board is taken without looking at the roles before.
ResolvesShared(test, assign) ==
  \A k \in DOMAIN Roles(test) :
    LET dev == Roles(test)[k].dev IN
    \/ dev = AnyEsp /\ assign[k] \in present
    \/ dev # AnyEsp /\ assign[k] = dev /\ (dev = Linux \/ dev \in present)

(* _resolve_role: a named device as it is, a free one for "any-esp".       *)
Resolves(test, assign) ==
  \A k \in DOMAIN Roles(test) :
    LET dev == Roles(test)[k].dev IN
    \/ /\ dev = AnyEsp
       /\ assign[k] \in present
       /\ \A j \in 1 .. k - 1 : assign[j] # assign[k]
    \/ dev # AnyEsp /\ assign[k] = dev /\ (dev = Linux \/ dev \in present)

Assignments(test) ==
  {a \in [DOMAIN Roles(test) -> Board \cup {Linux}] : Resolves(test, a)}

NextTest ==
  /\ t2.pc = "next" /\ ~t2.quit
  /\ \E n \in t2.todo :
       /\ \A m \in t2.todo : n <= m
       /\ t2' = [t2 EXCEPT !.pc = "resolve", !.test = n,
                           !.todo = @ \ {n}, !.taken = @ \cup {n}]
  /\ T2Only

(* _dispatch and the resolution: a blocked test, an absent board and an    *)
(* unreachable node are a SKIP.                                            *)
Skip ==
  /\ t2.pc = "resolve"
  /\ \/ Suite[t2.test].blocked
     \/ Assignments(t2.test) = {}
     \/ \E k \in DOMAIN Roles(t2.test) : Roles(t2.test)[k].dev = Linux
  /\ Record(Ended(t2), SKIP)

Resolve ==
  /\ t2.pc = "resolve"
  /\ ~Suite[t2.test].blocked
  /\ \E assign \in Assignments(t2.test) : Onward([t2 EXCEPT !.assign = assign])
  /\ T2Only

-----------------------------------------------------------------------------
(* An ESP role: the port is looked up again, and _flash called.  A board   *)
(* that is gone by now has no port, and make falls back on its default.    *)

Flash ==
  /\ t2.pc = "role" /\ Device # Linux
  /\ FlashBegin(Role.app, BuildVars(t2.test, Role.app))
  /\ t2' = [t2 EXCEPT !.pc = "flash", !.port = Device \in present]
  /\ UNCHANGED <<present, image, node>>

Reset ==
  /\ t2.pc = "flash"
  /\ DropCache \/ DropStamp
  /\ UNCHANGED benchVars

Target == IF t2.port THEN Device ELSE Port0

\* External: the board at the port runs what the cache was configured with.
Written ==
  /\ Target \in present
  /\ image' = [image EXCEPT ![Target] =
       [app |-> flash.app, want |-> flash.want,
        built |-> Configured(Current.cache, flash.want), hand |-> Current.hand]]

Flashed ==
  /\ t2.pc = "flash" /\ MakeOk /\ Written
  /\ UNCHANGED <<present, node, t2>>

\* Slip: a reporter's board is not one to silence.
UseSupportsOnly ==
  /\ t2.pc = "flash" /\ WriteStamp
  /\ t2' = [t2 EXCEPT !.pc = "watch", !.flashed = @ \cup {Device},
                      !.used = IF Role.reporter THEN @ ELSE @ \cup {Device}]
  /\ UNCHANGED <<present, image, node>>

\* make succeeded: the stamp is written, and the board is one to silence.
UseBoard ==
  /\ t2.pc = "flash" /\ WriteStamp
  /\ t2' = [t2 EXCEPT !.pc = "watch", !.flashed = @ \cup {Device},
                      !.used = @ \cup {Device}]
  /\ UNCHANGED <<present, image, node>>

(* make returns an error, or raises on a timeout, the image written or not.*)
FlashFails ==
  /\ t2.pc = "flash" /\ MakeFails
  /\ Written \/ image' = image
  /\ \E exc \in BOOLEAN :
       t2' = [t2 EXCEPT !.pc = IF exc THEN "down" ELSE "fail", !.exc = exc]
  /\ UNCHANGED <<present, node>>

(* A support role is up when its marker is seen, or, with no marker, after *)
(* its boot wait.  A capture may also raise.                               *)
SupportUp ==
  /\ t2.pc = "watch" /\ ~Role.reporter
  /\ Onward([t2 EXCEPT !.up = @ \cup {t2.role}, !.done = @ \cup {t2.role}])
  /\ T2Only

SupportDown ==
  /\ t2.pc = "watch" /\ ~Role.reporter /\ Role.marker
  /\ \E exc \in BOOLEAN :
       t2' = [t2 EXCEPT !.pc = IF exc THEN "down" ELSE "fail", !.exc = exc]
  /\ T2Only

\* A reporter says PASS, FAIL or INCONCLUSIVE, or nothing within the window.
Capture ==
  /\ t2.pc = "watch" /\ Role.reporter
  /\ \/ \E v \in {PASS, FAIL, INCONCLUSIVE, "NONE"} :
          Onward([t2 EXCEPT !.said = @ \cup {v}, !.done = @ \cup {t2.role}])
     \/ t2' = [t2 EXCEPT !.pc = "down", !.exc = TRUE]
  /\ T2Only

-----------------------------------------------------------------------------
(* A Linux role: bring_up_mesh, bring_up_gate, bring_up_ap over ssh.  The  *)
(* node is up and a teardown is owed; or it fails before anything was      *)
(* started; or the daemon was started and the node did not get to its mode *)
(* in time, or ssh raised, and then no teardown is handed back; or the     *)
(* gate's parameters did not take, and one is.                             *)

LinuxUp ==
  /\ t2.pc = "role" /\ Device = Linux
  /\ node' = TRUE
  /\ Onward([t2 EXCEPT !.up = @ \cup {t2.role}, !.done = @ \cup {t2.role},
                        !.owed = TRUE])
  /\ UNCHANGED <<buildVars, present, image>>

LinuxFails ==
  /\ t2.pc = "role" /\ Device = Linux
  /\ \E on \in BOOLEAN, owed \in BOOLEAN, exc \in BOOLEAN :
       /\ owed => on /\ ~exc
       /\ node' = (node \/ on)
       /\ t2' = [t2 EXCEPT !.pc = IF exc THEN "down" ELSE "fail", !.exc = exc,
                           !.owed = @ \/ owed, !.adrift = @ \/ (on /\ ~owed)]
  /\ UNCHANGED <<buildVars, present, image>>

-----------------------------------------------------------------------------
(* The verdict and the end of a test                                       *)

Fail == t2.pc = "fail" /\ Record([t2 EXCEPT !.pc = "down"], FAIL)

\* Slip: any reporter's PASS is a PASS.
CombinedAny(said) ==
  IF PASS \in said THEN PASS
  ELSE IF INCONCLUSIVE \in said THEN INCONCLUSIVE ELSE FAIL

\* _record_verdict, _record_multi_verdict: silence is not a pass.
Combined(said) ==
  IF said \cap {FAIL, "NONE"} # {} THEN FAIL
  ELSE IF INCONCLUSIVE \in said THEN INCONCLUSIVE
  ELSE PASS

Verdict ==
  /\ t2.pc = "verdict"
  /\ Record([t2 EXCEPT !.pc = "down"], Combined(t2.said))

\* Out of the finally: to run, or to its except clause.
Left(r) == IF r.exc /\ ~r.quit THEN [r EXCEPT !.pc = "raised"] ELSE Ended(r)

\* Slip: the teardown is skipped when the test raised.
TeardownUnlessRaised ==
  /\ t2.pc = "down"
  /\ node' = IF t2.owed /\ ~t2.exc THEN FALSE ELSE node
  /\ t2' = Left([t2 EXCEPT !.owed = FALSE])
  /\ UNCHANGED <<buildVars, present, image>>

(* The finally: the teardown, whose own failure is swallowed.              *)
Teardown ==
  /\ t2.pc = "down"
  /\ \E fails \in {FALSE, t2.owed} :
       /\ node' = IF t2.owed /\ ~fails THEN FALSE ELSE node
       /\ t2' = Left([t2 EXCEPT !.owed = FALSE,
                                !.adrift = IF t2.owed THEN fails ELSE @])
  /\ UNCHANGED <<buildVars, present, image>>

\* Slip: the exception ends the test and is not recorded.
RaisedUnrecorded == t2.pc = "raised" /\ t2' = Ended(t2) /\ T2Only

\* run: an exception out of a test is that test's INCONCLUSIVE.
Raised == t2.pc = "raised" /\ Record(Ended(t2), INCONCLUSIVE)

-----------------------------------------------------------------------------
(* The end of the run: go_radio_silent over the boards used, whose results *)
(* are recorded when it has done them all.                                 *)

Silence ==
  /\ t2.pc = "next" /\ (t2.todo = {} \/ t2.quit)
  /\ t2' = [t2 EXCEPT !.pc = "silence", !.left = t2.used]
  /\ T2Only

SilenceAbsent ==
  /\ t2.pc = "silence"
  /\ \E b \in t2.left \ present :
       t2' = [t2 EXCEPT !.left = @ \ {b}, !.quiet = Append(@, ResultOf(b, SKIP))]
  /\ T2Only

SilenceBoard ==
  /\ t2.pc = "silence"
  /\ \E b \in t2.left \cap present :
       \/ /\ image' = [image EXCEPT ![b] = Idle]
          /\ t2' = [t2 EXCEPT !.left = @ \ {b}, !.quiet = Append(@, ResultOf(b, PASS))]
       \/ /\ image' = image
          /\ t2' = [t2 EXCEPT !.left = @ \ {b}, !.quiet = Append(@, ResultOf(b, FAIL))]
  /\ UNCHANGED <<buildVars, present, node>>

\* The flash of the idle app times out: nothing catches it.
SilenceRaises ==
  /\ t2.pc = "silence" /\ t2.left \cap present # {}
  /\ t2' = [t2 EXCEPT !.pc = "off", !.shot = TRUE]
  /\ T2Only

\* Slip: a result stays among those to record.
RecordSilenceAgain ==
  /\ t2.pc = "silence" /\ t2.left = {}
  /\ t2.quiet # <<>>
  /\ t2' = [t2 EXCEPT !.results = Append(@, Head(t2.quiet))]
  /\ T2Only

RecordSilence ==
  /\ t2.pc = "silence" /\ t2.left = {}
  /\ t2.quiet # <<>>
  /\ t2' = [t2 EXCEPT !.quiet = Tail(@), !.results = Append(@, Head(t2.quiet))]
  /\ T2Only

Finish ==
  /\ t2.pc = "silence" /\ t2.left = {} /\ t2.quiet = <<>>
  /\ t2' = [t2 EXCEPT !.pc = "off", !.complete = ~t2.quit]
  /\ T2Only

-----------------------------------------------------------------------------
(* External                                                                *)

(* Ctrl-C within a test: the finally blocks still run.                     *)
Interrupt ==
  /\ t2.pc \in {"role", "flash", "watch"}
  /\ BuildKill
  /\ t2' = [t2 EXCEPT !.pc = "down", !.exc = TRUE, !.quit = TRUE]
  /\ UNCHANGED image \/ (flash.pc = "make" /\ Written)
  /\ UNCHANGED <<present, node>>

Kill ==
  /\ t2.pc # "off" /\ BuildKill
  /\ t2' = [NoRun EXCEPT !.adrift = t2.adrift \/ node, !.shot = TRUE]
  /\ UNCHANGED image \/ (flash.pc = "make" /\ Written)
  /\ UNCHANGED <<present, node>>

Enumerate(b) ==
  /\ present' = IF b \in present THEN present \ {b} ELSE present \cup {b}
  /\ UNCHANGED <<buildVars, image, node, t2>>

(* Between two runs, another tier or a person makes an app.  What that     *)
(* puts on a board is left out: a run flashes the boards it uses.          *)
OtherMake(a, options) ==
  /\ t2.pc = "off" /\ PlainMake(a, options)
  /\ UNCHANGED benchVars

Test == NextTest \/ Skip \/ Resolve \/ Fail \/ Verdict \/ Teardown \/ Raised
Esp == Flash \/ Reset \/ Flashed \/ UseBoard \/ FlashFails \/ SupportUp \/ SupportDown \/ Capture
Node == LinuxUp \/ LinuxFails
Quiet == Silence \/ SilenceAbsent \/ SilenceBoard \/ SilenceRaises \/ RecordSilence \/ Finish

Next ==
  \/ \E todo \in SUBSET DOMAIN Suite : Start(todo)
  \/ Test \/ Esp \/ Node \/ Quiet
  \/ Interrupt \/ Kill
  \/ \E b \in Board : Enumerate(b)
  \/ \E a \in App, options \in ByHand : OtherMake(a, options)

Spec == Init /\ [][Next]_vars

-----------------------------------------------------------------------------
Devices == Board \cup {Linux}

Images == [app : App \cup {"idle"}, want : SUBSET Var, built : SUBSET Var, hand : SUBSET Var]

\* The types of the run, with those of the builds.
BenchTypeOK ==
  /\ BuildTypeOK
  /\ present \subseteq Board
  /\ image \in [Board -> Images]
  /\ node \in BOOLEAN
  /\ t2.pc \in {"off", "next", "resolve", "role", "flash", "watch", "fail",
                "verdict", "down", "raised", "silence"}
  /\ t2.todo \subseteq DOMAIN Suite /\ t2.test \in DOMAIN Suite
  /\ t2.assign = <<>> \/ t2.assign \in [DOMAIN Roles(t2.test) -> Devices]
  /\ t2.used \cup t2.left \cup t2.flashed \subseteq Board
  /\ t2.up \subseteq t2.done /\ t2.done \subseteq DOMAIN Roles(t2.test)
  /\ t2.pc \in {"role", "flash", "watch"} => t2.role \in DOMAIN t2.assign \ t2.done
  /\ t2.said \subseteq {PASS, FAIL, INCONCLUSIVE, "NONE"}

Slugs == {Suite[i].slug : i \in DOMAIN Suite}

(* A run records one result for each test it takes up, however the test    *)
(* ends: the early returns, the verdict, the exception that run turns into *)
(* INCONCLUSIVE.  No name is recorded twice, a test's or, of the silence   *)
(* at the end, a board's; and between two tests all those taken up have    *)
(* their result unless the run was interrupted.                            *)
ExactlyOneResult ==
  /\ \A name \in Slugs \cup Board : Cardinality(PlacesOf(t2.results, name)) <= 1
  /\ t2.pc \in {"next", "silence"} /\ ~t2.quit =>
       \A i \in t2.taken : PlacesOf(t2.results, Suite[i].slug) # {}

(* No two roles of a test hold the same board, so that none is flashed     *)
(* over while another role still needs it.                                 *)
RolesApart ==
  t2.pc \in {"role", "flash", "watch"} =>
    \A j, k \in DOMAIN t2.assign :
      t2.assign[j] = t2.assign[k] /\ t2.assign[j] \in Board => j = k

(* When a test is recorded PASS, every support role came up and every      *)
(* reporter said PASS.                                                     *)
PassIsWhole ==
  t2.pc = "down" /\ PASS \in StatusesOf(t2.results, Suite[t2.test].slug) =>
    /\ t2.up = Supports(t2.test)
    /\ t2.said = {PASS}

(* "Silence is not a pass": a PASS is whole, and it was measured between   *)
(* different boards, none of which played two of the test's roles.         *)
PassIsEarned == RolesApart /\ PassIsWhole

(* "Always leave the bench silent, even if a test raised": when a run ends *)
(* by itself, every board it flashed is idle, or its silence was recorded  *)
(* as failed or skipped.  A run ends by itself also after an interrupt.    *)
BenchSilent ==
  t2.pc = "off" /\ ~t2.shot =>
    \A b \in t2.flashed :
      image[b] = Idle \/ StatusesOf(t2.results, b) \cap {FAIL, SKIP} # {}

(* The Linux node is on the air only while a teardown is owed, or after a  *)
(* kill, a teardown that failed, or a bring-up that handed none back.      *)
NodeAccounted == node => t2.owed \/ t2.adrift

(* A flash of the run arms nothing that it was not asked to arm, whatever  *)
(* was armed by hand before it and whatever was killed.  Of the other      *)
(* options, one that was not asked for is on a board only if a make        *)
(* outside _flash had put it in the cache that the flash found, or after a *)
(* kill between the deletions: never from an earlier flash.                *)
BuiltAsAsked ==
  \A b \in Board :
    /\ image[b].built \cap Always = image[b].want \cap Always
    /\ cut \/ Agrees(image[b].built, image[b].want, image[b].hand)

-----------------------------------------------------------------------------
(* What the comments say, and the runs refute                              *)

(* common.py: "without ever falling back to a guessed ttyACM".  When the   *)
(* flash of a role has succeeded, its board runs the role's app.           *)
FlashesItsBoard == t2.pc = "watch" => image[Device].app = Role.app

(* t2_onair.py: "the next flash must still see no stamp and reset again".  *)
(* A board runs its app as it was asked for, whatever was cut short.       *)
FlashedAsAsked == \A b \in Board : image[b].built = image[b].want

=============================================================================
