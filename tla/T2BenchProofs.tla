---------------------------- MODULE T2BenchProofs ----------------------------
(***************************************************************************)
(* What holds of the on-air tier for every bench, every suite of tests and *)
(* every set of build options.                                             *)
(*                                                                         *)
(* The stamp.  StampTellsCache says what the stamp is for between flashes; *)
(* a flash breaks into steps, and the invariant has to say what is true at *)
(* each of them: BuildInv.  From it a make that writes an image was always *)
(* configured with the options it was asked for and those given by hand.   *)
(*                                                                         *)
(* The run.  RunInv places a run that is in a test: its test is one of the *)
(* suite, its role one of the test, its devices those the test resolved.   *)
(* ResultsInv says which tests have a result at each place, NamesInv which *)
(* boards, EarnedInv what the roles done so far have said, SilentInv which *)
(* boards are settled.                                                     *)
(* Their conjunction with those of the builds, the images and the node is  *)
(* the inductive invariant, BenchInv, that each theorem follows from.      *)
(***************************************************************************)
EXTENDS T2Bench, FiniteSetTheorems, TLAPS

BuildTypes ==
  /\ build \in [App -> [cache : Options, stamp : Options, hand : SUBSET Var]]
  /\ flash \in [pc : {"none", "cache", "stamp", "make", "wrote"}, app : App,
                want : SUBSET Var]
  /\ cut \in BOOLEAN

Flashing(a, pc) == flash.pc = pc /\ flash.app = a

\* No cache, with nothing given by hand, or one that agrees with `asked`.
Fits(cache, asked, hand) ==
  IF cache = NoFile THEN hand = {} ELSE Agrees(cache, asked, hand)

(* An app with no cache has no stamp, but for the flash that has just      *)
(* deleted the one, and has been given nothing by hand; a stamp and a      *)
(* cache agree; a make starts from no cache, or from one that agrees with  *)
(* the options it wants, and leaves one that does.                         *)
StampInv(a) ==
  /\ build[a].cache = NoFile =>
       (build[a].stamp = NoFile \/ Flashing(a, "stamp")) /\ build[a].hand = {}
  /\ build[a].cache # NoFile /\ build[a].stamp # NoFile =>
       Agrees(build[a].cache, build[a].stamp, build[a].hand)
  /\ Flashing(a, "stamp") => build[a].cache = NoFile
  /\ Flashing(a, "make") => Fits(build[a].cache, flash.want, build[a].hand)
                            /\ build[a].stamp \in {NoFile, flash.want}
  /\ Flashing(a, "wrote") => build[a].cache # NoFile
                             /\ Agrees(build[a].cache, flash.want, build[a].hand)

\* No kill fell between the deletions.
BuildInv == BuildTypes /\ (cut \/ \A a \in App : StampInv(a))

BuildStep ==
  \/ DropCache \/ DropStamp \/ MakeOk \/ MakeFails \/ WriteStamp \/ BuildKill
  \/ \E a \in App, options \in SUBSET Var : PlainMake(a, options)
  \/ \E a \in App, want \in SUBSET Var : FlashBegin(a, want)
  \/ UNCHANGED buildVars

LEMMA BuildInitInv == BuildInit => BuildInv
<1> SUFFICES ASSUME BuildInit PROVE BuildInv
  OBVIOUS
<1>1. NoFlash \in [pc : {"none", "cache", "stamp", "make", "wrote"}, app : App,
                   want : SUBSET Var]
  BY BuildConstants DEF NoFlash
<1>2. NoFile \in Options
  BY DEF Options
<1>3. BuildTypes
  BY <1>1, <1>2 DEF BuildInit, BuildTypes
<1>4. ASSUME NEW a \in App PROVE StampInv(a)
  BY <1>4 DEF BuildInit, StampInv, Flashing, NoFlash
<1> QED
  BY <1>3, <1>4 DEF BuildInv

LEMMA ConfiguredType ==
  ASSUME NEW cache \in Options, NEW want \in SUBSET Var
  PROVE  /\ Configured(cache, want) \in Options
         /\ Configured(cache, want) # NoFile
<1>1. CASE cache = NoFile
  BY <1>1, BuildConstants DEF Configured, Options
<1>2. CASE cache # NoFile
  <2>1. (cache \ Always) \cup want \in SUBSET Var
    BY <1>2 DEF Options
  <2> QED
    BY <1>2, <2>1, BuildConstants DEF Configured, Options
<1> QED
  BY <1>1, <1>2

\* Of the options passed in every make, the cache has those just asked for.
LEMMA ConfiguredAlways ==
  ASSUME NEW cache, NEW want
  PROVE  Configured(cache, want) \cap Always = want \cap Always
BY DEF Configured

\* A cache that fits what is wanted is configured to agree with it.
LEMMA ConfiguredFits ==
  ASSUME NEW cache, NEW want, NEW hand, Fits(cache, want, hand)
  PROVE  Agrees(Configured(cache, want), want, hand)
<1>1. CASE cache = NoFile
  BY <1>1 DEF Fits, Agrees, Configured
<1>2. CASE cache # NoFile
  <2>1. cache \ Always = (want \ Always) \cup hand
    BY <1>2 DEF Fits, Agrees
  <2>2. ((cache \ Always) \cup want) \ Always = (want \ Always) \cup hand
    BY <2>1
  <2> QED
    BY <1>2, <2>2 DEF Agrees, Configured
<1> QED
  BY <1>1, <1>2

\* A make by hand adds the same options to the cache and to `hand`.
LEMMA ConfiguredByHand ==
  ASSUME NEW cache, cache # NoFile, NEW stamp, NEW hand, Agrees(cache, stamp, hand),
         NEW options
  PROVE  Agrees(Configured(cache, options), stamp, hand \cup (options \ Always))
<1>1. cache \ Always = (stamp \ Always) \cup hand
  BY DEF Agrees
<1>2. ((cache \ Always) \cup options) \ Always
        = (stamp \ Always) \cup (hand \cup (options \ Always))
  BY <1>1
<1> QED
  BY <1>2 DEF Agrees, Configured

LEMMA BuildTypesKept == BuildTypes /\ BuildStep => BuildTypes'
<1> SUFFICES ASSUME BuildTypes, BuildStep PROVE BuildTypes'
  OBVIOUS
<1> USE DEF BuildTypes
<1>1. NoFile \in Options /\ flash.want \in Options
  BY DEF Options
<1>a. Current.cache \in Options /\ Current.stamp \in Options
  BY DEF Current
<1>2. NoFlash \in [pc : {"none", "cache", "stamp", "make", "wrote"}, app : App,
                   want : SUBSET Var]
  BY BuildConstants DEF NoFlash
<1>3. CASE DropCache
  BY <1>1, <1>3 DEF DropCache
<1>4. CASE DropStamp
  BY <1>1, <1>4 DEF DropStamp
<1>5. CASE MakeOk
  BY <1>1, <1>a, <1>5, ConfiguredType DEF MakeOk
<1>6. CASE MakeFails
  BY <1>1, <1>a, <1>2, <1>6, ConfiguredType DEF MakeFails
<1>7. CASE WriteStamp
  BY <1>1, <1>a, <1>2, <1>7 DEF WriteStamp
<1>8. CASE BuildKill
  BY <1>1, <1>a, <1>2, <1>8, ConfiguredType DEF BuildKill, Current
<1>9. CASE \E a \in App, options \in SUBSET Var : PlainMake(a, options)
  <2>1. PICK a \in App, options \in SUBSET Var : PlainMake(a, options)
    BY <1>9
  <2>2. Configured(build[a].cache, options) \in Options
    BY ConfiguredType
  <2>3. build[a].hand \cup (options \ Always) \in SUBSET Var
    OBVIOUS
  <2> QED
    BY <2>1, <2>2, <2>3 DEF PlainMake
<1>10. CASE \E a \in App, want \in SUBSET Var : FlashBegin(a, want)
  BY <1>10 DEF FlashBegin
<1>11. CASE UNCHANGED buildVars
  BY <1>11 DEF buildVars
<1> QED
  BY <1>3, <1>4, <1>5, <1>6, <1>7, <1>8, <1>9, <1>10, <1>11 DEF BuildStep

Configures(a) ==
  /\ Configured(build[a].cache, flash.want) # NoFile
  /\ Agrees(Configured(build[a].cache, flash.want), flash.want, build[a].hand)

\* What make configures with agrees with what it was asked for.
LEMMA FlashConfigures ==
  ASSUME BuildTypes, NEW a \in App, StampInv(a), Flashing(a, "make")
  PROVE  Configures(a)
<1>1. /\ build[a].cache \in Options /\ flash.want \in SUBSET Var
      /\ Fits(build[a].cache, flash.want, build[a].hand)
  BY DEF BuildTypes, StampInv
<1> QED
  BY ONLY <1>1, ConfiguredType, ConfiguredFits DEF Configures

LEMMA BuildKept == BuildInv /\ BuildStep => BuildInv'
<1> SUFFICES ASSUME BuildInv, BuildStep PROVE BuildInv'
  OBVIOUS
<1>1. BuildTypes /\ BuildTypes'
  BY BuildTypesKept DEF BuildInv
<1>2. cut => cut'
  BY DEF BuildStep, DropCache, DropStamp, MakeOk, MakeFails, WriteStamp, BuildKill,
         PlainMake, FlashBegin, buildVars
<1> SUFFICES ASSUME ~cut', NEW a \in App PROVE StampInv(a)'
  BY <1>1, <1>2 DEF BuildInv
<1>3. StampInv(a) /\ StampInv(flash.app)
  BY <1>1, <1>2 DEF BuildInv, BuildTypes
<1> USE <1>1, <1>3, BuildConstants DEF BuildTypes, StampInv, Flashing, NoFlash, Current, Options
<1>4. CASE DropCache
  BY <1>4 DEF DropCache
<1>5. CASE DropStamp
  <2>1. /\ flash.pc = "stamp" /\ flash'.pc = "make" /\ flash'.app = flash.app
        /\ build'[a].cache = build[a].cache /\ build'[a].hand = build[a].hand
        /\ build'[a].stamp = IF a = flash.app THEN NoFile ELSE build[a].stamp
    BY <1>5 DEF DropStamp
  <2> QED
    BY <2>1 DEF Fits
<1>6. CASE MakeOk
  <2>1. Flashing(a, "make") => Configures(a)
    BY FlashConfigures
  <2> QED
    BY <1>6, <2>1 DEF MakeOk, Configures
<1>7. CASE MakeFails
  <2>1. flash' = NoFlash /\ flash.pc = "make"
    BY <1>7 DEF MakeFails
  <2>2. build'[a].stamp = build[a].stamp
        /\ build'[a].hand = build[a].hand
        /\ \/ build'[a].cache = build[a].cache
           \/ flash.app = a /\ build'[a].cache = Configured(build[a].cache, flash.want)
    BY <1>7 DEF MakeFails
  <2>3. flash.app = a => Configures(a)
    BY <2>1, FlashConfigures
  <2> QED
    BY <2>1, <2>2, <2>3 DEF Configures
<1>8. CASE WriteStamp
  BY <1>8 DEF WriteStamp
<1>9. CASE BuildKill
  <2>1. flash' = NoFlash /\ flash.pc # "stamp"
    BY <1>9 DEF BuildKill
  <2>2. build'[a].stamp \in {build[a].stamp, NoFile}
        /\ (build'[a].stamp # build[a].stamp => flash.pc = "wrote" /\ flash.app = a)
        /\ build'[a].hand = build[a].hand
        /\ \/ build'[a].cache = build[a].cache
           \/ Flashing(a, "make") /\ build'[a].cache = Configured(build[a].cache, flash.want)
    BY <1>9 DEF BuildKill
  <2>3. Flashing(a, "make") => Configures(a)
    BY FlashConfigures
  <2> QED
    BY <2>1, <2>2, <2>3 DEF Configures
<1>10. CASE \E b \in App, options \in SUBSET Var : PlainMake(b, options)
  <2>1. PICK b \in App, options \in SUBSET Var : PlainMake(b, options)
    BY <1>10
  <2>2. CASE a # b
    BY <2>1, <2>2 DEF PlainMake
  <2>3. CASE a = b
    <3>1. /\ flash' = flash /\ flash.pc = "none"
          /\ build'[a].stamp = build[a].stamp
          /\ build'[a].cache = Configured(build[a].cache, options)
          /\ build'[a].hand = build[a].hand \cup (options \ Always)
      BY <2>1, <2>3 DEF PlainMake
    <3>2. build'[a].cache # NoFile
      BY <3>1, ConfiguredType
    <3>3. build'[a].stamp # NoFile =>
            Agrees(build'[a].cache, build'[a].stamp, build'[a].hand)
      BY <3>1, ConfiguredByHand
    <3> QED
      BY <3>1, <3>2, <3>3
  <2> QED
    BY <2>2, <2>3
<1>11. CASE \E b \in App, want \in SUBSET Var : FlashBegin(b, want)
  <2>1. PICK b \in App, want \in SUBSET Var : FlashBegin(b, want)
    BY <1>11
  <2>2. build' = build /\ flash'.app = b /\ flash'.want = want
        /\ flash'.pc = IF MustReset(b, want) THEN "cache" ELSE "make"
    BY <2>1 DEF FlashBegin
  <2>3. flash.pc = "none"
    BY <2>1 DEF FlashBegin
  <2>4. CASE a # b
    BY <2>2, <2>3, <2>4
  <2>5. CASE a = b /\ MustReset(b, want)
    BY <2>2, <2>3, <2>5
  <2>6. CASE a = b /\ ~MustReset(b, want)
    <3>1. build[a].cache = NoFile \/ build[a].stamp = want
      BY <2>6 DEF MustReset
    <3>2. Fits(build[a].cache, want, build[a].hand) /\ build[a].stamp \in {NoFile, want}
      BY <2>3, <3>1 DEF Fits
    <3> QED
      BY <2>2, <2>3, <2>6, <3>2
  <2> QED
    BY <2>4, <2>5, <2>6
<1>12. CASE UNCHANGED buildVars
  BY <1>12 DEF buildVars
<1> QED
  BY <1>4, <1>5, <1>6, <1>7, <1>8, <1>9, <1>10, <1>11, <1>12 DEF BuildStep

\* What make writes has the options asked for, and of others those by hand.
LEMMA BuiltAsWanted ==
  BuildInv /\ flash.pc = "make" /\ ~cut =>
    Agrees(Configured(Current.cache, flash.want), flash.want, Current.hand)
<1> SUFFICES ASSUME BuildInv, flash.pc = "make", ~cut
             PROVE  Agrees(Configured(Current.cache, flash.want), flash.want, Current.hand)
  OBVIOUS
<1>1. BuildTypes /\ StampInv(flash.app) /\ flash.app \in App
  BY DEF BuildInv, BuildTypes
<1>2. Configures(flash.app)
  BY <1>1, FlashConfigures DEF Flashing
<1> QED
  BY <1>2 DEF Configures, Current

-----------------------------------------------------------------------------
RunFields == DOMAIN NoRun

RunTypes ==
  /\ DOMAIN t2 = RunFields /\ present \subseteq Board
  /\ t2.pc \in {"off", "next", "resolve", "role", "flash", "watch", "fail",
                "verdict", "down", "raised", "silence"}
  /\ t2.todo \subseteq DOMAIN Suite /\ t2.test \in DOMAIN Suite
  /\ t2.assign = <<>> \/ t2.assign \in [DOMAIN Roles(t2.test) -> Devices]
  /\ t2.used \subseteq Board /\ t2.left \subseteq Board /\ t2.flashed \subseteq Board
  /\ t2.up \subseteq t2.done /\ t2.done \subseteq DOMAIN Roles(t2.test)
  /\ t2.said \subseteq {PASS, FAIL, INCONCLUSIVE, "NONE"}

\* What _resolve_role sees to: a Linux role gets the node, boards go to one role.
Assigned ==
  /\ t2.assign \in [DOMAIN Roles(t2.test) -> Devices]
  /\ \A k \in DOMAIN Roles(t2.test) :
       t2.assign[k] = Linux <=> Roles(t2.test)[k].dev = Linux
  /\ \A j, k \in DOMAIN Roles(t2.test) :
       t2.assign[j] = t2.assign[k] /\ t2.assign[j] \in Board => j = k

InRole == t2.pc \in {"role", "flash", "watch"}

RunInv ==
  /\ RunTypes
  /\ t2.pc \in {"off", "next", "resolve", "silence"} =>
       t2.assign = <<>> /\ t2.done = {} /\ t2.up = {} /\ t2.said = {}
  /\ InRole => Assigned /\ t2.role \in DOMAIN Roles(t2.test) \ t2.done
  /\ t2.pc \in {"flash", "watch"} => Device # Linux

\* Two roles of a resolved test hold different boards.
LEMMA ResolvedApart ==
  ASSUME NEW test \in DOMAIN Suite, NEW assign \in Assignments(test), present \subseteq Board
  PROVE  /\ assign \in [DOMAIN Roles(test) -> Devices]
         /\ \A k \in DOMAIN Roles(test) : assign[k] = Linux <=> Roles(test)[k].dev = Linux
         /\ \A j, k \in DOMAIN Roles(test) :
              assign[j] = assign[k] /\ assign[j] \in Board => j = k
<1>1. assign \in [DOMAIN Roles(test) -> Devices] /\ Resolves(test, assign)
  BY DEF Assignments, Devices
<1>2. AnyEsp # Linux /\ Linux \notin Board /\ AnyEsp \notin Board
      /\ DOMAIN Roles(test) \subseteq Nat \ {0}
  BY BenchSuite DEF Roles
<1>3. ASSUME NEW k \in DOMAIN Roles(test)
      PROVE  assign[k] = Linux <=> Roles(test)[k].dev = Linux
  BY <1>1, <1>2, <1>3 DEF Resolves
<1>4. ASSUME NEW j \in DOMAIN Roles(test), NEW k \in DOMAIN Roles(test),
             j < k, assign[j] = assign[k], assign[j] \in Board
      PROVE  FALSE
  <2>1. CASE Roles(test)[k].dev = AnyEsp
    <3>1. j \in 1 .. k - 1
      BY <1>2, <1>4
    <3> QED
      BY <1>1, <1>4, <2>1, <3>1 DEF Resolves
  <2>2. CASE Roles(test)[k].dev # AnyEsp
    <3>1. Roles(test)[k].dev = assign[k]
      BY <1>1, <2>2 DEF Resolves
    <3>2. Roles(test)[j].dev \notin {AnyEsp, assign[k]}
      BY <1>4, <3>1, BenchSuite DEF Roles
    <3> QED
      BY <1>1, <1>4, <3>2 DEF Resolves
  <2> QED
    BY <2>1, <2>2
<1>5. ASSUME NEW j \in DOMAIN Roles(test), NEW k \in DOMAIN Roles(test), j # k
      PROVE  j < k \/ k < j
  BY <1>2, <1>5
<1> QED
  BY <1>1, <1>3, <1>4, <1>5

LEMMA RunInitInv == Init => RunInv
BY BenchSuite DEF Init, NoRun, RunInv, RunTypes, RunFields, InRole

\* Onward moves pc and role, and nothing else of the run.
LEMMA OnwardMoves ==
  ASSUME NEW r, DOMAIN r = RunFields, Onward(r)
  PROVE  /\ DOMAIN t2' = RunFields
         /\ \/ t2'.pc = "verdict" /\ DOMAIN Roles(r.test) \subseteq r.done
            \/ t2'.pc = "role" /\ t2'.role \in DOMAIN Roles(r.test) \ r.done
         /\ \A f \in RunFields \ {"pc", "role"} : t2'[f] = r[f]
BY DEF Onward, RunFields, NoRun

\* r differs from the run in its place, its roles and the teardown at most.
Keeps(r) ==
  /\ r.todo = t2.todo /\ r.taken = t2.taken /\ r.test = t2.test /\ r.quit = t2.quit
  /\ r.results = t2.results /\ r.quiet = t2.quiet /\ r.adrift = t2.adrift
  /\ r.used = t2.used /\ r.left = t2.left /\ r.flashed = t2.flashed /\ r.shot = t2.shot

\* Once resolved, and after each role, the run goes on to a role or the verdict.
LEMMA OnwardStep ==
  ASSUME DOMAIN t2 = RunFields, Resolve \/ SupportUp \/ LinuxUp \/ Capture
  PROVE  /\ DOMAIN t2' = RunFields /\ Keeps(t2')
         /\ \/ t2'.pc \in {"role", "verdict"} /\ t2'.exc = t2.exc
            \/ t2'.pc = "down" /\ t2'.exc = TRUE
         /\ Resolve \/ SupportUp \/ Capture => t2'.owed = t2.owed /\ node' = node
         /\ LinuxUp => t2'.owed = TRUE
<1>1. ASSUME NEW r, DOMAIN r = RunFields, Onward(r), Keeps(r), r.exc = t2.exc
      PROVE  /\ DOMAIN t2' = RunFields /\ Keeps(t2') /\ t2'.owed = r.owed
             /\ t2'.pc \in {"role", "verdict"} /\ t2'.exc = t2.exc
  BY <1>1, OnwardMoves DEF RunFields, NoRun, Keeps
<1>2. Resolve \/ SupportUp \/ Capture => node' = node /\ ~LinuxUp
  BY DEF Resolve, SupportUp, Capture, T2Only, LinuxUp
<1>3. CASE Resolve
  <2>1. PICK assign : Onward([t2 EXCEPT !.assign = assign])
    BY <1>3 DEF Resolve
  <2> DEFINE r == [t2 EXCEPT !.assign = assign]
  <2>2. DOMAIN r = RunFields /\ Keeps(r) /\ r.exc = t2.exc /\ r.owed = t2.owed
    BY DEF RunFields, NoRun, Keeps
  <2>3. Onward(r)
    BY <2>1
  <2> HIDE DEF r
  <2> QED
    BY <1>1, <1>2, <1>3, <2>2, <2>3
<1>4. CASE SupportUp
  <2> DEFINE r == [t2 EXCEPT !.up = @ \cup {t2.role}, !.done = @ \cup {t2.role}]
  <2>2. DOMAIN r = RunFields /\ Keeps(r) /\ r.exc = t2.exc /\ r.owed = t2.owed
    BY DEF RunFields, NoRun, Keeps
  <2>3. Onward(r)
    BY <1>4 DEF SupportUp
  <2> HIDE DEF r
  <2> QED
    BY <1>1, <1>2, <1>4, <2>2, <2>3
<1>5. CASE LinuxUp
  <2> DEFINE r == [t2 EXCEPT !.up = @ \cup {t2.role}, !.done = @ \cup {t2.role},
                             !.owed = TRUE]
  <2>2. DOMAIN r = RunFields /\ Keeps(r) /\ r.exc = t2.exc /\ r.owed = TRUE
    BY DEF RunFields, NoRun, Keeps
  <2>3. Onward(r)
    BY <1>5 DEF LinuxUp
  <2> HIDE DEF r
  <2> QED
    BY <1>1, <1>2, <1>5, <2>2, <2>3
<1>6. CASE Capture
  <2>1. CASE t2' = [t2 EXCEPT !.pc = "down", !.exc = TRUE]
    <3>1. /\ DOMAIN t2' = RunFields /\ Keeps(t2') /\ t2'.pc = "down" /\ t2'.exc = TRUE
          /\ t2'.owed = t2.owed
      BY <2>1 DEF RunFields, NoRun, Keeps
    <3> QED
      BY <1>2, <1>6, <3>1
  <2>2. ASSUME NEW v, Onward([t2 EXCEPT !.said = @ \cup {v}, !.done = @ \cup {t2.role}])
        PROVE  /\ DOMAIN t2' = RunFields /\ Keeps(t2') /\ t2'.owed = t2.owed
               /\ t2'.pc \in {"role", "verdict"} /\ t2'.exc = t2.exc
    <3> DEFINE r == [t2 EXCEPT !.said = @ \cup {v}, !.done = @ \cup {t2.role}]
    <3>1. DOMAIN r = RunFields /\ Keeps(r) /\ r.exc = t2.exc /\ r.owed = t2.owed
      BY DEF RunFields, NoRun, Keeps
    <3>2. Onward(r)
      BY <2>2
    <3> HIDE DEF r
    <3> QED
      BY <1>1, <3>1, <3>2
  <2>3. \/ t2' = [t2 EXCEPT !.pc = "down", !.exc = TRUE]
        \/ \E v : Onward([t2 EXCEPT !.said = @ \cup {v}, !.done = @ \cup {t2.role}])
    BY <1>6 DEF Capture
  <2>4. CASE \E v : Onward([t2 EXCEPT !.said = @ \cup {v}, !.done = @ \cup {t2.role}])
    BY <1>2, <1>6, <2>2, <2>4
  <2> QED
    BY <2>1, <2>3, <2>4
<1> QED
  BY <1>3, <1>4, <1>5, <1>6

LEMMA RunKept == RunInv /\ [Next]_vars => RunInv'
<1> SUFFICES ASSUME RunInv, [Next]_vars PROVE RunInv'
  OBVIOUS
<1> USE DEF RunInv, RunTypes, RunFields, InRole, Assigned, NoRun, Record, Ended, Left,
            T2Only, Device
<1>1. CASE \E todo \in SUBSET DOMAIN Suite : Start(todo)
  BY <1>1, BenchSuite DEF Start
<1>2. CASE NextTest
  BY <1>2 DEF NextTest
<1>3. CASE Skip
  BY <1>3 DEF Skip
<1>4. CASE Resolve
  <2>0. PICK assign \in Assignments(t2.test) : Onward([t2 EXCEPT !.assign = assign])
    BY <1>4 DEF Resolve
  <2> DEFINE r == [t2 EXCEPT !.assign = assign]
  <2>1. DOMAIN r = RunFields /\ Onward(r)
    BY <2>0
  <2> HIDE DEF r
  <2>2. /\ DOMAIN t2' = RunFields
        /\ \/ t2'.pc = "verdict"
           \/ t2'.pc = "role" /\ t2'.role \in DOMAIN Roles(r.test) \ r.done
        /\ t2'.todo = r.todo /\ t2'.test = r.test /\ t2'.assign = r.assign
        /\ t2'.used = r.used /\ t2'.left = r.left /\ t2'.flashed = r.flashed
        /\ t2'.up = r.up /\ t2'.done = r.done /\ t2'.said = r.said
    BY <2>1, OnwardMoves
  <2>3. /\ r.todo = t2.todo /\ r.test = t2.test /\ r.used = t2.used
        /\ r.left = t2.left /\ r.flashed = t2.flashed
        /\ r.assign = assign /\ r.up = t2.up /\ r.done = t2.done /\ r.said = t2.said
    BY DEF r
  <2>4. t2.pc = "resolve" /\ present' = present
    BY <1>4 DEF Resolve
  <2> QED
    BY <2>0, <2>2, <2>3, <2>4, ResolvedApart
<1>5. CASE Fail
  BY <1>5 DEF Fail
<1>6. CASE Verdict
  BY <1>6 DEF Verdict
<1>7. CASE Teardown
  BY <1>7 DEF Teardown
<1>8. CASE Raised
  BY <1>8 DEF Raised
<1>9. CASE Flash
  BY <1>9 DEF Flash
<1>10. CASE Reset
  BY <1>10 DEF Reset, benchVars
<1>11. CASE Flashed
  BY <1>11 DEF Flashed
<1>12. CASE UseBoard
  <2>1. t2.pc = "flash" /\ Device \in Board
    BY <1>12 DEF UseBoard, Devices
  <2> QED
    BY <1>12, <2>1 DEF UseBoard
<1>13. CASE FlashFails
  BY <1>13 DEF FlashFails
<1>14. CASE SupportUp
  <2> DEFINE r == [t2 EXCEPT !.up = @ \cup {t2.role}, !.done = @ \cup {t2.role}]
  <2>1. DOMAIN r = RunFields /\ Onward(r)
    BY <1>14 DEF SupportUp
  <2> HIDE DEF r
  <2>2. /\ DOMAIN t2' = RunFields
        /\ \/ t2'.pc = "verdict"
           \/ t2'.pc = "role" /\ t2'.role \in DOMAIN Roles(r.test) \ r.done
        /\ t2'.todo = r.todo /\ t2'.test = r.test /\ t2'.assign = r.assign
        /\ t2'.used = r.used /\ t2'.left = r.left /\ t2'.flashed = r.flashed
        /\ t2'.up = r.up /\ t2'.done = r.done /\ t2'.said = r.said
    BY <2>1, OnwardMoves
  <2>3. /\ r.todo = t2.todo /\ r.test = t2.test /\ r.used = t2.used
        /\ r.left = t2.left /\ r.flashed = t2.flashed
        /\ r.assign = t2.assign /\ r.up = t2.up \cup {t2.role}
        /\ r.done = t2.done \cup {t2.role} /\ r.said = t2.said
    BY DEF r
  <2>4. t2.pc = "watch" /\ present' = present
    BY <1>14 DEF SupportUp
  <2> QED
    BY <2>2, <2>3, <2>4
<1>15. CASE SupportDown
  BY <1>15 DEF SupportDown
<1>16. CASE Capture
  <2>a. t2.pc = "watch" /\ present' = present
    BY <1>16 DEF Capture
  <2>b. CASE t2' = [t2 EXCEPT !.pc = "down", !.exc = TRUE]
    BY <2>a, <2>b
  <2>c. CASE \E v \in {PASS, FAIL, INCONCLUSIVE, "NONE"} :
               Onward([t2 EXCEPT !.said = @ \cup {v}, !.done = @ \cup {t2.role}])
    <3>0. PICK v \in {PASS, FAIL, INCONCLUSIVE, "NONE"} :
             Onward([t2 EXCEPT !.said = @ \cup {v}, !.done = @ \cup {t2.role}])
      BY <2>c
    <3> DEFINE r == [t2 EXCEPT !.said = @ \cup {v}, !.done = @ \cup {t2.role}]
    <3>1. DOMAIN r = RunFields /\ Onward(r)
      BY <3>0
    <3> HIDE DEF r
    <3>2. /\ DOMAIN t2' = RunFields
          /\ \/ t2'.pc = "verdict"
             \/ t2'.pc = "role" /\ t2'.role \in DOMAIN Roles(r.test) \ r.done
          /\ t2'.todo = r.todo /\ t2'.test = r.test /\ t2'.assign = r.assign
          /\ t2'.used = r.used /\ t2'.left = r.left /\ t2'.flashed = r.flashed
          /\ t2'.up = r.up /\ t2'.done = r.done /\ t2'.said = r.said
      BY <3>1, OnwardMoves
    <3>3. /\ r.todo = t2.todo /\ r.test = t2.test /\ r.used = t2.used
          /\ r.left = t2.left /\ r.flashed = t2.flashed
          /\ r.assign = t2.assign /\ r.up = t2.up
          /\ r.done = t2.done \cup {t2.role} /\ r.said = t2.said \cup {v}
        BY DEF r
    <3> QED
      BY <2>a, <3>2, <3>3
  <2> QED
    BY <1>16, <2>b, <2>c DEF Capture
<1>17. CASE LinuxUp
  <2> DEFINE r == [t2 EXCEPT !.up = @ \cup {t2.role}, !.done = @ \cup {t2.role},
                        !.owed = TRUE]
  <2>1. DOMAIN r = RunFields /\ Onward(r)
    BY <1>17 DEF LinuxUp
  <2> HIDE DEF r
  <2>2. /\ DOMAIN t2' = RunFields
        /\ \/ t2'.pc = "verdict"
           \/ t2'.pc = "role" /\ t2'.role \in DOMAIN Roles(r.test) \ r.done
        /\ t2'.todo = r.todo /\ t2'.test = r.test /\ t2'.assign = r.assign
        /\ t2'.used = r.used /\ t2'.left = r.left /\ t2'.flashed = r.flashed
        /\ t2'.up = r.up /\ t2'.done = r.done /\ t2'.said = r.said
    BY <2>1, OnwardMoves
  <2>3. /\ r.todo = t2.todo /\ r.test = t2.test /\ r.used = t2.used
        /\ r.left = t2.left /\ r.flashed = t2.flashed
        /\ r.assign = t2.assign /\ r.up = t2.up \cup {t2.role}
        /\ r.done = t2.done \cup {t2.role} /\ r.said = t2.said
    BY DEF r
  <2>4. t2.pc = "role" /\ present' = present
    BY <1>17 DEF LinuxUp
  <2> QED
    BY <2>2, <2>3, <2>4
<1>18. CASE LinuxFails
  BY <1>18 DEF LinuxFails
<1>19. CASE Silence
  BY <1>19 DEF Silence
<1>20. CASE SilenceAbsent
  BY <1>20 DEF SilenceAbsent
<1>21. CASE SilenceBoard
  <2>1. PICK b \in t2.left, v \in {PASS, FAIL} :
          t2' = [t2 EXCEPT !.left = @ \ {b}, !.quiet = Append(@, ResultOf(b, v))]
    BY <1>21 DEF SilenceBoard
  <2>2. t2.pc = "silence" /\ present' = present
    BY <1>21 DEF SilenceBoard
  <2> QED
    BY <2>1, <2>2
<1>22. CASE SilenceRaises
  BY <1>22 DEF SilenceRaises
<1>23. CASE RecordSilence
  BY <1>23 DEF RecordSilence
<1>24. CASE Finish
  BY <1>24 DEF Finish
<1>25. CASE Interrupt
  BY <1>25 DEF Interrupt
<1>26. CASE Kill
  BY <1>26 DEF Kill
<1>27. CASE \E b \in Board : Enumerate(b)
  BY <1>27 DEF Enumerate
<1>28. CASE \E a \in App, options \in ByHand : OtherMake(a, options)
  BY <1>28 DEF OtherMake, benchVars
<1>29. CASE UNCHANGED vars
  BY <1>29 DEF vars, benchVars
<1> QED
  BY <1>1, <1>2, <1>3, <1>4, <1>5, <1>6, <1>7, <1>8, <1>9, <1>10, <1>11, <1>12,
     <1>13, <1>14, <1>15, <1>16, <1>17, <1>18, <1>19, <1>20, <1>21, <1>22, <1>23,
     <1>24, <1>25, <1>26, <1>27, <1>28, <1>29
  DEF Next, Test, Esp, Node, Quiet

-----------------------------------------------------------------------------
\* The steps of the run take the builds through their own steps only.
LEMMA StepBuilds == RunInv /\ BuildTypes /\ [Next]_vars => BuildStep
<1> SUFFICES ASSUME RunInv, BuildTypes, [Next]_vars PROVE BuildStep
  OBVIOUS
<1>1. CASE Flash
  <2>1. Role.app \in App
    BY <1>1, BenchSuite DEF Flash, RunInv, RunTypes, InRole, Assigned, Role, Roles, Device
  <2>2. BuildVars(t2.test, Role.app) \in SUBSET Var
    BY BenchSuite DEF RunInv, RunTypes, BuildVars, Roles
  <2> QED
    BY <1>1, <2>1, <2>2 DEF Flash, BuildStep
<1>2. CASE Reset \/ Flashed \/ UseBoard \/ FlashFails
  BY <1>2 DEF Reset, Flashed, UseBoard, FlashFails, BuildStep
<1>3. CASE Interrupt \/ Kill \/ \E a \in App, options \in ByHand : OtherMake(a, options)
  BY <1>3, BuildConstants DEF Interrupt, Kill, OtherMake, BuildStep
<1>4. CASE UNCHANGED buildVars
  BY <1>4 DEF BuildStep
<1> QED
  BY <1>1, <1>2, <1>3, <1>4
  DEF Next, Test, Esp, Node, Quiet, vars, T2Only, Start, NextTest, Skip, Resolve, Fail,
      Verdict, Teardown, Raised, SupportUp, SupportDown, Capture, LinuxUp, LinuxFails,
      Silence, SilenceAbsent, SilenceBoard, SilenceRaises, RecordSilence, Finish,
      Enumerate, Record

ImageInv ==
  /\ image \in [Board -> Images]
  /\ BuiltAsAsked

LEMMA IdleAsAsked ==
  /\ Idle \in Images /\ Idle.built \cap Always = Idle.want \cap Always
  /\ Agrees(Idle.built, Idle.want, Idle.hand)
BY DEF Idle, Images, Agrees

\* A board that make has written runs what it was asked to.
LEMMA WrittenKept ==
  BuildInv /\ ImageInv /\ flash.pc = "make" /\ Written /\ (cut => cut') => ImageInv'
<1> SUFFICES ASSUME BuildInv, ImageInv, flash.pc = "make", Written, cut => cut'
             PROVE  ImageInv'
  OBVIOUS
<1> DEFINE built == Configured(Current.cache, flash.want)
<1>1. /\ flash.app \in App /\ flash.want \in SUBSET Var
      /\ built \in SUBSET Var /\ Current.hand \in SUBSET Var
  <2>1. /\ flash.app \in App /\ flash.want \in SUBSET Var
        /\ Current.cache \in Options /\ Current.hand \in SUBSET Var
    BY DEF BuildInv, BuildTypes, Current
  <2> QED
    BY <2>1, ConfiguredType DEF Options
<1>2. /\ built \cap Always = flash.want \cap Always
      /\ ~cut => Agrees(built, flash.want, Current.hand)
  BY BuiltAsWanted, ConfiguredAlways
<1> HIDE DEF built
<1> DEFINE written == [app |-> flash.app, want |-> flash.want, built |-> built,
                       hand |-> Current.hand]
<1>3. image' = [image EXCEPT ![Target] = written]
  BY DEF Written, built
<1>4. /\ written \in Images /\ written.built \cap Always = written.want \cap Always
      /\ ~cut => Agrees(written.built, written.want, written.hand)
  BY <1>1, <1>2 DEF Images
<1> HIDE DEF written
<1>5. \A b \in Board : image'[b] \in {image[b], written}
  BY <1>3 DEF ImageInv
<1> QED
  BY <1>3, <1>4, <1>5 DEF ImageInv, BuiltAsAsked

LEMMA ImageKept == RunInv /\ BuildInv /\ ImageInv /\ [Next]_vars => ImageInv'
<1> SUFFICES ASSUME RunInv, BuildInv, ImageInv, [Next]_vars PROVE ImageInv'
  OBVIOUS
<1>1. cut => cut'
  <2>1. BuildStep
    BY StepBuilds DEF BuildInv
  <2> QED
    BY <2>1 DEF BuildStep, DropCache, DropStamp, MakeOk, MakeFails, WriteStamp, BuildKill,
                PlainMake, FlashBegin, buildVars
<1>2. CASE UNCHANGED image
  BY <1>1, <1>2 DEF ImageInv, BuiltAsAsked
<1>3. CASE Flashed \/ FlashFails
  BY <1>1, <1>2, <1>3, WrittenKept DEF Flashed, FlashFails, MakeOk, MakeFails
<1>4. CASE Interrupt \/ Kill
  BY <1>1, <1>2, <1>4, WrittenKept DEF Interrupt, Kill
<1>5. CASE SilenceBoard
  <2>1. PICK b \in t2.left : image' \in {image, [image EXCEPT ![b] = Idle]}
    BY <1>5 DEF SilenceBoard
  <2> QED
    <3>1. b \in Board
      BY DEF RunInv, RunTypes
    <3>2. \A c \in Board : image'[c] \in {image[c], Idle}
      BY <2>1 DEF ImageInv
    <3> QED
      BY <1>1, <2>1, <3>1, <3>2, IdleAsAsked DEF ImageInv, BuiltAsAsked
<1> QED
  BY <1>2, <1>3, <1>4, <1>5
  DEF Next, Test, Esp, Node, Quiet, vars, benchVars, T2Only, Start, NextTest, Skip,
      Resolve, Fail, Verdict, Teardown, Raised, SupportUp, SupportDown, Capture, LinuxUp,
      LinuxFails, Silence, SilenceAbsent, SilenceRaises, RecordSilence, Finish, Enumerate,
      Record, OtherMake, Flash, Reset, UseBoard

-----------------------------------------------------------------------------
\* A teardown is owed only within a test.
NodeInv ==
  /\ node \in BOOLEAN /\ t2.owed \in BOOLEAN /\ t2.adrift \in BOOLEAN
  /\ NodeAccounted
  /\ t2.pc \in {"off", "next", "resolve", "silence", "raised"} => ~t2.owed

LEMMA NodeKept == RunInv /\ NodeInv /\ [Next]_vars => NodeInv'
<1> SUFFICES ASSUME RunInv, NodeInv, [Next]_vars PROVE NodeInv'
  OBVIOUS
<1>0. DOMAIN t2 = RunFields
  BY DEF RunInv, RunTypes
<1> USE <1>0 DEF NodeInv, NodeAccounted, RunFields, NoRun, Record, Ended, Left, T2Only
<1>1. CASE \E todo \in SUBSET DOMAIN Suite : Start(todo)
  BY <1>1 DEF Start
<1>2. CASE NextTest
  BY <1>2 DEF NextTest
<1>3. CASE Skip
  BY <1>3 DEF Skip
<1>4. CASE Resolve
  <2>1. t2'.pc \in {"role", "verdict", "down"} /\ node' = node
        /\ t2'.owed = t2.owed /\ t2'.adrift = t2.adrift
    BY <1>4, OnwardStep DEF Keeps
  <2> QED
    BY <2>1
<1>5. CASE Fail
  BY <1>5 DEF Fail
<1>6. CASE Verdict
  BY <1>6 DEF Verdict
<1>7. CASE Teardown
  <2>1. PICK fails \in {FALSE, t2.owed} :
          /\ node' = IF t2.owed /\ ~fails THEN FALSE ELSE node
          /\ t2' = Left([t2 EXCEPT !.owed = FALSE,
                                   !.adrift = IF t2.owed THEN fails ELSE @])
    BY <1>7 DEF Teardown
  <2>2. t2'.owed = FALSE /\ t2'.adrift = IF t2.owed THEN fails ELSE t2.adrift
    BY <2>1
  <2>3. fails \in BOOLEAN
    BY <2>1
  <2> QED
    BY <2>1, <2>2, <2>3
<1>8. CASE Raised
  BY <1>8 DEF Raised
<1>9. CASE Flash
  BY <1>9 DEF Flash
<1>10. CASE Reset
  BY <1>10 DEF Reset, benchVars
<1>11. CASE Flashed
  BY <1>11 DEF Flashed
<1>12. CASE UseBoard
  BY <1>12 DEF UseBoard
<1>13. CASE FlashFails
  BY <1>13 DEF FlashFails
<1>14. CASE SupportUp
  <2>1. t2'.pc \in {"role", "verdict", "down"} /\ node' = node
        /\ t2'.owed = t2.owed /\ t2'.adrift = t2.adrift
    BY <1>14, OnwardStep DEF Keeps
  <2> QED
    BY <2>1
<1>15. CASE SupportDown
  BY <1>15 DEF SupportDown
<1>16. CASE Capture
  <2>1. t2'.pc \in {"role", "verdict", "down"} /\ node' = node
        /\ t2'.owed = t2.owed /\ t2'.adrift = t2.adrift
    BY <1>16, OnwardStep DEF Keeps
  <2> QED
    BY <2>1
<1>17. CASE LinuxUp
  <2>1. t2'.pc \in {"role", "verdict", "down"} /\ t2'.owed = TRUE /\ t2'.adrift = t2.adrift
    BY <1>17, OnwardStep DEF Keeps
  <2>2. node' = TRUE
    BY <1>17 DEF LinuxUp
  <2> QED
    BY <2>1, <2>2
<1>18. CASE LinuxFails
  BY <1>18 DEF LinuxFails
<1>19. CASE Silence
  BY <1>19 DEF Silence
<1>20. CASE SilenceAbsent
  BY <1>20 DEF SilenceAbsent
<1>21. CASE SilenceBoard
  BY <1>21 DEF SilenceBoard
<1>22. CASE SilenceRaises
  BY <1>22 DEF SilenceRaises
<1>23. CASE RecordSilence
  BY <1>23 DEF RecordSilence
<1>24. CASE Finish
  BY <1>24 DEF Finish
<1>25. CASE Interrupt
  BY <1>25 DEF Interrupt
<1>26. CASE Kill
  BY <1>26 DEF Kill
<1>27. CASE \E b \in Board : Enumerate(b)
  BY <1>27 DEF Enumerate
<1>28. CASE \E a \in App, options \in ByHand : OtherMake(a, options)
  BY <1>28 DEF OtherMake, benchVars
<1>29. CASE UNCHANGED vars
  BY <1>29 DEF vars, benchVars
<1> QED
  BY <1>1, <1>2, <1>3, <1>4, <1>5, <1>6, <1>7, <1>8, <1>9, <1>10, <1>11, <1>12,
     <1>13, <1>14, <1>15, <1>16, <1>17, <1>18, <1>19, <1>20, <1>21, <1>22, <1>23,
     <1>24, <1>25, <1>26, <1>27, <1>28, <1>29
  DEF Next, Test, Esp, Node, Quiet

-----------------------------------------------------------------------------
Entry == [name : Slugs \cup Board, status : Status]

LEMMA Appended ==
  ASSUME NEW S, NEW s \in Seq(S), NEW e \in S, NEW n
  PROVE  /\ Append(s, e) \in Seq(S)
         /\ PlacesOf(Append(s, e), n) =
              PlacesOf(s, n) \cup (IF e.name = n THEN {Len(s) + 1} ELSE {})
         /\ StatusesOf(Append(s, e), n) =
              StatusesOf(s, n) \cup (IF e.name = n THEN {e.status} ELSE {})
<1> DEFINE t == Append(s, e)
<1>1. t \in Seq(S) /\ DOMAIN t = DOMAIN s \cup {Len(s) + 1} /\ Len(s) + 1 \notin DOMAIN s
      /\ (\A k \in DOMAIN s : t[k] = s[k]) /\ t[Len(s) + 1] = e
  OBVIOUS
<1> HIDE DEF t
<1>2. PlacesOf(t, n) = PlacesOf(s, n) \cup (IF e.name = n THEN {Len(s) + 1} ELSE {})
  BY <1>1 DEF PlacesOf
<1>3. \A k \in PlacesOf(s, n) : t[k] = s[k]
  BY <1>1 DEF PlacesOf
<1>4. StatusesOf(t, n) = StatusesOf(s, n) \cup (IF e.name = n THEN {e.status} ELSE {})
  BY <1>1, <1>2, <1>3 DEF StatusesOf
<1> QED
  BY <1>1, <1>2, <1>4 DEF t

Places(i) == PlacesOf(t2.results, Suite[i].slug)
Recorded(i) == Places(i) # {}

(* Each test has at most one result, and none before it is taken up.  The  *)
(* test under way has none, until its verdict or its failure: then it is   *)
(* in its finally and no exception is on its way.                          *)
ResultsInv ==
  /\ t2.results \in Seq(Entry) /\ t2.quiet \in Seq([name : Board, status : Status])
  /\ t2.exc \in BOOLEAN /\ t2.quit \in BOOLEAN
  /\ t2.taken \subseteq DOMAIN Suite /\ t2.todo \cap t2.taken = {}
  /\ \A i \in DOMAIN Suite : \A j, k \in Places(i) : j = k
  /\ \A i \in DOMAIN Suite \ t2.taken : ~Recorded(i)
  /\ t2.exc => t2.pc \in {"down", "raised"}
  /\ t2.pc \in {"resolve", "role", "flash", "watch", "fail", "verdict", "raised"} =>
       t2.test \in t2.taken /\ ~Recorded(t2.test)
  /\ t2.pc = "down" =>
       t2.test \in t2.taken /\ (Recorded(t2.test) <=> ~t2.exc)
  /\ ~t2.quit => \A i \in t2.taken :
       Recorded(i) \/ (i = t2.test /\ t2.pc \notin {"next", "silence", "off"})

\* A result of the test under way, when it has none: Record.
LEMMA TestRecorded ==
  ASSUME RunInv, ResultsInv, ~Recorded(t2.test), NEW status \in Status,
         t2'.results = Append(t2.results, ResultOf(Suite[t2.test].slug, status))
  PROVE  /\ t2'.results \in Seq(Entry)
         /\ \A i \in DOMAIN Suite : Recorded(i)' <=> Recorded(i) \/ i = t2.test
         /\ \A i \in DOMAIN Suite : \A j, k \in Places(i)' : j = k
         /\ StatusesOf(t2'.results, Suite[t2.test].slug) = {status}
<1> DEFINE e == ResultOf(Suite[t2.test].slug, status)
<1>1. t2.test \in DOMAIN Suite
  BY DEF RunInv, RunTypes
<1>2. e \in Entry /\ e.name = Suite[t2.test].slug /\ e.status = status
  BY <1>1 DEF Entry, ResultOf, Slugs
<1>3. \A i \in DOMAIN Suite : Suite[i].slug = Suite[t2.test].slug => i = t2.test
  BY <1>1, BenchSuite
<1> HIDE DEF e
<1>4. t2.results \in Seq(Entry) /\ t2'.results = Append(t2.results, e)
  BY DEF ResultsInv, e
<1>5. ASSUME NEW i \in DOMAIN Suite
      PROVE  Places(i)' = Places(i) \cup (IF i = t2.test THEN {Len(t2.results) + 1} ELSE {})
  BY <1>2, <1>3, <1>4, Appended DEF Places
<1>6. StatusesOf(t2.results, Suite[t2.test].slug) = {}
  BY DEF Recorded, Places, StatusesOf
<1>7. t2'.results \in Seq(Entry)
      /\ StatusesOf(t2'.results, Suite[t2.test].slug) = {status}
  BY <1>2, <1>4, <1>6, Appended
<1>8. \A i \in DOMAIN Suite : Recorded(i)' <=> Recorded(i) \/ i = t2.test
  BY <1>5 DEF Recorded
<1>9. \A i \in DOMAIN Suite : \A j, k \in Places(i)' : j = k
  <2>1. ASSUME NEW i \in DOMAIN Suite, i = t2.test PROVE Places(i)' = {Len(t2.results) + 1}
    BY <1>5, <2>1 DEF Recorded
  <2>2. ASSUME NEW i \in DOMAIN Suite, i # t2.test PROVE Places(i)' = Places(i)
    BY <1>5, <2>2
  <2> QED
    BY <2>1, <2>2 DEF ResultsInv
<1> QED
  BY <1>7, <1>8, <1>9

\* The same results, and the run goes on within the test, or an exception ends it.
LEMMA ResultsSame ==
  ASSUME ResultsInv, t2.pc \in {"resolve", "role", "flash", "watch"},
         t2'.results = t2.results, t2'.quiet = t2.quiet, t2'.taken = t2.taken,
         t2'.todo = t2.todo, t2'.test = t2.test, t2'.quit \in {t2.quit, TRUE},
         \/ t2'.pc \in {"role", "flash", "watch", "fail", "verdict"} /\ t2'.exc = t2.exc
         \/ t2'.pc = "down" /\ t2'.exc = TRUE
  PROVE  ResultsInv'
<1>1. ~t2.exc /\ t2.test \in t2.taken /\ ~Recorded(t2.test)
  BY DEF ResultsInv
<1>2. \A i : Recorded(i)' <=> Recorded(i)
  BY DEF Recorded, Places
<1>3. \A i : Places(i)' = Places(i)
  BY DEF Places
<1> QED
  BY <1>1, <1>2, <1>3 DEF ResultsInv

LEMMA ResultsStart ==
  ASSUME t2'.results = <<>>, t2'.quiet = <<>>, t2'.taken = {}, t2'.exc = FALSE,
         t2'.quit = FALSE, t2'.pc \in {"next", "off"}
  PROVE  ResultsInv'
<1>1. \A i : Places(i)' = {}
  BY DEF Places, PlacesOf
<1>2. <<>> \in Seq(Entry) /\ <<>> \in Seq([name : Board, status : Status])
  OBVIOUS
<1> QED
  BY <1>1, <1>2 DEF ResultsInv, Recorded

LEMMA ResultsKept == RunInv /\ ResultsInv /\ [Next]_vars => ResultsInv'
<1> SUFFICES ASSUME RunInv, ResultsInv, [Next]_vars PROVE ResultsInv'
  OBVIOUS
<1>0. DOMAIN t2 = RunFields /\ t2.test \in DOMAIN Suite
  BY DEF RunInv, RunTypes
<1>s. Status = {PASS, FAIL, SKIP, INCONCLUSIVE}
  BY DEF Status
<1>1. CASE \E todo \in SUBSET DOMAIN Suite : Start(todo)
  <2>1. t2'.results = <<>> /\ t2'.quiet = <<>> /\ t2'.taken = {} /\ t2'.exc = FALSE
        /\ t2'.quit = FALSE /\ t2'.pc = "next"
    BY <1>1 DEF Start, NoRun
  <2> QED
    BY <2>1, ResultsStart
<1>2. CASE Kill
  <2>1. t2'.results = <<>> /\ t2'.quiet = <<>> /\ t2'.taken = {} /\ t2'.exc = FALSE
        /\ t2'.quit = FALSE /\ t2'.pc = "off"
    BY <1>2 DEF Kill, NoRun
  <2> QED
    BY <2>1, ResultsStart
<1>3. CASE t2' = t2
  BY <1>3 DEF ResultsInv, Recorded, Places
<1>4. CASE Flash \/ UseBoard \/ FlashFails \/ SupportDown \/ LinuxFails \/ Interrupt
  <2> DEFINE
    On == /\ t2.pc \in {"role", "flash", "watch"}
          /\ t2'.results = t2.results /\ t2'.quiet = t2.quiet /\ t2'.taken = t2.taken
          /\ t2'.todo = t2.todo /\ t2'.test = t2.test /\ t2'.quit \in {t2.quit, TRUE}
          /\ \/ t2'.pc \in {"flash", "watch", "fail"} /\ t2'.exc = t2.exc
             \/ t2'.pc = "down" /\ t2'.exc = TRUE
  <2>1. t2.pc \in {"role", "flash", "watch"} => t2.exc = FALSE
    BY DEF ResultsInv
  <2> USE <1>0, <2>1 DEF RunFields, NoRun
  <2>2. Flash => On
    BY DEF Flash
  <2>3. UseBoard => On
    BY DEF UseBoard
  <2>4. FlashFails => On
    <3> SUFFICES ASSUME FlashFails PROVE On
      OBVIOUS
    <3>1. PICK exc \in BOOLEAN :
            t2' = [t2 EXCEPT !.pc = IF exc THEN "down" ELSE "fail", !.exc = exc]
      BY DEF FlashFails
    <3>2. t2.pc = "flash"
      BY DEF FlashFails
    <3>3. CASE exc = TRUE
      BY <3>1, <3>2, <3>3
    <3>4. CASE exc = FALSE
      BY <3>1, <3>2, <3>4
    <3> QED
      BY <3>3, <3>4
  <2>5. SupportDown => On
    BY DEF SupportDown
  <2>6. LinuxFails => On
    <3> SUFFICES ASSUME LinuxFails PROVE On
      OBVIOUS
    <3>1. PICK on \in BOOLEAN, owed \in BOOLEAN, exc \in BOOLEAN :
            t2' = [t2 EXCEPT !.pc = IF exc THEN "down" ELSE "fail", !.exc = exc,
                             !.owed = @ \/ owed, !.adrift = @ \/ (on /\ ~owed)]
      BY DEF LinuxFails
    <3>2. t2.pc = "role"
      BY DEF LinuxFails
    <3>3. CASE exc = TRUE
      BY <3>1, <3>2, <3>3
    <3>4. CASE exc = FALSE
      BY <3>1, <3>2, <3>4
    <3> QED
      BY <3>3, <3>4
  <2>7. Interrupt => On
    BY DEF Interrupt
  <2> QED
    BY <1>4, <2>2, <2>3, <2>4, <2>5, <2>6, <2>7, ResultsSame
<1>5. CASE Resolve \/ SupportUp \/ LinuxUp \/ Capture
  <2>1. t2.pc \in {"resolve", "role", "flash", "watch"}
    BY <1>5 DEF Resolve, SupportUp, LinuxUp, Capture
  <2>2. /\ t2'.results = t2.results /\ t2'.quiet = t2.quiet /\ t2'.taken = t2.taken
        /\ t2'.todo = t2.todo /\ t2'.test = t2.test /\ t2'.quit = t2.quit
    BY <1>0, <1>5, OnwardStep DEF Keeps
  <2>3. \/ t2'.pc \in {"role", "verdict"} /\ t2'.exc = t2.exc
        \/ t2'.pc = "down" /\ t2'.exc = TRUE
    BY <1>0, <1>5, OnwardStep
  <2> QED
    BY <2>1, <2>2, <2>3, ResultsSame
<1>6. CASE NextTest
  <2>1. PICK n \in t2.todo :
          t2' = [t2 EXCEPT !.pc = "resolve", !.test = n,
                           !.todo = @ \ {n}, !.taken = @ \cup {n}]
    BY <1>6 DEF NextTest
  <2>2. t2.pc = "next" /\ ~t2.quit
    BY <1>6 DEF NextTest
  <2>3. /\ t2'.results = t2.results /\ t2'.quiet = t2.quiet /\ t2'.exc = t2.exc
        /\ t2'.quit = t2.quit /\ t2'.pc = "resolve" /\ t2'.test = n
        /\ t2'.todo = t2.todo \ {n} /\ t2'.taken = t2.taken \cup {n}
    BY <1>0, <2>1 DEF RunFields, NoRun
  <2>4. n \in DOMAIN Suite \ t2.taken
    BY DEF RunInv, RunTypes, ResultsInv
  <2>5. \A i : Places(i)' = Places(i) /\ (Recorded(i)' <=> Recorded(i))
    BY <2>3 DEF Places, Recorded
  <2> QED
    BY <2>2, <2>3, <2>4, <2>5 DEF ResultsInv
<1>7. CASE Skip \/ Raised
  <2>1. PICK status \in {SKIP, INCONCLUSIVE} : Record(Ended(t2), status)
    BY <1>7 DEF Skip, Raised
  <2>2. t2.pc \in {"resolve", "raised"}
    BY <1>7 DEF Skip, Raised
  <2>3. /\ t2'.results = Append(t2.results, ResultOf(Suite[t2.test].slug, status))
        /\ t2'.quiet = t2.quiet /\ t2'.exc = FALSE /\ t2'.quit = t2.quit
        /\ t2'.pc = "next" /\ t2'.test = t2.test /\ t2'.todo = t2.todo
        /\ t2'.taken = t2.taken
    BY <1>0, <2>1 DEF RunFields, NoRun, Record, Ended
  <2>4. t2.test \in t2.taken /\ ~Recorded(t2.test)
    BY <2>2 DEF ResultsInv
  <2>5. /\ t2'.results \in Seq(Entry)
        /\ \A i \in DOMAIN Suite : Recorded(i)' <=> Recorded(i) \/ i = t2.test
        /\ \A i \in DOMAIN Suite : \A j, k \in Places(i)' : j = k
    BY <1>s, <2>3, <2>4, TestRecorded
  <2> QED
    BY <2>3, <2>4, <2>5 DEF ResultsInv
<1>8. CASE Fail \/ Verdict
  <2>1. PICK status \in {PASS, FAIL, INCONCLUSIVE} : Record([t2 EXCEPT !.pc = "down"], status)
    BY <1>8 DEF Fail, Verdict, Combined
  <2>2. t2.pc \in {"fail", "verdict"}
    BY <1>8 DEF Fail, Verdict
  <2>3. /\ t2'.results = Append(t2.results, ResultOf(Suite[t2.test].slug, status))
        /\ t2'.quiet = t2.quiet /\ t2'.exc = t2.exc /\ t2'.quit = t2.quit
        /\ t2'.pc = "down" /\ t2'.test = t2.test /\ t2'.todo = t2.todo
        /\ t2'.taken = t2.taken
    BY <1>0, <2>1 DEF RunFields, NoRun, Record
  <2>4. t2.test \in t2.taken /\ ~Recorded(t2.test) /\ ~t2.exc
    BY <2>2 DEF ResultsInv
  <2>5. /\ t2'.results \in Seq(Entry)
        /\ \A i \in DOMAIN Suite : Recorded(i)' <=> Recorded(i) \/ i = t2.test
        /\ \A i \in DOMAIN Suite : \A j, k \in Places(i)' : j = k
    BY <1>s, <2>3, <2>4, TestRecorded
  <2> QED
    BY <2>3, <2>4, <2>5 DEF ResultsInv
<1>9. CASE Teardown
  <2>1. /\ t2.pc = "down" /\ t2'.results = t2.results /\ t2'.quiet = t2.quiet
        /\ t2'.taken = t2.taken /\ t2'.todo = t2.todo /\ t2'.test = t2.test
        /\ t2'.quit = t2.quit
        /\ IF t2.exc /\ ~t2.quit THEN t2'.pc = "raised" /\ t2'.exc = t2.exc
                                 ELSE t2'.pc = "next" /\ t2'.exc = FALSE
    BY <1>0, <1>9 DEF RunFields, NoRun, Teardown, Left, Ended
  <2>2. \A i : Places(i)' = Places(i) /\ (Recorded(i)' <=> Recorded(i))
    BY <2>1 DEF Places, Recorded
  <2> QED
    BY <2>1, <2>2 DEF ResultsInv
<1>10. CASE Silence \/ SilenceAbsent \/ SilenceBoard \/ SilenceRaises \/ Finish
  <2> DEFINE
    On == /\ t2.pc \in {"next", "silence"} /\ t2'.pc \in {"silence", "off"}
          /\ t2'.results = t2.results /\ t2'.taken = t2.taken /\ t2'.todo = t2.todo
          /\ t2'.test = t2.test /\ t2'.quit = t2.quit /\ t2'.exc = t2.exc
          /\ \/ t2'.quiet = t2.quiet
             \/ \E b \in t2.left, v \in {SKIP, PASS, FAIL} :
                  t2'.quiet = Append(t2.quiet, ResultOf(b, v))
  <2>1. On
    <3> USE <1>0 DEF RunFields, NoRun
    <3>1. Silence => On
      BY DEF Silence
    <3>2. SilenceAbsent => On
      BY DEF SilenceAbsent
    <3>3. SilenceBoard => On
      <4>1. ASSUME NEW b \in t2.left, NEW v \in {PASS, FAIL}, t2.pc = "silence",
                   t2' = [t2 EXCEPT !.left = @ \ {b}, !.quiet = Append(@, ResultOf(b, v))]
            PROVE  On
        BY <4>1
      <4> QED
        BY <4>1 DEF SilenceBoard
    <3>4. SilenceRaises => On
      BY DEF SilenceRaises
    <3>5. Finish => On
      BY DEF Finish
    <3> QED
      BY <1>10, <3>1, <3>2, <3>3, <3>4, <3>5
  <2>2. \A i : Places(i)' = Places(i) /\ (Recorded(i)' <=> Recorded(i))
    BY <2>1 DEF Places, Recorded
  <2>3. t2'.quiet \in Seq([name : Board, status : Status])
    <3>1. \A b \in t2.left, v \in {SKIP, PASS, FAIL} :
            ResultOf(b, v) \in [name : Board, status : Status]
      BY <1>s DEF ResultOf, RunInv, RunTypes
    <3>2. t2.quiet \in Seq([name : Board, status : Status])
      BY DEF ResultsInv
    <3>3. ASSUME NEW b \in t2.left, NEW v \in {SKIP, PASS, FAIL},
                 t2'.quiet = Append(t2.quiet, ResultOf(b, v))
          PROVE  t2'.quiet \in Seq([name : Board, status : Status])
      <4> DEFINE e == ResultOf(b, v)
                 Q == [name : Board, status : Status]
      <4>1. e \in Q /\ t2.quiet \in Seq(Q) /\ t2'.quiet = Append(t2.quiet, e)
        BY <3>1, <3>2, <3>3
      <4> HIDE DEF e, Q
      <4>2. t2'.quiet \in Seq(Q)
        BY <4>1
      <4> QED
        BY <4>2 DEF Q
    <3> QED
      BY <2>1, <3>2, <3>3
  <2> QED
    BY <2>1, <2>2, <2>3 DEF ResultsInv
<1>11. CASE RecordSilence
  <2> DEFINE e == Head(t2.quiet)
  <2>1. /\ t2.pc = "silence" /\ t2'.pc = "silence"
        /\ t2'.results = Append(t2.results, e) /\ t2'.quiet = Tail(t2.quiet)
        /\ t2'.taken = t2.taken /\ t2'.todo = t2.todo
        /\ t2'.test = t2.test /\ t2'.quit = t2.quit /\ t2'.exc = t2.exc
    BY <1>0, <1>11 DEF RunFields, NoRun, RecordSilence
  <2>2. e \in [name : Board, status : Status]
        /\ t2'.quiet \in Seq([name : Board, status : Status])
    <3> DEFINE Q == [name : Board, status : Status]
    <3>1. t2.quiet \in Seq(Q) /\ t2.quiet # <<>>
      BY <1>11 DEF RecordSilence, ResultsInv
    <3> HIDE DEF Q
    <3>2. Head(t2.quiet) \in Q /\ Tail(t2.quiet) \in Seq(Q)
      BY <3>1
    <3> QED
      BY <2>1, <3>2 DEF Q
  <2> HIDE DEF e
  <2>3. e \in Entry /\ t2.results \in Seq(Entry)
    BY <2>2 DEF Entry, ResultsInv
  <2>4. \A i \in DOMAIN Suite : e.name # Suite[i].slug
    BY <2>2, BenchSuite
  <2>5. t2'.results \in Seq(Entry) /\ \A i \in DOMAIN Suite : Places(i)' = Places(i)
    <3>1. Append(t2.results, e) \in Seq(Entry)
      BY <2>3, Appended
    <3>2. ASSUME NEW i \in DOMAIN Suite
          PROVE  PlacesOf(Append(t2.results, e), Suite[i].slug)
                   = PlacesOf(t2.results, Suite[i].slug)
      <4>1. PlacesOf(Append(t2.results, e), Suite[i].slug)
              = PlacesOf(t2.results, Suite[i].slug)
                  \cup (IF e.name = Suite[i].slug THEN {Len(t2.results) + 1} ELSE {})
        BY <2>3, Appended
      <4> QED
        BY <2>4, <4>1
    <3> QED
      BY <2>1, <3>1, <3>2 DEF Places
  <2>6. \A i \in DOMAIN Suite : Recorded(i)' <=> Recorded(i)
    BY <2>5 DEF Recorded
  <2> QED
    BY <2>1, <2>2, <2>5, <2>6 DEF ResultsInv
<1> QED
  BY <1>1, <1>2, <1>3, <1>4, <1>5, <1>6, <1>7, <1>8, <1>9, <1>10, <1>11
  DEF Next, Test, Esp, Node, Quiet, vars, benchVars, Reset, Flashed, Enumerate, OtherMake

-----------------------------------------------------------------------------
(* The boards among the results.  None is recorded before the silence;     *)
(* then a board is left, or has a result still to be recorded, or has one  *)
(* in the run's results, and never two of these at once.                   *)
NamesInv ==
  /\ \A b \in Board : \A j, k \in PlacesOf(t2.results, b) : j = k
  /\ \A b \in Board : \A j, k \in PlacesOf(t2.quiet, b) : j = k
  /\ \A b \in Board : PlacesOf(t2.quiet, b) = {} \/ PlacesOf(t2.results, b) = {}
  /\ t2.pc = "silence" => \A b \in t2.left :
       PlacesOf(t2.quiet, b) = {} /\ PlacesOf(t2.results, b) = {}
  /\ t2.pc \notin {"silence", "off"} => \A b \in Board :
       PlacesOf(t2.quiet, b) = {} /\ PlacesOf(t2.results, b) = {}

\* A test's result is no board's.
LEMMA NamesOfTest ==
  ASSUME RunInv, ResultsInv, NamesInv, t2.pc \notin {"silence", "off"},
         t2'.pc # "silence", NEW status \in Status, t2'.quiet = t2.quiet,
         t2'.results = Append(t2.results, ResultOf(Suite[t2.test].slug, status))
  PROVE  NamesInv'
<1> DEFINE e == ResultOf(Suite[t2.test].slug, status)
<1>1. t2.test \in DOMAIN Suite
  BY DEF RunInv, RunTypes
<1>2. e \in Entry /\ e.name \notin Board
  BY <1>1, BenchSuite DEF Entry, ResultOf, Slugs
<1> HIDE DEF e
<1>3. t2.results \in Seq(Entry) /\ t2'.results = Append(t2.results, e)
  BY DEF ResultsInv, e
<1>4. ASSUME NEW b \in Board PROVE PlacesOf(t2'.results, b) = {}
  <2>1. PlacesOf(t2'.results, b)
          = PlacesOf(t2.results, b) \cup (IF e.name = b THEN {Len(t2.results) + 1} ELSE {})
    BY <1>2, <1>3, Appended
  <2> QED
    BY <1>2, <2>1 DEF NamesInv
<1>5. \A b \in Board : PlacesOf(t2'.quiet, b) = {}
  BY DEF NamesInv
<1> QED
  BY <1>4, <1>5 DEF NamesInv

LEMMA NamesKept == RunInv /\ ResultsInv /\ NamesInv /\ [Next]_vars => NamesInv'
<1> SUFFICES ASSUME RunInv, ResultsInv, NamesInv, [Next]_vars PROVE NamesInv'
  OBVIOUS
<1> DEFINE Q == [name : Board, status : Status]
<1>0. DOMAIN t2 = RunFields /\ t2.left \subseteq Board /\ t2.used \subseteq Board
      /\ t2.quiet \in Seq(Q) /\ t2.results \in Seq(Entry)
  BY DEF RunInv, RunTypes, ResultsInv
<1> HIDE DEF Q
<1>1. CASE Kill \/ \E todo \in SUBSET DOMAIN Suite : Start(todo)
  <2>1. t2'.results = <<>> /\ t2'.quiet = <<>>
    BY <1>1 DEF Kill, Start, NoRun
  <2>2. \A b : PlacesOf(t2'.results, b) = {} /\ PlacesOf(t2'.quiet, b) = {}
    BY <2>1 DEF PlacesOf
  <2>3. Kill => t2'.pc = "off"
    BY DEF Kill, NoRun
  <2>4. ASSUME NEW todo, Start(todo) PROVE t2'.pc = "next"
    BY <2>4 DEF Start, NoRun
  <2> QED
    BY <1>1, <2>2, <2>3, <2>4 DEF NamesInv
<1>2. CASE t2' = t2
  BY <1>2 DEF NamesInv
<1>3. ASSUME t2'.results = t2.results, t2'.quiet = t2.quiet, t2.pc \notin {"silence", "off"},
             t2'.pc # "silence"
      PROVE  NamesInv'
  BY <1>3 DEF NamesInv
<1>4. CASE Flash \/ UseBoard \/ FlashFails \/ SupportDown \/ LinuxFails \/ Interrupt
           \/ NextTest \/ Teardown
  <2> DEFINE On == t2'.results = t2.results /\ t2'.quiet = t2.quiet
                   /\ t2.pc \notin {"silence", "off"} /\ t2'.pc # "silence"
  <2> USE <1>0 DEF RunFields, NoRun
  <2>1. Flash => On
    BY DEF Flash
  <2>2. UseBoard => On
    BY DEF UseBoard
  <2>3. FlashFails => On
    BY DEF FlashFails
  <2>4. SupportDown => On
    BY DEF SupportDown
  <2>5. LinuxFails => On
    BY DEF LinuxFails
  <2>6. Interrupt => On
    BY DEF Interrupt
  <2>7. NextTest => On
    BY DEF NextTest
  <2>8. Teardown => On
    BY DEF Teardown, Left, Ended
  <2> QED
    BY <1>3, <1>4, <2>1, <2>2, <2>3, <2>4, <2>5, <2>6, <2>7, <2>8
<1>5. CASE Resolve \/ SupportUp \/ LinuxUp \/ Capture
  <2>1. t2.pc \in {"resolve", "role", "watch"}
    BY <1>5 DEF Resolve, SupportUp, LinuxUp, Capture
  <2>2. t2'.results = t2.results /\ t2'.quiet = t2.quiet /\ t2'.pc # "silence"
    BY <1>0, <1>5, OnwardStep DEF Keeps
  <2> QED
    BY <1>3, <2>1, <2>2
<1>6. CASE Skip \/ Raised \/ Fail \/ Verdict
  <2>1. t2.pc \in {"resolve", "raised", "fail", "verdict"}
    BY <1>6 DEF Skip, Raised, Fail, Verdict
  <2>2. ASSUME NEW status \in Status, NEW r \in {Ended(t2), [t2 EXCEPT !.pc = "down"]},
               Record(r, status)
        PROVE  NamesInv'
    <3>1. t2'.results = Append(t2.results, ResultOf(Suite[t2.test].slug, status))
          /\ t2'.quiet = t2.quiet /\ t2'.pc # "silence"
      BY <1>0, <2>2 DEF RunFields, NoRun, Record, Ended
    <3> QED
      BY <2>1, <3>1, NamesOfTest
  <2>3. Combined(t2.said) \in Status
    BY DEF Combined, Status
  <2> QED
    BY <1>6, <2>2, <2>3 DEF Skip, Raised, Fail, Verdict, Status
<1>7. CASE Silence
  <2>1. t2'.results = t2.results /\ t2'.quiet = t2.quiet /\ t2'.left = t2.used
        /\ t2.pc = "next"
    BY <1>0, <1>7 DEF RunFields, NoRun, Silence
  <2> QED
    BY <1>0, <2>1 DEF NamesInv
<1>8. CASE SilenceAbsent \/ SilenceBoard
  <2>1. PICK b \in t2.left, v \in {SKIP, PASS, FAIL} :
          t2' = [t2 EXCEPT !.left = @ \ {b}, !.quiet = Append(@, ResultOf(b, v))]
    BY <1>8 DEF SilenceAbsent, SilenceBoard
  <2>2. t2.pc = "silence"
    BY <1>8 DEF SilenceAbsent, SilenceBoard
  <2> DEFINE e == ResultOf(b, v)
  <2>3. e \in Q /\ e.name = b
    BY <1>0 DEF Q, ResultOf, Status
  <2>4. /\ t2'.pc = "silence" /\ t2'.left = t2.left \ {b} /\ t2'.results = t2.results
        /\ t2'.quiet = Append(t2.quiet, e)
    BY <1>0, <2>1, <2>2 DEF RunFields, NoRun
  <2> HIDE DEF e
  <2>5. \A c : PlacesOf(t2'.quiet, c)
                = PlacesOf(t2.quiet, c) \cup (IF b = c THEN {Len(t2.quiet) + 1} ELSE {})
    BY <1>0, <2>3, <2>4, Appended
  <2>6. PlacesOf(t2.quiet, b) = {} /\ PlacesOf(t2.results, b) = {}
    BY <2>2 DEF NamesInv
  <2>7. PlacesOf(t2'.quiet, b) = {Len(t2.quiet) + 1}
    BY <2>5, <2>6
  <2>8. \A c : c # b => PlacesOf(t2'.quiet, c) = PlacesOf(t2.quiet, c)
    BY <2>5
  <2> QED
    BY <2>2, <2>4, <2>6, <2>7, <2>8 DEF NamesInv
<1>9. CASE SilenceRaises \/ Finish
  <2>1. t2'.results = t2.results /\ t2'.quiet = t2.quiet /\ t2'.pc = "off"
    BY <1>0, <1>9 DEF RunFields, NoRun, SilenceRaises, Finish
  <2> QED
    BY <2>1 DEF NamesInv
<1>10. CASE RecordSilence
  <2> DEFINE e == Head(t2.quiet)
  <2>1. t2.pc = "silence" /\ t2.left = {} /\ t2.quiet # <<>>
    BY <1>10 DEF RecordSilence
  <2>2. /\ t2'.pc = "silence" /\ t2'.left = {} /\ t2'.quiet = Tail(t2.quiet)
        /\ t2'.results = Append(t2.results, e)
    BY <1>0, <1>10, <2>1 DEF RunFields, NoRun, RecordSilence
  <2>3. e \in Q /\ e = t2.quiet[1] /\ Len(t2.quiet) \in Nat \ {0}
        /\ DOMAIN t2.quiet = 1 .. Len(t2.quiet)
        /\ DOMAIN Tail(t2.quiet) = 1 .. Len(t2.quiet) - 1
        /\ \A k \in 1 .. Len(t2.quiet) - 1 : Tail(t2.quiet)[k] = t2.quiet[k + 1]
    BY <1>0, <2>1
  <2> HIDE DEF e
  <2>4. e \in Entry /\ e.name \in Board
    BY <2>3 DEF Q, Entry
  <2>5. \A c : PlacesOf(t2'.results, c)
          = PlacesOf(t2.results, c) \cup (IF e.name = c THEN {Len(t2.results) + 1} ELSE {})
    BY <1>0, <2>2, <2>4, Appended
  <2>6. ASSUME NEW c, NEW k \in PlacesOf(t2'.quiet, c)
        PROVE  k \in Nat \ {0} /\ k + 1 \in PlacesOf(t2.quiet, c)
    BY <2>2, <2>3 DEF PlacesOf
  <2>7. 1 \in PlacesOf(t2.quiet, e.name)
    BY <2>3 DEF PlacesOf
  <2>8. PlacesOf(t2'.quiet, e.name) = {}
    <3> SUFFICES ASSUME NEW k \in PlacesOf(t2'.quiet, e.name) PROVE FALSE
      OBVIOUS
    <3>1. k + 1 = 1 /\ k \in Nat \ {0}
      BY <2>4, <2>6, <2>7 DEF NamesInv
    <3> QED
      BY <3>1
  <2>9. PlacesOf(t2'.results, e.name) = {Len(t2.results) + 1}
    BY <2>4, <2>5, <2>7 DEF NamesInv
  <2>10. ASSUME NEW b \in Board, NEW j \in PlacesOf(t2'.quiet, b),
                NEW k \in PlacesOf(t2'.quiet, b)
         PROVE  j = k
    <3>1. j + 1 = k + 1 /\ j \in Nat /\ k \in Nat
      BY <2>6 DEF NamesInv
    <3> QED
      BY <3>1
  <2>11. ASSUME NEW b \in Board, b # e.name
         PROVE  PlacesOf(t2'.results, b) = PlacesOf(t2.results, b)
    BY <2>5, <2>11
  <2>12. ASSUME NEW b \in Board
         PROVE  PlacesOf(t2'.quiet, b) = {} \/ PlacesOf(t2.quiet, b) # {}
    BY <2>6
  <2>13. \A b \in Board : \A j, k \in PlacesOf(t2'.results, b) : j = k
    BY <2>9, <2>11 DEF NamesInv
  <2>14. \A b \in Board : PlacesOf(t2'.quiet, b) = {} \/ PlacesOf(t2'.results, b) = {}
    BY <2>8, <2>11, <2>12 DEF NamesInv
  <2> QED
    BY <2>2, <2>10, <2>13, <2>14 DEF NamesInv
<1> QED
  BY <1>1, <1>2, <1>4, <1>5, <1>6, <1>7, <1>8, <1>9, <1>10
  DEF Next, Test, Esp, Node, Quiet, vars, benchVars, Reset, Flashed, Enumerate, OtherMake

LEMMA ResultsExact == ResultsInv /\ NamesInv => ExactlyOneResult
<1> SUFFICES ASSUME ResultsInv, NamesInv PROVE ExactlyOneResult
  OBVIOUS
<1>1. ASSUME NEW name \in Slugs \cup Board
      PROVE  Cardinality(PlacesOf(t2.results, name)) <= 1
  <2>1. \A j, k \in PlacesOf(t2.results, name) : j = k
    BY DEF ResultsInv, NamesInv, Slugs, Places
  <2>2. CASE PlacesOf(t2.results, name) = {}
    BY <2>2, FS_EmptySet
  <2>3. CASE PlacesOf(t2.results, name) # {}
    <3>1. PICK k : PlacesOf(t2.results, name) = {k}
      BY <2>1, <2>3
    <3>2. Cardinality(PlacesOf(t2.results, name)) = 1
      BY <3>1, FS_Singleton
    <3> QED
      BY <3>2
  <2> QED
    BY <2>2, <2>3
<1>2. ASSUME t2.pc \in {"next", "silence"}, ~t2.quit, NEW i \in t2.taken
      PROVE  PlacesOf(t2.results, Suite[i].slug) # {}
  BY <1>2 DEF ResultsInv, Recorded, Places
<1> QED
  BY <1>1, <1>2 DEF ExactlyOneResult

-----------------------------------------------------------------------------
(* Up to the verdict, the supports done are those that came up, and a      *)
(* reporter done has said something; at the verdict all are done.          *)
EarnedInv ==
  /\ InRole \/ t2.pc = "verdict" =>
       /\ ~Suite[t2.test].blocked
       /\ t2.up = t2.done \cap Supports(t2.test)
       /\ t2.done \cap Reporters(t2.test) # {} => t2.said # {}
  /\ t2.pc = "verdict" => t2.done = DOMAIN Roles(t2.test)
  /\ PassIsWhole

LEMMA OnwardEarned ==
  ASSUME NEW r, DOMAIN r = RunFields, Onward(r), ~Suite[r.test].blocked,
         r.done \subseteq DOMAIN Roles(r.test), r.up = r.done \cap Supports(r.test),
         r.done \cap Reporters(r.test) # {} => r.said # {}
  PROVE  EarnedInv'
<1>1. /\ \/ t2'.pc = "verdict" /\ DOMAIN Roles(r.test) \subseteq r.done
         \/ t2'.pc = "role"
      /\ t2'.test = r.test /\ t2'.done = r.done /\ t2'.up = r.up /\ t2'.said = r.said
  BY OnwardMoves DEF RunFields, NoRun
<1>2. Supports(r.test)' = Supports(r.test) /\ Reporters(r.test)' = Reporters(r.test)
      /\ Roles(r.test)' = Roles(r.test)
  OBVIOUS
<1> QED
  BY <1>1 DEF EarnedInv, InRole, PassIsWhole

LEMMA EarnedKept ==
  RunInv /\ ResultsInv /\ ResultsInv' /\ EarnedInv /\ [Next]_vars => EarnedInv'
<1> SUFFICES ASSUME RunInv, ResultsInv, ResultsInv', EarnedInv, [Next]_vars PROVE EarnedInv'
  OBVIOUS
<1>0. DOMAIN t2 = RunFields /\ t2.test \in DOMAIN Suite
      /\ t2.done \subseteq DOMAIN Roles(t2.test)
  BY DEF RunInv, RunTypes
<1>1. CASE t2'.pc \notin {"role", "flash", "watch", "verdict", "down"}
  BY <1>1 DEF EarnedInv, InRole, PassIsWhole
<1>2. CASE t2' = t2
  BY <1>2 DEF EarnedInv, InRole, PassIsWhole
<1>3. CASE t2'.pc = "down" /\ t2'.exc = TRUE
  <2>1. ~Recorded(t2.test)'
    BY <1>3 DEF ResultsInv
  <2>2. StatusesOf(t2'.results, Suite[t2'.test].slug) = {}
    BY <2>1 DEF Recorded, Places, StatusesOf
  <2> QED
    BY <1>3, <2>2 DEF EarnedInv, InRole, PassIsWhole
<1>4. CASE Flash \/ UseBoard
  <2>1. /\ t2.pc \in {"role", "flash"} /\ t2'.pc \in {"flash", "watch"}
        /\ t2'.test = t2.test /\ t2'.up = t2.up /\ t2'.done = t2.done /\ t2'.said = t2.said
    BY <1>0, <1>4 DEF RunFields, NoRun, Flash, UseBoard
  <2> QED
    BY <2>1 DEF EarnedInv, InRole, PassIsWhole
<1>5. CASE Resolve
  <2>1. PICK assign : Onward([t2 EXCEPT !.assign = assign])
    BY <1>5 DEF Resolve
  <2> DEFINE r == [t2 EXCEPT !.assign = assign]
  <2>2. DOMAIN r = RunFields /\ r.test = t2.test /\ r.up = {} /\ r.done = {}
    BY <1>0, <1>5 DEF RunFields, NoRun, Resolve, RunInv
  <2>3. Onward(r) /\ ~Suite[t2.test].blocked
    BY <1>5, <2>1 DEF Resolve
  <2> HIDE DEF r
  <2> QED
    BY <2>2, <2>3, OnwardEarned
<1>6. CASE SupportUp
  <2> DEFINE r == [t2 EXCEPT !.up = @ \cup {t2.role}, !.done = @ \cup {t2.role}]
  <2>1. DOMAIN r = RunFields /\ r.test = t2.test /\ r.up = t2.up \cup {t2.role}
        /\ r.done = t2.done \cup {t2.role} /\ r.said = t2.said
    BY <1>0 DEF RunFields, NoRun
  <2>2. Onward(r) /\ t2.pc = "watch"
    BY <1>6 DEF SupportUp
  <2>3. t2.role \in Supports(t2.test) /\ t2.role \in DOMAIN Roles(t2.test)
    BY <1>6 DEF SupportUp, RunInv, InRole, Supports, Role
  <2> HIDE DEF r
  <2> QED
    BY <1>0, <2>1, <2>2, <2>3, OnwardEarned DEF EarnedInv, InRole, Reporters
<1>7. CASE LinuxUp
  <2> DEFINE r == [t2 EXCEPT !.up = @ \cup {t2.role}, !.done = @ \cup {t2.role},
                             !.owed = TRUE]
  <2>1. DOMAIN r = RunFields /\ r.test = t2.test /\ r.up = t2.up \cup {t2.role}
        /\ r.done = t2.done \cup {t2.role} /\ r.said = t2.said
    BY <1>0 DEF RunFields, NoRun
  <2>2. Onward(r) /\ t2.pc = "role" /\ Device = Linux
    BY <1>7 DEF LinuxUp
  <2>3. t2.role \in DOMAIN Roles(t2.test) /\ Role.dev = Linux
    BY <2>2 DEF RunInv, InRole, Assigned, Role, Device
  <2>4. t2.role \in Supports(t2.test)
    BY <1>0, <2>3, BenchSuite DEF Supports, Role, Roles
  <2> HIDE DEF r
  <2> QED
    BY <1>0, <2>1, <2>2, <2>3, <2>4, OnwardEarned DEF EarnedInv, InRole, Reporters
<1>8. CASE Capture
  <2>1. CASE t2' = [t2 EXCEPT !.pc = "down", !.exc = TRUE]
    BY <1>0, <1>3, <2>1 DEF RunFields, NoRun
  <2>2. ASSUME NEW v, Onward([t2 EXCEPT !.said = @ \cup {v}, !.done = @ \cup {t2.role}])
        PROVE  EarnedInv'
    <3> DEFINE r == [t2 EXCEPT !.said = @ \cup {v}, !.done = @ \cup {t2.role}]
    <3>1. DOMAIN r = RunFields /\ r.test = t2.test /\ r.up = t2.up
          /\ r.done = t2.done \cup {t2.role} /\ r.said = t2.said \cup {v}
      BY <1>0 DEF RunFields, NoRun
    <3>2. Onward(r) /\ t2.pc = "watch"
      BY <1>8, <2>2 DEF Capture
    <3>3. t2.role \notin Supports(t2.test) /\ t2.role \in DOMAIN Roles(t2.test)
      BY <1>8 DEF Capture, RunInv, InRole, Supports, Role
    <3> HIDE DEF r
    <3> QED
      BY <1>0, <3>1, <3>2, <3>3, OnwardEarned DEF EarnedInv, InRole
  <2> QED
    BY <1>8, <2>1, <2>2 DEF Capture
<1>9. CASE Fail \/ Verdict
  <2>1. PICK status \in {PASS, FAIL, INCONCLUSIVE} :
          /\ Record([t2 EXCEPT !.pc = "down"], status)
          /\ \/ Fail /\ status = FAIL
             \/ Verdict /\ status = Combined(t2.said)
    BY <1>9 DEF Fail, Verdict, Combined
  <2>2. t2.pc \in {"fail", "verdict"} /\ ~Recorded(t2.test)
    BY <1>9 DEF Fail, Verdict, ResultsInv
  <2>3. /\ t2'.results = Append(t2.results, ResultOf(Suite[t2.test].slug, status))
        /\ t2'.pc = "down" /\ t2'.test = t2.test /\ t2'.up = t2.up /\ t2'.said = t2.said
    BY <1>0, <2>1 DEF RunFields, NoRun, Record
  <2>4. StatusesOf(t2'.results, Suite[t2.test].slug) = {status}
    BY <2>2, <2>3, TestRecorded DEF Status
  <2>5. ASSUME status = PASS PROVE t2.up = Supports(t2.test) /\ t2.said = {PASS}
    <3>1. t2.pc = "verdict" /\ Combined(t2.said) = PASS
      BY <2>1, <2>5 DEF PASS, FAIL, Verdict
    <3>2. t2.said \subseteq {PASS}
      BY <3>1 DEF Combined, PASS, FAIL, INCONCLUSIVE, RunInv, RunTypes
    <3>3. \E k \in DOMAIN Roles(t2.test) : Roles(t2.test)[k].reporter
      BY <1>0, <3>1, BenchSuite DEF EarnedInv, Roles
    <3>4. t2.done \cap Reporters(t2.test) # {}
      BY <3>1, <3>3 DEF EarnedInv, Reporters, Supports
    <3> QED
      BY <3>1, <3>2, <3>4 DEF EarnedInv, Supports
  <2> QED
    BY <2>3, <2>4, <2>5 DEF EarnedInv, InRole, PassIsWhole
<1>10. CASE \E todo \in SUBSET DOMAIN Suite : Start(todo)
  BY <1>1, <1>10 DEF Start, NoRun
<1>11. CASE \/ NextTest \/ Skip \/ Raised \/ Teardown \/ Silence \/ SilenceAbsent
            \/ SilenceBoard \/ SilenceRaises \/ RecordSilence \/ Finish \/ Kill
  <2>1. t2'.pc \in {"resolve", "next", "raised", "silence", "off"}
    <3> USE <1>0 DEF RunFields, NoRun, Record, Ended
    <3>1. NextTest \/ Skip \/ Raised => t2'.pc \in {"resolve", "next"}
      BY DEF NextTest, Skip, Raised
    <3>2. Teardown => t2'.pc \in {"raised", "next"}
      BY DEF Teardown, Left
    <3>3. Silence \/ SilenceAbsent => t2'.pc = "silence"
      BY DEF Silence, SilenceAbsent
    <3>4. SilenceBoard \/ RecordSilence => t2'.pc = "silence"
      BY DEF SilenceBoard, RecordSilence
    <3>5. SilenceRaises \/ Finish => t2'.pc = "off"
      BY DEF SilenceRaises, Finish
    <3>6. Kill => t2'.pc = "off"
      BY DEF Kill
    <3> QED
      BY <1>11, <3>1, <3>2, <3>3, <3>4, <3>5, <3>6
  <2> QED
    BY <1>1, <2>1
<1>12. CASE FlashFails \/ SupportDown \/ LinuxFails \/ Interrupt
  <2>1. t2'.pc = "fail" \/ (t2'.pc = "down" /\ t2'.exc = TRUE)
    BY <1>0, <1>12 DEF RunFields, NoRun, FlashFails, SupportDown, LinuxFails, Interrupt
  <2> QED
    BY <1>1, <1>3, <2>1
<1> QED
  BY <1>2, <1>4, <1>5, <1>6, <1>7, <1>8, <1>9, <1>10, <1>11, <1>12
  DEF Next, Test, Esp, Node, Quiet, vars, benchVars, Reset, Flashed, Enumerate, OtherMake

-----------------------------------------------------------------------------
Settled(b) ==
  \/ image[b] = Idle
  \/ StatusesOf(t2.quiet, b) \cap {FAIL, SKIP} # {}
  \/ StatusesOf(t2.results, b) \cap {FAIL, SKIP} # {}

\* Each board flashed is one to silence, and is silenced or reported in turn.
SilentInv ==
  /\ t2.flashed \subseteq t2.used
  /\ t2.pc = "silence" => \A b \in t2.flashed : b \in t2.left \/ Settled(b)
  /\ BenchSilent

LEMMA SilentKept ==
  RunInv /\ ResultsInv /\ ImageInv /\ SilentInv /\ [Next]_vars => SilentInv'
<1> SUFFICES ASSUME RunInv, ResultsInv, ImageInv, SilentInv, [Next]_vars PROVE SilentInv'
  OBVIOUS
<1>0. DOMAIN t2 = RunFields /\ t2.left \subseteq Board
      /\ t2.quiet \in Seq([name : Board, status : Status]) /\ t2.results \in Seq(Entry)
  BY DEF RunInv, RunTypes, ResultsInv
<1>1. CASE t2' = t2 /\ image' = image
  BY <1>1 DEF SilentInv, BenchSilent, Settled
<1>2. CASE t2'.flashed = {}
  BY <1>2 DEF SilentInv, BenchSilent
<1>3. CASE t2'.flashed \subseteq t2'.used /\ t2'.pc \notin {"silence", "off"}
  BY <1>3 DEF SilentInv, BenchSilent
<1>4. CASE Kill \/ \E todo \in SUBSET DOMAIN Suite : Start(todo)
  <2>1. t2'.flashed = {}
    BY <1>4 DEF Kill, Start, NoRun
  <2> QED
    BY <1>2, <2>1
<1>5. CASE Resolve \/ SupportUp \/ LinuxUp \/ Capture
  <2>1. t2'.flashed = t2.flashed /\ t2'.used = t2.used
        /\ t2'.pc \notin {"silence", "off"}
    BY <1>0, <1>5, OnwardStep DEF Keeps
  <2> QED
    BY <1>3, <2>1 DEF SilentInv
<1>6. CASE \/ NextTest \/ Skip \/ Fail \/ Verdict \/ Teardown \/ Raised \/ Flash
           \/ FlashFails \/ SupportDown \/ LinuxFails \/ Interrupt
  <2> DEFINE On == t2'.flashed = t2.flashed /\ t2'.used = t2.used
                   /\ t2'.pc \notin {"silence", "off"}
  <2> USE <1>0 DEF RunFields, NoRun, Record, Ended
  <2>1. NextTest => On
    BY DEF NextTest
  <2>2. Skip => On
    BY DEF Skip
  <2>3. Fail => On
    BY DEF Fail
  <2>4. Verdict => On
    BY DEF Verdict
  <2>5. Teardown => On
    BY DEF Teardown, Left
  <2>6. Raised => On
    BY DEF Raised
  <2>7. Flash => On
    BY DEF Flash
  <2>8. FlashFails => On
    BY DEF FlashFails
  <2>9. SupportDown => On
    BY DEF SupportDown
  <2>10. LinuxFails => On
    BY DEF LinuxFails
  <2>11. Interrupt => On
    BY DEF Interrupt
  <2> QED
    BY <1>3, <1>6, <2>1, <2>2, <2>3, <2>4, <2>5, <2>6, <2>7, <2>8, <2>9, <2>10, <2>11
    DEF SilentInv
<1>7. CASE UseBoard
  <2>1. t2'.flashed = t2.flashed \cup {Device} /\ t2'.used = t2.used \cup {Device}
        /\ t2'.pc = "watch"
    BY <1>0, <1>7 DEF RunFields, NoRun, UseBoard
  <2> QED
    BY <1>3, <2>1 DEF SilentInv
<1>f. CASE Flashed
  <2>1. t2' = t2 /\ t2.pc = "flash"
    BY <1>f DEF Flashed
  <2> QED
    BY <1>3, <2>1 DEF SilentInv
<1>8. CASE Silence
  <2>1. t2'.flashed = t2.flashed /\ t2'.used = t2.used /\ t2'.pc = "silence"
        /\ t2'.left = t2.used
    BY <1>0, <1>8 DEF RunFields, NoRun, Silence
  <2> QED
    BY <2>1 DEF SilentInv, BenchSilent
<1>9. CASE SilenceAbsent \/ SilenceBoard
  <2>1. PICK b \in t2.left, v \in {SKIP, PASS, FAIL} :
          /\ t2' = [t2 EXCEPT !.left = @ \ {b}, !.quiet = Append(@, ResultOf(b, v))]
          /\ \/ image' = image /\ v \in {SKIP, FAIL}
             \/ image' = [image EXCEPT ![b] = Idle]
    BY <1>9 DEF SilenceAbsent, SilenceBoard, T2Only
  <2>2. t2.pc = "silence"
    BY <1>9 DEF SilenceAbsent, SilenceBoard
  <2> DEFINE e == ResultOf(b, v)
             Q == [name : Board, status : Status]
  <2>3. e \in Q /\ e.name = b /\ e.status = v /\ t2.quiet \in Seq(Q)
    BY <1>0 DEF ResultOf, Status
  <2>4. /\ t2'.flashed = t2.flashed /\ t2'.used = t2.used /\ t2'.pc = "silence"
        /\ t2'.left = t2.left \ {b} /\ t2'.results = t2.results
        /\ t2'.quiet = Append(t2.quiet, e)
    BY <1>0, <2>1, <2>2 DEF RunFields, NoRun
  <2> HIDE DEF e, Q
  <2>5. \A c : StatusesOf(t2'.quiet, c)
                = StatusesOf(t2.quiet, c) \cup (IF e.name = c THEN {e.status} ELSE {})
    BY <2>3, <2>4, Appended
  <2>6. ASSUME NEW c \in t2.flashed, c # b, Settled(c) PROVE Settled(c)'
    <3>1. image[c] = Idle => image'[c] = Idle
      BY <2>1, <2>6 DEF ImageInv, RunInv, RunTypes
    <3> QED
      BY <2>4, <2>5, <2>6, <3>1 DEF Settled
  <2>7. ASSUME b \in t2.flashed PROVE Settled(b)'
    <3>1. CASE v \in {SKIP, FAIL}
      BY <2>3, <2>5, <3>1 DEF Settled
    <3>2. CASE image' = [image EXCEPT ![b] = Idle]
      <4>1. image'[b] = Idle
        BY <1>0, <2>1, <3>2 DEF ImageInv
      <4> QED
        BY <4>1 DEF Settled
    <3> QED
      BY <2>1, <3>1, <3>2
  <2> QED
    BY <2>2, <2>4, <2>6, <2>7 DEF SilentInv, BenchSilent
<1>10. CASE SilenceRaises
  <2>1. t2'.flashed = t2.flashed /\ t2'.used = t2.used /\ t2'.pc = "off" /\ t2'.shot = TRUE
    BY <1>0, <1>10 DEF RunFields, NoRun, SilenceRaises
  <2> QED
    BY <2>1 DEF SilentInv, BenchSilent
<1>11. CASE RecordSilence
  <2> DEFINE e == Head(t2.quiet)
             Q == [name : Board, status : Status]
  <2>1. t2.pc = "silence" /\ t2.left = {} /\ t2.quiet # <<>> /\ image' = image
    BY <1>11 DEF RecordSilence, T2Only
  <2>2. /\ t2'.flashed = t2.flashed /\ t2'.used = t2.used /\ t2'.pc = "silence"
        /\ t2'.left = t2.left /\ t2'.quiet = Tail(t2.quiet)
        /\ t2'.results = Append(t2.results, e)
    BY <1>0, <1>11, <2>1 DEF RunFields, NoRun, RecordSilence
  <2>3. t2.quiet \in Seq(Q) /\ Q \subseteq Entry
    BY <1>0 DEF Entry
  <2> HIDE DEF Q
  <2>4. e \in Q /\ e = t2.quiet[1] /\ Len(t2.quiet) \in Nat \ {0}
        /\ DOMAIN t2.quiet = 1 .. Len(t2.quiet)
        /\ DOMAIN Tail(t2.quiet) = 1 .. Len(t2.quiet) - 1
        /\ \A k \in 1 .. Len(t2.quiet) - 1 : Tail(t2.quiet)[k] = t2.quiet[k + 1]
    BY <2>1, <2>3
  <2> HIDE DEF e
  <2>5. ASSUME NEW c, NEW st \in StatusesOf(t2.quiet, c)
        PROVE  st \in StatusesOf(t2'.quiet, c) \/ (e.name = c /\ e.status = st)
    <3>1. PICK k \in 1 .. Len(t2.quiet) : t2.quiet[k].name = c /\ t2.quiet[k].status = st
      BY <2>4 DEF StatusesOf, PlacesOf
    <3>2. CASE k = 1
      BY <2>4, <3>1, <3>2
    <3>3. CASE k # 1
      <4>1. k - 1 \in 1 .. Len(t2.quiet) - 1 /\ Tail(t2.quiet)[k - 1] = t2.quiet[k]
        BY <2>4, <3>3
      <4> QED
        BY <2>2, <2>4, <3>1, <4>1 DEF StatusesOf, PlacesOf
    <3> QED
      BY <3>2, <3>3
  <2>6. \A c : StatusesOf(t2'.results, c)
                = StatusesOf(t2.results, c) \cup (IF e.name = c THEN {e.status} ELSE {})
    <3>1. e \in Entry
      BY <2>3, <2>4
    <3> QED
      BY <1>0, <2>2, <3>1, Appended
  <2>7. ASSUME NEW c \in t2.flashed PROVE Settled(c)'
    <3>1. Settled(c)
      BY <2>1 DEF SilentInv
    <3> QED
      BY <2>1, <2>5, <2>6, <3>1 DEF Settled
  <2> QED
    BY <2>1, <2>2, <2>7 DEF SilentInv, BenchSilent
<1>12. CASE Finish
  <2>1. t2.pc = "silence" /\ t2.left = {} /\ t2.quiet = <<>> /\ image' = image
    BY <1>12 DEF Finish, T2Only
  <2>2. /\ t2'.flashed = t2.flashed /\ t2'.used = t2.used /\ t2'.pc = "off"
        /\ t2'.results = t2.results
    BY <1>0, <1>12 DEF RunFields, NoRun, Finish
  <2>3. \A c : StatusesOf(t2.quiet, c) = {}
    BY <2>1 DEF StatusesOf, PlacesOf
  <2> QED
    BY <2>1, <2>2, <2>3 DEF SilentInv, BenchSilent, Settled
<1> QED
  BY <1>1, <1>4, <1>5, <1>6, <1>7, <1>f, <1>8, <1>9, <1>10, <1>11, <1>12
  DEF Next, Test, Esp, Node, Quiet, vars, benchVars, Reset, Enumerate, OtherMake

-----------------------------------------------------------------------------
BenchInv ==
  /\ RunInv /\ BuildInv /\ ImageInv /\ NodeInv
  /\ ResultsInv /\ NamesInv /\ EarnedInv /\ SilentInv

LEMMA BenchInitInv == Init => BenchInv
<1> SUFFICES ASSUME Init PROVE BenchInv
  OBVIOUS
<1>1. RunInv
  BY RunInitInv
<1>2. BuildInv
  BY BuildInitInv DEF Init
<1>3. ImageInv
  BY IdleAsAsked DEF Init, ImageInv, BuiltAsAsked
<1>4. NodeInv
  BY DEF Init, NoRun, NodeInv, NodeAccounted
<1>5. ResultsInv
  <2>1. t2.results = <<>> /\ t2.quiet = <<>> /\ t2.taken = {} /\ t2.exc = FALSE
        /\ t2.quit = FALSE /\ t2.pc = "off"
    BY DEF Init, NoRun
  <2>2. \A i : Places(i) = {}
    BY <2>1 DEF Places, PlacesOf
  <2>3. <<>> \in Seq(Entry) /\ <<>> \in Seq([name : Board, status : Status])
    OBVIOUS
  <2> QED
    BY <2>1, <2>2, <2>3 DEF ResultsInv, Recorded
<1>6. EarnedInv
  BY DEF Init, NoRun, EarnedInv, InRole, PassIsWhole
<1>7. SilentInv
  BY DEF Init, NoRun, SilentInv, BenchSilent
<1>8. NamesInv
  BY DEF Init, NoRun, NamesInv, PlacesOf
<1> QED
  BY <1>1, <1>2, <1>3, <1>4, <1>5, <1>6, <1>7, <1>8 DEF BenchInv

LEMMA BenchKept == BenchInv /\ [Next]_vars => BenchInv'
<1> SUFFICES ASSUME BenchInv, [Next]_vars PROVE BenchInv'
  OBVIOUS
<1> USE DEF BenchInv
<1>1. RunInv'
  BY RunKept
<1>2. BuildInv'
  BY StepBuilds, BuildKept DEF BuildInv
<1>3. ImageInv'
  BY ImageKept
<1>4. NodeInv'
  BY NodeKept
<1>5. ResultsInv'
  BY ResultsKept
<1>6. EarnedInv'
  BY <1>5, EarnedKept
<1>7. SilentInv'
  BY SilentKept
<1>8. NamesInv'
  BY NamesKept
<1> QED
  BY <1>1, <1>2, <1>3, <1>4, <1>5, <1>6, <1>7, <1>8

LEMMA BenchAlways == Spec => []BenchInv
BY BenchInitInv, BenchKept, PTL DEF Spec

(* The variables of the run, the bench and the builds have their types.    *)
THEOREM BenchTyped == Spec => []BenchTypeOK
<1>1. BenchInv => BenchTypeOK
  <2> SUFFICES ASSUME BenchInv PROVE BenchTypeOK
    OBVIOUS
  <2>1. BuildTypeOK
    BY DEF BenchInv, BuildInv, BuildTypes, BuildTypeOK
  <2>2. t2.pc \in {"role", "flash", "watch"} => t2.role \in DOMAIN t2.assign \ t2.done
    BY DEF BenchInv, RunInv, InRole, Assigned
  <2>3. /\ present \subseteq Board /\ node \in BOOLEAN
        /\ image \in [Board -> Images]
    BY DEF BenchInv, RunInv, RunTypes, ImageInv, NodeInv
  <2> QED
    BY <2>1, <2>2, <2>3 DEF BenchTypeOK, BenchInv, RunInv, RunTypes
<1> QED
  BY <1>1, BenchAlways, PTL

(* _flash: a stamp that can be read next to a cache tells what the cache   *)
(* was configured with, all but what makes outside _flash have added since *)
(* the cache was last deleted, unless a kill fell between the deletions.   *)
THEOREM StampAlwaysTells == Spec => []StampTellsCache
<1>1. BenchInv => StampTellsCache
  BY DEF BenchInv, BuildInv, StampInv, StampTellsCache
<1> QED
  BY <1>1, BenchAlways, PTL

(* _flash and make: an option that arms a fixture is on a board only if    *)
(* the flash asked for it.  Another one is there if it was asked for or    *)
(* had been given to the cache by hand, never left over from an earlier    *)
(* flash, unless a kill fell between the two deletions.                    *)
THEOREM BoardsBuiltAsAsked == Spec => []BuiltAsAsked
<1>1. BenchInv => BuiltAsAsked
  BY DEF BenchInv, ImageInv
<1> QED
  BY <1>1, BenchAlways, PTL

(* run: each test taken up has exactly one result in the end, whether it   *)
(* returned early, got its verdict, or raised; and no test, nor any board  *)
(* of the silence at the end, has two: what module Reporter relies on.     *)
THEOREM OneResultEach == Spec => []ExactlyOneResult
<1>1. BenchInv => ExactlyOneResult
  BY ResultsExact DEF BenchInv
<1> QED
  BY <1>1, BenchAlways, PTL

(* _resolve_role: the roles of a test hold different boards throughout.    *)
THEOREM RolesStayApart == Spec => []RolesApart
<1>1. BenchInv => RolesApart
  BY DEF BenchInv, RunInv, InRole, Assigned, RolesApart
<1> QED
  BY <1>1, BenchAlways, PTL

(* _record_verdict: a PASS means every support up, every reporter PASS,    *)
(* and a board of its own for each role.                                   *)
THEOREM PassesEarned == Spec => []PassIsEarned
<1>1. BenchInv => PassIsWhole
  BY DEF BenchInv, EarnedInv
<1>2. PassIsWhole /\ RolesApart => PassIsEarned
  BY DEF PassIsEarned
<1> QED
  BY <1>1, <1>2, BenchAlways, RolesStayApart, PTL

(* run, go_radio_silent: a run that ends by itself leaves each board it    *)
(* flashed idle, or has recorded that it could not.                        *)
THEOREM BenchLeftSilent == Spec => []BenchSilent
<1>1. BenchInv => BenchSilent
  BY DEF BenchInv, SilentInv
<1> QED
  BY <1>1, BenchAlways, PTL

(* The finally of a test: the Linux node is on the air only while its      *)
(* teardown is owed, or after a kill or a step that failed.                *)
THEOREM NodeAlwaysAccounted == Spec => []NodeAccounted
<1>1. BenchInv => NodeAccounted
  BY DEF BenchInv, NodeInv
<1> QED
  BY <1>1, BenchAlways, PTL

=============================================================================
