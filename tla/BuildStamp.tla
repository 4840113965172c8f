------------------------------ MODULE BuildStamp ------------------------------
(***************************************************************************)
(* How the T2 orchestrator gets the binary it asked for: _flash of         *)
(* tools/regtest/t2_onair.py.                                              *)
(*                                                                         *)
(* A build directory keeps its -D set in CMakeCache.txt, and cmake adds to *)
(* it: a -D of an earlier build stays unless the cache is deleted.  _flash *)
(* keeps a stamp of the set the cache was last flashed with, and deletes   *)
(* the cache, then the stamp, when the set it wants is another one.  make  *)
(* configures, builds and flashes; it may fail, or time out, before or     *)
(* after any of these.  The harness may be killed between any two steps.   *)
(*                                                                         *)
(* A make outside _flash, by another tier or by a person, shares the cache *)
(* and does not know of the stamp.  The options that arm a fixture are     *)
(* therefore passed a value in every make, and never stay; the others do.  *)
(***************************************************************************)
EXTENDS Naturals, FiniteSets

CONSTANTS
  App,      \* the firmware apps
  Var,      \* the -D options
  Always,   \* those passed in every make: TEST_AP_VIF and TEST_HW_RESTART
  ByHand,   \* the sets of options a make outside _flash may be called with
  NoFile    \* CMakeCache.txt, or the stamp, does not exist or does not parse

ASSUME BuildConstants ==
  /\ App # {} /\ Always \subseteq Var /\ ByHand \subseteq SUBSET Var
  /\ \A options \in SUBSET Var : options # NoFile

VARIABLES
  build,    \* per app: its CMake cache and its stamp, as sets of -D options;
            \* history: the options the cache was given by hand and keeps
  flash,    \* the flash under way: its place, the app, the set it wants
  cut       \* history: killed between the two deletions

buildVars == <<build, flash, cut>>

NoFlash == [pc |-> "none", app |-> CHOOSE a \in App : TRUE, want |-> {}]

BuildInit ==
  /\ build = [a \in App |-> [cache |-> NoFile, stamp |-> NoFile, hand |-> {}]]
  /\ flash = NoFlash
  /\ cut = FALSE

\* Slip: an option that arms a fixture is passed only when it is set.
ConfiguredIfSet(cache, want) == IF cache = NoFile THEN want ELSE cache \cup want

(* make and cmake: the cache configured with, for options `want`.  Of the  *)
(* options passed in every make, the cache has those just asked for.       *)
Configured(cache, want) ==
  IF cache = NoFile THEN want ELSE (cache \ Always) \cup want

Current == build[flash.app]

\* Slip: the stamp is not compared.
MustResetNever(app, want) == FALSE
MustReset(app, want) == build[app].cache # NoFile /\ build[app].stamp # want

FlashBegin(app, want) ==
  /\ flash.pc = "none"
  /\ flash' = [pc |-> IF MustReset(app, want) THEN "cache" ELSE "make",
               app |-> app, want |-> want]
  /\ UNCHANGED <<build, cut>>

DropCache ==
  /\ flash.pc = "cache"
  /\ build' = [build EXCEPT ![flash.app].cache = NoFile, ![flash.app].hand = {}]
  /\ flash' = [flash EXCEPT !.pc = "stamp"]
  /\ UNCHANGED cut

\* Slip: the stale stamp is left in place.
DropStampKept ==
  /\ flash.pc = "stamp"
  /\ flash' = [flash EXCEPT !.pc = "make"]
  /\ UNCHANGED <<build, cut>>

DropStamp ==
  /\ flash.pc = "stamp"
  /\ build' = [build EXCEPT ![flash.app].stamp = NoFile]
  /\ flash' = [flash EXCEPT !.pc = "make"]
  /\ UNCHANGED cut

(* External: make flash.  When it succeeds the image was written.          *)
MakeOk ==
  LET cache == Configured(Current.cache, flash.want) IN
  /\ flash.pc = "make"
  /\ build' = [build EXCEPT ![flash.app].cache = cache]
  /\ flash' = [flash EXCEPT !.pc = "wrote"]
  /\ UNCHANGED cut

MakeFails ==
  /\ flash.pc = "make"
  /\ \E cache \in {Current.cache, Configured(Current.cache, flash.want)} :
       build' = [build EXCEPT ![flash.app].cache = cache]
  /\ flash' = NoFlash
  /\ UNCHANGED cut

(* Only after a success is the stamp written; a write that fails leaves an *)
(* empty stamp, or none of it done, and is ignored.                        *)
WriteStamp ==
  /\ flash.pc = "wrote"
  /\ \E stamp \in {flash.want, NoFile, Current.stamp} :
       build' = [build EXCEPT ![flash.app].stamp = stamp]
  /\ flash' = NoFlash
  /\ UNCHANGED cut

(* A make outside _flash: the other tiers', cmd_flash_interop's with the   *)
(* peer's address, a person's `make flash GATE=1`.  It writes no stamp.    *)
PlainMake(app, options) ==
  /\ flash.pc = "none"
  /\ build' = [build EXCEPT ![app].cache = Configured(@, options),
                            ![app].hand = @ \cup (options \ Always)]
  /\ UNCHANGED <<flash, cut>>

(* A kill in make leaves the cache configured or not; one as the stamp is  *)
(* written leaves it empty, or as it was.                                  *)
BuildKill ==
  /\ cut' = (cut \/ flash.pc = "stamp")
  /\ build' \in
       {build,
        [build EXCEPT ![flash.app].cache =
           IF flash.pc = "make" THEN Configured(@, flash.want) ELSE @],
        [build EXCEPT ![flash.app].stamp = IF flash.pc = "wrote" THEN NoFile ELSE @]}
  /\ flash' = NoFlash

-----------------------------------------------------------------------------
Options == (SUBSET Var) \cup {NoFile}

BuildTypeOK ==
  /\ build \in [App -> [cache : Options, stamp : Options, hand : SUBSET Var]]
  /\ flash \in [pc : {"none", "cache", "stamp", "make", "wrote"}, app : App,
                want : SUBSET Var]
  /\ cut \in BOOLEAN

\* The options that stay are those asked for, and those given by hand.
Agrees(options, asked, hand) == options \ Always = (asked \ Always) \cup hand

(* What the stamp is for: a stamp that can be read next to a cache tells   *)
(* what the cache was configured with.  It tells all of it but what makes  *)
(* outside _flash have added since the cache was last deleted, of which a  *)
(* stamp cannot know; a kill between the two deletions is the only other   *)
(* thing that sets the two apart.                                          *)
StampTellsCache ==
  \A a \in App :
    build[a].cache # NoFile /\ build[a].stamp # NoFile =>
      \/ Agrees(build[a].cache, build[a].stamp, build[a].hand)
      \/ cut

=============================================================================
