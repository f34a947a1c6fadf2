------------------------------- MODULE Majors -------------------------------
(***************************************************************************)
(* Who holds which major number: the loading and unloading of the three    *)
(* modules that register character devices, lkm_device.c (optionally with  *)
(* a major of the user's choice), lkm_device_numbers.c (a dynamic and a    *)
(* fixed one) and lkm_mev.c, with every way their init functions fail.     *)
(* An init function that fails is not followed by its exit function.       *)
(*                                                                         *)
(* The kernel's table of character devices is external: it is modelled     *)
(* from the calls the modules make.                                        *)
(***************************************************************************)
EXTENDS Integers

CONSTANTS
  Numbers,       \* the major numbers there are
  Dynamic,       \* those the kernel hands out by itself
  StaticMajor    \* LKM_STATIC_DEV_MAJOR

ASSUME MajorsAssumption ==
  /\ Numbers \subseteq Nat \ {0}
  /\ Dynamic \subseteq Numbers /\ StaticMajor \in Numbers \ Dynamic

VARIABLES
  chrdevs,         \* external: major -> the driver it is registered for
  loaded,          \* the modules that are loaded
  major_num,       \* lkm_device.c: the number it remembers
  param_major_num, \* lkm_device.c: the number the user asked for, 0 for none
  proc_major,      \* lkm_device.c: /proc/lkm_device_major exists
  ddev, sdev,      \* lkm_device_numbers.c: majors of its devices, 0 for none
  mev_device,      \* lkm_mev.c: major of its device
  excused          \* history: drivers whose init failed after registering, or
                   \* was told a number

vars == <<chrdevs, loaded, major_num, param_major_num, proc_major, ddev, sdev,
          mev_device, excused>>
device == <<major_num, param_major_num, proc_major>>
numbers == <<ddev, sdev>>

Drivers == {"lkm_device", "lkm_device_numbers", "lkm_mev"}

\* External: a free major the kernel can choose; registering, unregistering.
FreeDynamic == {m \in Dynamic : chrdevs[m] = "nobody"}
Register(m, d) == chrdevs' = [chrdevs EXCEPT ![m] = d]
Unregister(m) == [chrdevs EXCEPT ![m] = "nobody"]

-----------------------------------------------------------------------------
\* A mutant: a number that was chosen is not kept.
MutantMajorNum(p, m) == 0

\* What register_chrdev(p) returns when it registers m: the major it chose,
\* but 0 for one it was told.
MajorNum(p, m) == IF p = 0 THEN m ELSE 0

\* A mutant: a failure to register is not noticed.
MutantDeviceInit(p) ==
  /\ "lkm_device" \notin loaded
  /\ p # 0 /\ chrdevs[p] # "nobody"
  /\ loaded' = loaded \union {"lkm_device"}
  /\ major_num' = -16
  /\ param_major_num' = p
  /\ proc_major' = TRUE
  /\ UNCHANGED <<chrdevs, numbers, mev_device, excused>>

\* lkm_device_init().  Registered, and then /proc/lkm_device_major created or
\* not; in the second case nobody unregisters.  When nothing is registered,
\* nothing is left of the attempt.
DeviceInit(p) ==
  /\ "lkm_device" \notin loaded
  /\ \E m \in IF p = 0 THEN FreeDynamic ELSE {p} :
       /\ chrdevs[m] = "nobody"
       /\ Register(m, "lkm_device")
       /\ \/ /\ loaded' = loaded \union {"lkm_device"}
             /\ major_num' = MajorNum(p, m)
             /\ param_major_num' = p
             /\ proc_major' = TRUE
             /\ excused' = IF p = 0 THEN excused ELSE excused \union {"lkm_device"}
          \/ /\ excused' = excused \union {"lkm_device"}
             /\ UNCHANGED <<loaded, device>>
  /\ UNCHANGED <<numbers, mev_device>>

\* A mutant: the number the user asked for is unregistered, if there was one.
MutantDeviceExit ==
  /\ "lkm_device" \in loaded
  /\ chrdevs' = IF param_major_num \in Numbers THEN Unregister(param_major_num) ELSE chrdevs
  /\ loaded' = loaded \ {"lkm_device"}
  /\ major_num' = 0 /\ param_major_num' = 0 /\ proc_major' = FALSE
  /\ UNCHANGED <<numbers, mev_device, excused>>

\* lkm_device_exit().  Major 0 is registered for nobody.
DeviceExit ==
  /\ "lkm_device" \in loaded
  /\ chrdevs' = IF major_num \in Numbers THEN Unregister(major_num) ELSE chrdevs
  /\ loaded' = loaded \ {"lkm_device"}
  /\ major_num' = 0 /\ param_major_num' = 0 /\ proc_major' = FALSE
  /\ UNCHANGED <<numbers, mev_device, excused>>

-----------------------------------------------------------------------------
\* A mutant: the result of register_chrdev_region() is not looked at.
MutantNumbersInit ==
  /\ "lkm_device_numbers" \notin loaded
  /\ \E m \in FreeDynamic :
       /\ chrdevs' = [n \in Numbers |->
            IF n = m \/ (n = StaticMajor /\ chrdevs[n] = "nobody")
            THEN "lkm_device_numbers" ELSE chrdevs[n]]
       /\ ddev' = m /\ sdev' = StaticMajor
  /\ loaded' = loaded \union {"lkm_device_numbers"}
  /\ UNCHANGED <<device, mev_device, excused>>

\* lkm_device_numbers_init(): a dynamic region, then the static one; when that
\* is taken, the init fails and the dynamic one is left behind.
NumbersInit ==
  /\ "lkm_device_numbers" \notin loaded
  /\ \E m \in FreeDynamic :
       \/ /\ chrdevs[StaticMajor] = "nobody"
          /\ chrdevs' = [chrdevs EXCEPT ![m] = "lkm_device_numbers",
                                        ![StaticMajor] = "lkm_device_numbers"]
          /\ ddev' = m /\ sdev' = StaticMajor
          /\ loaded' = loaded \union {"lkm_device_numbers"}
          /\ UNCHANGED excused
       \/ /\ chrdevs[StaticMajor] # "nobody"
          /\ Register(m, "lkm_device_numbers")
          /\ excused' = excused \union {"lkm_device_numbers"}
          /\ UNCHANGED <<numbers, loaded>>
  /\ UNCHANGED <<device, mev_device>>

\* lkm_device_numbers_exit()
NumbersExit ==
  /\ "lkm_device_numbers" \in loaded
  /\ chrdevs' = [m \in Numbers |-> IF m \in {ddev, sdev} THEN "nobody" ELSE chrdevs[m]]
  /\ loaded' = loaded \ {"lkm_device_numbers"}
  /\ ddev' = 0 /\ sdev' = 0
  /\ UNCHANGED <<device, mev_device, excused>>

-----------------------------------------------------------------------------
\* lkm_mev_init(): after the region, kmalloc() or cdev_add() may fail.
MevInit ==
  /\ "lkm_mev" \notin loaded
  /\ \E m \in FreeDynamic :
       /\ Register(m, "lkm_mev")
       /\ \/ /\ loaded' = loaded \union {"lkm_mev"}
             /\ mev_device' = m
             /\ UNCHANGED excused
          \/ /\ excused' = excused \union {"lkm_mev"}
             /\ UNCHANGED <<loaded, mev_device>>
  /\ UNCHANGED <<device, numbers>>

\* lkm_mev_exit()
MevExit ==
  /\ "lkm_mev" \in loaded
  /\ chrdevs' = Unregister(mev_device)
  /\ loaded' = loaded \ {"lkm_mev"}
  /\ mev_device' = 0
  /\ UNCHANGED <<device, numbers, excused>>

-----------------------------------------------------------------------------
\* Drivers of other origin may be there already.
Init ==
  /\ chrdevs \in [Numbers -> {"nobody", "other"}]
  /\ loaded = {}
  /\ major_num = 0 /\ param_major_num = 0 /\ proc_major = FALSE
  /\ ddev = 0 /\ sdev = 0 /\ mev_device = 0
  /\ excused = {}

Next ==
  \/ \E p \in Numbers \union {0} : DeviceInit(p)
  \/ DeviceExit
  \/ NumbersInit \/ NumbersExit
  \/ MevInit \/ MevExit

Spec == Init /\ [][Next]_vars

-----------------------------------------------------------------------------
\* Type invariant.
TypeOK ==
  /\ chrdevs \in [Numbers -> Drivers \union {"nobody", "other"}]
  /\ loaded \in SUBSET Drivers /\ excused \in SUBSET Drivers
  /\ {major_num, param_major_num, ddev, sdev, mev_device} \subseteq Numbers \union {0}
  /\ proc_major \in BOOLEAN

\* The majors a driver holds.
Held(d) == {m \in Numbers : chrdevs[m] = d}

\* The majors a loaded driver's exit function gives back.
GivesBack(d) ==
  CASE d = "lkm_device" -> {major_num}
    [] d = "lkm_device_numbers" -> {ddev, sdev}
    [] d = "lkm_mev" -> {mev_device}

\* A module's exit function takes its own numbers back and nobody else's, even
\* when others came and failed in the meantime (lkm_device.c:152,
\* lkm_device_numbers.c:90-100, lkm_mev.c:178-182).
ExitTakesOwn ==
  \A d \in loaded : GivesBack(d) \ {0} \subseteq Held(d)

\* Unless an init function failed half-way or the user chose the major, a
\* driver holds exactly what its exit function will give back, and a module
\* that is gone holds nothing: whatever is loaded and unloaded, in whatever
\* order, can be loaded again.
NothingStranded ==
  \A d \in Drivers \ excused : Held(d) = IF d \in loaded THEN GivesBack(d) ELSE {}

\* README.md:72: the major of the device "can be obtained by catting the file
\* /proc/lkm_device_major".
ProcShowsMajor == proc_major => major_num \in Held("lkm_device")

\* It can when the kernel chose the number.
ProcShowsDynamicMajor == param_major_num = 0 => ProcShowsMajor
=============================================================================
