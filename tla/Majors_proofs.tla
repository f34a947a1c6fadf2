---------------------------- MODULE Majors_proofs ----------------------------
(***************************************************************************)
(* Proofs about Majors, for any table of major numbers and any numbers the *)
(* user asks for: whose numbers the exit functions give back.              *)
(***************************************************************************)
EXTENDS Majors, TLAPS

USE MajorsAssumption

\* TypeOK in two parts, one for each prover.
Flag == proc_major \in BOOLEAN
Types ==
  /\ chrdevs \in [Numbers -> Drivers \union {"nobody", "other"}]
  /\ loaded \in SUBSET Drivers /\ excused \in SUBSET Drivers
  /\ {major_num, param_major_num, ddev, sdev, mev_device} \subseteq Numbers \union {0}

LEMMA TypeParts == TypeOK <=> Types /\ Flag
BY Zenon DEF TypeOK, Types, Flag

\* A driver that is not excused holds what it remembers, and nothing when it is
\* gone; an excused one may hold more.  lkm_device.c remembers its number only
\* if the user did not choose it.
DeviceInv ==
  /\ "lkm_device" \in loaded /\ param_major_num = 0 =>
       major_num \in Numbers /\ chrdevs[major_num] = "lkm_device"
  /\ "lkm_device" \in loaded /\ param_major_num # 0 =>
       major_num = 0 /\ "lkm_device" \in excused
  /\ "lkm_device" \notin excused => \A m \in Numbers :
       chrdevs[m] = "lkm_device" => "lkm_device" \in loaded /\ m = major_num

NumbersInv ==
  /\ "lkm_device_numbers" \in loaded =>
       /\ ddev \in Numbers /\ chrdevs[ddev] = "lkm_device_numbers"
       /\ sdev \in Numbers /\ chrdevs[sdev] = "lkm_device_numbers"
  /\ "lkm_device_numbers" \notin excused => \A m \in Numbers :
       chrdevs[m] = "lkm_device_numbers" => "lkm_device_numbers" \in loaded /\ m \in {ddev, sdev}

MevInv ==
  /\ "lkm_mev" \in loaded => mev_device \in Numbers /\ chrdevs[mev_device] = "lkm_mev"
  /\ "lkm_mev" \notin excused => \A m \in Numbers :
       chrdevs[m] = "lkm_mev" => "lkm_mev" \in loaded /\ m = mev_device

\* The file is there with the driver only.
FileInv == "lkm_device" \notin loaded => ~proc_major

IInv == TypeOK /\ DeviceInv /\ NumbersInv /\ MevInv /\ FileInv

-----------------------------------------------------------------------------
\* What a driver d does concerns numbers that are its own or nobody's.
Foreign(d) ==
  /\ \A m \in Numbers : chrdevs'[m] # chrdevs[m] => chrdevs[m] \in {d, "nobody"}
                                                    /\ chrdevs'[m] \in {d, "nobody"}
  /\ \A e \in Drivers : e # d => (e \in loaded' <=> e \in loaded) /\ (e \in excused' <=> e \in excused)

LEMMA Registers ==
  ASSUME Types, NEW m \in Numbers, NEW d, Register(m, d)
  PROVE  \A n \in Numbers : chrdevs'[n] = IF n = m THEN d ELSE chrdevs[n]
BY Zenon DEF Types, Register

LEMMA Unregisters ==
  ASSUME Types, NEW m \in Numbers, chrdevs' = Unregister(m)
  PROVE  \A n \in Numbers : chrdevs'[n] = IF n = m THEN "nobody" ELSE chrdevs[n]
BY Zenon DEF Types, Unregister

-----------------------------------------------------------------------------
\* The steps of each driver keep its own part of the invariant.
LEMMA DeviceInitStep ==
  ASSUME Types, DeviceInv, NEW p \in Numbers \union {0}, DeviceInit(p)
  PROVE  Types' /\ DeviceInv' /\ Foreign("lkm_device") /\ UNCHANGED <<numbers, mev_device>>
<1>1. PICK m \in IF p = 0 THEN FreeDynamic ELSE {p} :
        /\ chrdevs[m] = "nobody"
        /\ Register(m, "lkm_device")
        /\ \/ /\ loaded' = loaded \union {"lkm_device"}
              /\ major_num' = MajorNum(p, m)
              /\ param_major_num' = p
              /\ excused' = IF p = 0 THEN excused ELSE excused \union {"lkm_device"}
           \/ /\ excused' = excused \union {"lkm_device"}
              /\ UNCHANGED <<loaded, device>>
  BY Zenon DEF DeviceInit
<1>2. m \in Numbers /\ "lkm_device" \notin loaded /\ UNCHANGED <<numbers, mev_device>>
  BY DEF DeviceInit, FreeDynamic
<1>3. \A n \in Numbers : chrdevs'[n] = IF n = m THEN "lkm_device" ELSE chrdevs[n]
  BY <1>1, <1>2, Registers, Zenon
<1>4. chrdevs' \in [Numbers -> Drivers \union {"nobody", "other"}]
  BY <1>1, <1>2 DEF Register, Types, Drivers
<1>5. CASE UNCHANGED <<loaded, device>> /\ excused' = excused \union {"lkm_device"}
  <2>1. UNCHANGED <<loaded, major_num, param_major_num, ddev, sdev, mev_device>>
    BY <1>2, <1>5 DEF device, numbers
  <2> QED BY <1>1, <1>2, <1>3, <1>4, <1>5, <2>1 DEF Types, Drivers, DeviceInv, Foreign
<1>6. CASE /\ loaded' = loaded \union {"lkm_device"}
           /\ major_num' = MajorNum(p, m)
           /\ param_major_num' = p
           /\ excused' = IF p = 0 THEN excused ELSE excused \union {"lkm_device"}
  <2>1. UNCHANGED <<ddev, sdev, mev_device>>
    BY <1>2 DEF numbers
  <2>2. Types'
    BY <1>2, <1>4, <1>6, <2>1 DEF Types, Drivers, MajorNum
  <2>3. Foreign("lkm_device")
    BY <1>1, <1>3, <1>6 DEF Foreign
  <2>4. ASSUME p = 0 PROVE DeviceInv'
    <3>1. major_num' = m /\ param_major_num' = 0 /\ excused' = excused /\ "lkm_device" \in loaded'
      BY <1>6, <2>4, Zenon DEF MajorNum
    <3> QED BY <1>2, <1>3, <3>1 DEF DeviceInv
  <2>5. ASSUME p # 0 PROVE DeviceInv'
    <3>1. major_num' = 0 /\ param_major_num' # 0 /\ "lkm_device" \in excused'
      BY <1>6, <2>5, Zenon DEF MajorNum
    <3> QED BY <3>1 DEF DeviceInv
  <2> QED BY <1>2, <2>2, <2>3, <2>4, <2>5
<1> QED BY <1>1, <1>5, <1>6

LEMMA DeviceExitStep ==
  ASSUME Types, DeviceInv, DeviceExit
  PROVE  Types' /\ DeviceInv' /\ Foreign("lkm_device") /\ UNCHANGED <<numbers, mev_device>>
<1>1. /\ "lkm_device" \in loaded /\ loaded' = loaded \ {"lkm_device"}
      /\ major_num' = 0 /\ param_major_num' = 0
      /\ UNCHANGED <<ddev, sdev, mev_device, excused>>
      /\ chrdevs' = IF major_num \in Numbers THEN Unregister(major_num) ELSE chrdevs
  BY DEF DeviceExit, numbers
<1>2. \A n \in Numbers : chrdevs'[n] = IF n = major_num THEN "nobody" ELSE chrdevs[n]
  BY <1>1, Unregisters, Zenon
<1>3. chrdevs' \in [Numbers -> Drivers \union {"nobody", "other"}]
  BY <1>1 DEF Unregister, Types
<1>4. major_num \in Numbers => chrdevs[major_num] = "lkm_device"
  BY <1>1 DEF DeviceInv
<1>5. Types'
  BY <1>1, <1>3 DEF Types
<1>6. Foreign("lkm_device")
  BY <1>1, <1>2, <1>4 DEF Foreign
<1>7. DeviceInv'
  BY <1>1, <1>2 DEF DeviceInv
<1> QED BY <1>1, <1>5, <1>6, <1>7 DEF numbers

LEMMA NumbersInitStep ==
  ASSUME Types, NumbersInv, NumbersInit
  PROVE  Types' /\ NumbersInv' /\ Foreign("lkm_device_numbers") /\ UNCHANGED <<device, mev_device>>
<1>1. /\ "lkm_device_numbers" \notin loaded
      /\ UNCHANGED <<major_num, param_major_num, device, mev_device>>
  BY DEF NumbersInit, device
<1>2. PICK m \in FreeDynamic :
        \/ /\ chrdevs[StaticMajor] = "nobody"
           /\ chrdevs' = [chrdevs EXCEPT ![m] = "lkm_device_numbers",
                                         ![StaticMajor] = "lkm_device_numbers"]
           /\ ddev' = m /\ sdev' = StaticMajor
           /\ loaded' = loaded \union {"lkm_device_numbers"}
           /\ UNCHANGED excused
        \/ /\ chrdevs[StaticMajor] # "nobody"
           /\ Register(m, "lkm_device_numbers")
           /\ excused' = excused \union {"lkm_device_numbers"}
           /\ UNCHANGED <<numbers, loaded>>
  BY Zenon DEF NumbersInit
<1>3. m \in Numbers /\ chrdevs[m] = "nobody" /\ StaticMajor \in Numbers
  BY DEF FreeDynamic
<1>4. CASE /\ chrdevs[StaticMajor] = "nobody"
           /\ chrdevs' = [chrdevs EXCEPT ![m] = "lkm_device_numbers",
                                         ![StaticMajor] = "lkm_device_numbers"]
           /\ ddev' = m /\ sdev' = StaticMajor
           /\ loaded' = loaded \union {"lkm_device_numbers"}
           /\ UNCHANGED excused
  <2>1. \A n \in Numbers :
          chrdevs'[n] = IF n \in {m, StaticMajor} THEN "lkm_device_numbers" ELSE chrdevs[n]
    BY <1>3, <1>4 DEF Types
  <2>2. chrdevs' \in [Numbers -> Drivers \union {"nobody", "other"}]
    BY <1>3, <1>4 DEF Types, Drivers
  <2>3. Types'
    BY <1>1, <1>3, <1>4, <2>2 DEF Types, Drivers
  <2>4. NumbersInv'
    BY <1>1, <1>3, <1>4, <2>1 DEF NumbersInv
  <2>5. Foreign("lkm_device_numbers")
    BY <1>3, <1>4, <2>1 DEF Foreign
  <2> QED BY <1>1, <2>3, <2>4, <2>5
<1>5. CASE /\ Register(m, "lkm_device_numbers")
           /\ excused' = excused \union {"lkm_device_numbers"}
           /\ UNCHANGED <<numbers, loaded>>
  <2>1. \A n \in Numbers : chrdevs'[n] = IF n = m THEN "lkm_device_numbers" ELSE chrdevs[n]
    BY <1>3, <1>5, Registers, Zenon
  <2>2. chrdevs' \in [Numbers -> Drivers \union {"nobody", "other"}]
    BY <1>3, <1>5 DEF Types, Drivers, Register
  <2>3. Types'
    BY <1>1, <1>5, <2>2 DEF Types, Drivers, numbers
  <2>4. NumbersInv'
    BY <1>1, <1>5 DEF NumbersInv
  <2>5. Foreign("lkm_device_numbers")
    BY <1>3, <1>5, <2>1 DEF Foreign
  <2> QED BY <1>1, <2>3, <2>4, <2>5
<1> QED BY <1>2, <1>4, <1>5

LEMMA NumbersExitStep ==
  ASSUME Types, NumbersInv, NumbersExit
  PROVE  Types' /\ NumbersInv' /\ Foreign("lkm_device_numbers") /\ UNCHANGED <<device, mev_device>>
<1>1. /\ "lkm_device_numbers" \in loaded /\ loaded' = loaded \ {"lkm_device_numbers"}
      /\ ddev' = 0 /\ sdev' = 0
      /\ UNCHANGED <<major_num, param_major_num, device, mev_device, excused>>
      /\ chrdevs' = [m \in Numbers |-> IF m \in {ddev, sdev} THEN "nobody" ELSE chrdevs[m]]
  BY DEF NumbersExit, device
<1>2. \A n \in Numbers : chrdevs'[n] = IF n \in {ddev, sdev} THEN "nobody" ELSE chrdevs[n]
  BY <1>1, Zenon
<1>3. chrdevs' \in [Numbers -> Drivers \union {"nobody", "other"}]
  BY <1>1 DEF Types
<1>4. chrdevs[ddev] = "lkm_device_numbers" /\ chrdevs[sdev] = "lkm_device_numbers"
  BY <1>1, Zenon DEF NumbersInv
<1>5. Types'
  BY <1>1, <1>3 DEF Types
<1>6. Foreign("lkm_device_numbers")
  BY <1>1, <1>2, <1>4 DEF Foreign
<1>7. NumbersInv'
  BY <1>1, <1>2 DEF NumbersInv
<1> QED BY <1>1, <1>5, <1>6, <1>7

LEMMA MevInitStep ==
  ASSUME Types, MevInv, MevInit
  PROVE  Types' /\ MevInv' /\ Foreign("lkm_mev") /\ UNCHANGED <<device, numbers>>
<1>1. /\ "lkm_mev" \notin loaded
      /\ UNCHANGED <<major_num, param_major_num, device, ddev, sdev, numbers>>
  BY DEF MevInit, device, numbers
<1>2. PICK m \in FreeDynamic :
        /\ Register(m, "lkm_mev")
        /\ \/ loaded' = loaded \union {"lkm_mev"} /\ mev_device' = m /\ UNCHANGED excused
           \/ excused' = excused \union {"lkm_mev"} /\ UNCHANGED <<loaded, mev_device>>
  BY Zenon DEF MevInit
<1>3. m \in Numbers /\ chrdevs[m] = "nobody"
  BY DEF FreeDynamic
<1>4. \A n \in Numbers : chrdevs'[n] = IF n = m THEN "lkm_mev" ELSE chrdevs[n]
  BY <1>2, <1>3, Registers, Zenon
<1>5. chrdevs' \in [Numbers -> Drivers \union {"nobody", "other"}]
  BY <1>2, <1>3 DEF Types, Drivers, Register
<1>6. Types'
  BY <1>1, <1>2, <1>3, <1>5 DEF Types, Drivers
<1>7. MevInv'
  BY <1>1, <1>2, <1>3, <1>4 DEF MevInv
<1>8. Foreign("lkm_mev")
  BY <1>2, <1>3, <1>4 DEF Foreign
<1> QED BY <1>1, <1>6, <1>7, <1>8

LEMMA MevExitStep ==
  ASSUME Types, MevInv, MevExit
  PROVE  Types' /\ MevInv' /\ Foreign("lkm_mev") /\ UNCHANGED <<device, numbers>>
<1>1. /\ "lkm_mev" \in loaded /\ loaded' = loaded \ {"lkm_mev"}
      /\ mev_device' = 0 /\ chrdevs' = Unregister(mev_device)
      /\ UNCHANGED <<major_num, param_major_num, device, ddev, sdev, numbers, excused>>
  BY DEF MevExit, device, numbers
<1>2. mev_device \in Numbers /\ chrdevs[mev_device] = "lkm_mev"
  BY <1>1, Zenon DEF MevInv
<1>3. \A n \in Numbers : chrdevs'[n] = IF n = mev_device THEN "nobody" ELSE chrdevs[n]
  BY <1>1, <1>2, Unregisters, Zenon
<1>4. Types'
  BY <1>1, <1>2 DEF Types, Unregister
<1>5. MevInv'
  BY <1>1, <1>3 DEF MevInv
<1>6. Foreign("lkm_mev")
  BY <1>1, <1>2, <1>3 DEF Foreign
<1> QED BY <1>1, <1>4, <1>5, <1>6

-----------------------------------------------------------------------------
\* The steps of the others leave it alone.
LEMMA DeviceKept ==
  ASSUME DeviceInv, UNCHANGED <<major_num, param_major_num>>,
         Foreign("lkm_device_numbers") \/ Foreign("lkm_mev")
  PROVE  DeviceInv'
<1>1. \A m \in Numbers : chrdevs'[m] = "lkm_device" <=> chrdevs[m] = "lkm_device"
  BY DEF Foreign
<1>2. /\ "lkm_device" \in loaded' <=> "lkm_device" \in loaded
      /\ "lkm_device" \in excused' <=> "lkm_device" \in excused
  BY DEF Foreign, Drivers
<1> QED BY <1>1, <1>2, Zenon DEF DeviceInv

LEMMA NumbersKept ==
  ASSUME NumbersInv, UNCHANGED <<ddev, sdev>>, Foreign("lkm_device") \/ Foreign("lkm_mev")
  PROVE  NumbersInv'
<1>1. \A m \in Numbers : chrdevs'[m] = "lkm_device_numbers" <=> chrdevs[m] = "lkm_device_numbers"
  BY DEF Foreign
<1>2. /\ "lkm_device_numbers" \in loaded' <=> "lkm_device_numbers" \in loaded
      /\ "lkm_device_numbers" \in excused' <=> "lkm_device_numbers" \in excused
  BY DEF Foreign, Drivers
<1> QED BY <1>1, <1>2, Zenon DEF NumbersInv

LEMMA MevKept ==
  ASSUME MevInv, UNCHANGED mev_device, Foreign("lkm_device") \/ Foreign("lkm_device_numbers")
  PROVE  MevInv'
<1>1. \A m \in Numbers : chrdevs'[m] = "lkm_mev" <=> chrdevs[m] = "lkm_mev"
  BY DEF Foreign
<1>2. /\ "lkm_mev" \in loaded' <=> "lkm_mev" \in loaded
      /\ "lkm_mev" \in excused' <=> "lkm_mev" \in excused
  BY DEF Foreign, Drivers
<1> QED BY <1>1, <1>2, Zenon DEF MevInv

\* The file.
LEMMA FileStep ==
  ASSUME Flag, FileInv, [Next]_vars
  PROVE  Flag' /\ FileInv'
<1>1. ASSUME NEW p \in Numbers \union {0}, DeviceInit(p) PROVE Flag' /\ FileInv'
  BY <1>1, Zenon DEF DeviceInit, device, Flag, FileInv
<1>2. CASE DeviceExit
  BY <1>2, Zenon DEF DeviceExit, Flag, FileInv
<1>3. CASE NumbersInit \/ NumbersExit \/ MevInit \/ MevExit
  <2>1. UNCHANGED proc_major
    BY <1>3, Zenon DEF NumbersInit, NumbersExit, MevInit, MevExit, device
  <2>2. "lkm_device" \in loaded' <=> "lkm_device" \in loaded
    BY <1>3 DEF NumbersInit, NumbersExit, MevInit, MevExit
  <2> QED BY <2>1, <2>2, Zenon DEF Flag, FileInv
<1>4. CASE UNCHANGED vars
  BY <1>4, Zenon DEF vars, Flag, FileInv
<1> QED BY <1>1, <1>2, <1>3, <1>4, Zenon DEF Next

LEMMA PartsStep ==
  ASSUME Types, DeviceInv, NumbersInv, MevInv, [Next]_vars
  PROVE  Types' /\ DeviceInv' /\ NumbersInv' /\ MevInv'
<1>1. ASSUME NEW p \in Numbers \union {0}, DeviceInit(p)
      PROVE  Types' /\ DeviceInv' /\ NumbersInv' /\ MevInv'
  BY <1>1, DeviceInitStep, NumbersKept, MevKept, Zenon DEF numbers
<1>2. CASE DeviceExit
  BY <1>2, DeviceExitStep, NumbersKept, MevKept, Zenon DEF numbers
<1>3. CASE NumbersInit
  BY <1>3, NumbersInitStep, DeviceKept, MevKept, Zenon DEF device
<1>4. CASE NumbersExit
  BY <1>4, NumbersExitStep, DeviceKept, MevKept, Zenon DEF device
<1>5. CASE MevInit
  BY <1>5, MevInitStep, DeviceKept, NumbersKept, Zenon DEF device, numbers
<1>6. CASE MevExit
  BY <1>6, MevExitStep, DeviceKept, NumbersKept, Zenon DEF device, numbers
<1>7. CASE UNCHANGED vars
  BY <1>7, Zenon DEF vars, Types, DeviceInv, NumbersInv, MevInv
<1> QED BY <1>1, <1>2, <1>3, <1>4, <1>5, <1>6, <1>7, Zenon DEF Next

-----------------------------------------------------------------------------
LEMMA InvInit == Init => IInv
<1> SUFFICES ASSUME Init PROVE IInv
  OBVIOUS
<1>1. Types
  BY DEF Init, Types
<1>2. \A m \in Numbers : chrdevs[m] \in {"nobody", "other"}
  BY Zenon DEF Init
<1>3. DeviceInv /\ NumbersInv /\ MevInv
  BY <1>2 DEF Init, DeviceInv, NumbersInv, MevInv
<1>4. Flag /\ FileInv
  BY Zenon DEF Init, Flag, FileInv
<1> QED BY <1>1, <1>3, <1>4, TypeParts, Zenon DEF IInv

\* The invariant holds in every state, whatever is loaded and unloaded.
THEOREM Invariance == Spec => []IInv
<1>1. IInv /\ [Next]_vars => IInv'
  <2> SUFFICES ASSUME IInv, [Next]_vars PROVE IInv'
    OBVIOUS
  <2>1. Types /\ Flag /\ DeviceInv /\ NumbersInv /\ MevInv /\ FileInv
    BY TypeParts, Zenon DEF IInv
  <2>2. Types' /\ DeviceInv' /\ NumbersInv' /\ MevInv'
    BY <2>1, PartsStep, Zenon
  <2>3. Flag' /\ FileInv'
    BY <2>1, FileStep, Zenon
  <2>4. TypeOK'
    BY <2>2, <2>3, Zenon DEF TypeOK, Types, Flag
  <2> QED BY <2>2, <2>3, <2>4, Zenon DEF IInv
<1> QED BY InvInit, <1>1, PTL DEF Spec

\* Type correctness, for any table of numbers.
THEOREM TypeCorrect == Spec => []TypeOK
<1>1. IInv => TypeOK
  BY Zenon DEF IInv
<1> QED BY <1>1, Invariance, PTL

\* No exit function gives back a number that is not its own.
THEOREM TakesOwn == Spec => []ExitTakesOwn
<1>1. IInv => ExitTakesOwn
  <2> SUFFICES ASSUME IInv, NEW d \in loaded, NEW m \in GivesBack(d) \ {0}
               PROVE  m \in Held(d)
    BY DEF ExitTakesOwn
  <2>1. d \in Drivers
    BY DEF IInv, TypeOK
  <2>2. CASE d = "lkm_device"
    BY <2>2 DEF IInv, DeviceInv, GivesBack, Held
  <2>3. CASE d = "lkm_device_numbers"
    BY <2>3 DEF IInv, NumbersInv, GivesBack, Held
  <2>4. CASE d = "lkm_mev"
    BY <2>4 DEF IInv, MevInv, GivesBack, Held
  <2> QED BY <2>1, <2>2, <2>3, <2>4 DEF Drivers
<1> QED BY <1>1, Invariance, PTL

\* Unless an init function failed half-way or the user chose the number, every
\* number is given back.
THEOREM NoneStranded == Spec => []NothingStranded
<1>1. IInv => NothingStranded
  <2> SUFFICES ASSUME IInv, NEW d \in Drivers \ excused
               PROVE  Held(d) = IF d \in loaded THEN GivesBack(d) ELSE {}
    BY DEF NothingStranded
  <2>1. CASE d = "lkm_device"
    BY <2>1 DEF IInv, DeviceInv, GivesBack, Held
  <2>2. CASE d = "lkm_device_numbers"
    BY <2>2 DEF IInv, NumbersInv, GivesBack, Held
  <2>3. CASE d = "lkm_mev"
    BY <2>3 DEF IInv, MevInv, GivesBack, Held
  <2> QED BY <2>1, <2>2, <2>3 DEF Drivers
<1> QED BY <1>1, Invariance, PTL

\* /proc/lkm_device_major shows a number of the device if the kernel chose it.
THEOREM ShowsMajor == Spec => []ProcShowsDynamicMajor
<1>1. IInv => ProcShowsDynamicMajor
  <2> SUFFICES ASSUME IInv, param_major_num = 0, proc_major
               PROVE  major_num \in Held("lkm_device")
    BY Zenon DEF ProcShowsDynamicMajor, ProcShowsMajor
  <2>1. "lkm_device" \in loaded
    BY Zenon DEF IInv, FileInv
  <2> QED BY <2>1, Zenon DEF IInv, DeviceInv, Held
<1> QED BY <1>1, Invariance, PTL
=============================================================================
