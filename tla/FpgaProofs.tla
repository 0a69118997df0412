---------------------------- MODULE FpgaProofs ----------------------------
(***************************************************************************)
(* Proofs about FpgaTimer for any number of applications and any arguments *)
(* they are called with.                                                   *)
(***************************************************************************)
EXTENDS FpgaTimer, FiniteSetTheorems, TLAPS

Busy == {"open", "opened", "data", "write", "close"}

(* The types, for any arguments: whatever the application is called with,  *)
(* the system call and the callback keep the data bytes.                   *)
Bytes ==
  /\ t_pending \in BOOLEAN /\ hasty \in BOOLEAN /\ odd_start \in BOOLEAN
  /\ t_count \in Int /\ t_data \in Word /\ job \in Word
  /\ pc \in [Apps -> {"idle", "packed"} \union Busy]
  /\ word \in [Apps -> Word]

-----------------------------------------------------------------------------
(* The system call returns four bytes, whatever it is called with.         *)
LEMMA NewcallBytes ==
  ASSUME NEW a \in Args
  PROVE  sys_newcall(a[1], a[2], a[3]) \in Word
<1> DEFINE s == a[3]
           digits == {i \in 0..3 : s \div power[i] > 0}
           i == IF digits = {} THEN 4 ELSE Min(digits)
           e == IF i = 4 THEN 3 ELSE i
           val == s \div power[e]
<1>1. a[1] \in Nat /\ a[2] \in Nat /\ a[3] \in Nat
  BY FpgaAssumption
<1>2. i \in 0..4
  <2>1. CASE digits = {}
    BY <2>1
  <2>2. CASE digits # {}
    <3>1. PICK d \in digits : \A n \in digits : d <= n
      <4>1. 0 \in digits \/ 1 \in digits \/ 2 \in digits \/ 3 \in digits
        <5>1. \A n \in digits : n = 0 \/ n = 1 \/ n = 2 \/ n = 3
          OBVIOUS
        <5> QED
          BY ONLY <2>2, <5>1, Zenon
      <4>2. \A n \in digits : n \in 0..3
        OBVIOUS
      <4> HIDE DEF digits
      <4> QED
        BY <4>1, <4>2
    <3>2. Min(digits) \in digits
      BY <3>1 DEF Min
    <3> QED
      BY <2>2, <3>2
  <2> QED
    BY <2>1, <2>2
<1> HIDE DEF i
<1>3. e \in 0..3
  BY <1>2
<1> HIDE DEF e
<1>4. power[e] \in {1, 10, 100, 1000}
  BY <1>3 DEF power
<1>5. val \in Nat
  <2>1. s \in Nat
    BY <1>1
  <2> HIDE DEF s
  <2> QED
    BY <1>4, <2>1
<1>6. sys_newcall(a[1], a[2], a[3]) = <<i % 256, val % 256, a[1] % 256, a[2] % 256>>
  BY DEF sys_newcall, i, e
<1> HIDE DEF val
<1>7. i \in Nat
  BY <1>2
<1>8. \A n \in Nat : n % 256 \in Byte
  BY DEF Byte
<1> QED
  BY <1>1, <1>5, <1>6, <1>7, <1>8 DEF Word

LEMMA TurnedBytes == \A w \in Word : turned(w) \in Word
BY DEF turned, Word

LEMMA MovedBytes == ASSUME NEW d \in Word, NEW n \in Nat PROVE moved(d, n) \in Word
<1>1. d[1] \in Byte /\ d[2] \in Byte /\ d[3] \in Byte /\ d[4] \in Byte
  BY DEF Word
<1>2. (d[2] + 1) % 4 \in Byte /\ (d[3] % 8) + 1 \in Byte
  BY <1>1 DEF Byte
<1> DEFINE pos == IF (n + 1) % 8 = 0 THEN (d[2] + 1) % 4 ELSE d[2]
<1>3. pos \in Byte /\ moved(d, n) = <<d[1], pos, (d[3] % 8) + 1, d[4]>>
  BY <1>1, <1>2 DEF moved
<1> HIDE DEF pos
<1> QED
  BY <1>1, <1>2, <1>3 DEF Word

LEMMA InitBytes == Init => Bytes
<1> SUFFICES ASSUME Init PROVE Bytes
  OBVIOUS
<1>1. <<0, 0, 0, 0>> \in Word /\ <<0, 0, 1, 0>> \in Word
  BY DEF Word, Byte
<1>2. t_data \in Word /\ job \in Word /\ word \in [Apps -> Word]
  BY <1>1 DEF Init
<1>3. pc \in [Apps -> {"idle", "packed"} \union Busy]
  BY DEF Init
<1>4. t_count \in Int /\ t_pending = FALSE /\ hasty = FALSE /\ odd_start = FALSE
  BY DEF Init
<1> QED
  BY <1>2, <1>3, <1>4 DEF Bytes

LEMMA StepBytes == Bytes /\ [Next]_vars => Bytes'
<1> SUFFICES ASSUME Bytes, [Next]_vars PROVE Bytes'
  OBVIOUS
<1> USE DEF Bytes, Busy
<1>1. ASSUME NEW p \in Apps, App(p) PROVE Bytes'
  <2>1. CASE Pack(p)
    <3>1. PICK a \in Args : word' = [word EXCEPT ![p] = sys_newcall(a[1], a[2], a[3])]
      BY <2>1 DEF Pack
    <3>2. word' \in [Apps -> Word]
      BY <3>1, NewcallBytes
    <3> QED
      BY <2>1, <3>2 DEF Pack, Step, timer
  <2>2. CASE OpenTest(p) \/ OpenFails(p) \/ OpenTake(p) \/ dev_release(p)
    BY <2>2 DEF OpenTest, OpenFails, OpenTake, dev_release, Step, timer
  <2>3. CASE WriteCount(p)
    <3>1. turned(word[p]) \in Word
      BY TurnedBytes
    <3>2. t_count' \in Int
      BY <2>3, <3>1 DEF WriteCount, Word, Byte
    <3> QED
      BY <2>3, <3>2 DEF WriteCount, Step
  <2>5. CASE WriteData(p)
    BY <2>5, TurnedBytes DEF WriteData, Step
  <2>4. CASE WriteAdd(p)
    BY <2>4, TurnedBytes DEF WriteAdd, Step
  <2> QED
    BY <1>1, <2>1, <2>2, <2>3, <2>4, <2>5 DEF App
<1>2. CASE Blink
  <2> DEFINE n == (t_data[1] - t_count' - 1) % 256
  <2>1. t_count' \in Int /\ t_data[1] \in Int
    BY <1>2 DEF Blink, Word, Byte
  <2>2. t_data[1] - t_count' - 1 \in Int
    BY <2>1
  <2>3. n \in Nat
    <3>1. \A i \in Int : i % 256 \in Nat
      OBVIOUS
    <3> QED
      BY ONLY <2>2, <3>1
  <2>4. t_data' = moved(t_data, n)
    BY <1>2 DEF Blink
  <2> HIDE DEF n
  <2>5. t_data' \in Word
    BY <2>3, <2>4, MovedBytes
  <2>7. UNCHANGED <<pc, word, t_pending, job, hasty, odd_start>>
    BY <1>2 DEF Blink
  <2> QED
    BY <2>1, <2>5, <2>7
<1>3. CASE BlinkEnd
  <2>1. t_count' \in Int /\ t_pending' = FALSE /\ UNCHANGED <<pc, word, t_data, job, hasty, odd_start>>
    BY <1>3 DEF BlinkEnd, over
  <2> QED
    BY <2>1
<1>4. CASE BlinkUnmapped \/ UNCHANGED vars
  BY <1>4 DEF BlinkUnmapped, vars, timer
<1>5. CASE ExitUnmap
  BY <1>5 DEF ExitUnmap, timer
<1>6. CASE ExitDelete
  BY <1>6 DEF ExitDelete
<1>7. CASE dev_driver_init
  <2>1. t_data' \in Word
    BY <1>7 DEF dev_driver_init, Word, Byte
  <2> QED
    BY <1>7, <2>1 DEF dev_driver_init
<1> QED
  BY <1>1, <1>2, <1>3, <1>4, <1>5, <1>6, <1>7 DEF Next, kernel_timer_blink

-----------------------------------------------------------------------------
(* The numbers of one to four digits whose first is one of 1..8.           *)
One   == 1..8
Two   == 10..89
Three == 100..899
Four  == 1000..8999

(* Data with which the callback stays inside its arrays.                   *)
Inside(d) == d \in Word /\ d[2] \in 0..3 /\ d[3] \in 1..8

Fits ==
  /\ \A p \in Apps : pc[p] # "idle" => Inside(turned(word[p]))
  /\ t_pending => Inside(t_data)
  /\ \A p \in Apps : pc[p] = "write" => Inside(t_data)
  /\ Inside(job)
  /\ panic # "stray"

DataInv ==
  /\ \A p \in Apps : pc[p] \in Busy => loaded /\ mapped
  /\ ~loaded => ~t_pending
  /\ ~odd_start => Fits

-----------------------------------------------------------------------------
(* The division of a number of up to four digits.                          *)
LEMMA FirstDigit ==
  /\ \A n \in Four : n \div 1000 \in 1..8
  /\ \A n \in Three : n \div 1000 = 0 /\ n \div 100 \in 1..8
  /\ \A n \in Two : n \div 1000 = 0 /\ n \div 100 = 0 /\ n \div 10 \in 1..8
  /\ \A n \in One : /\ n \div 1000 = 0 /\ n \div 100 = 0 /\ n \div 10 = 0
                      /\ n \div 1 \in 1..8
<1>1. \A n \in Four : n \div 1000 \in 1..8
  BY DEF Four
<1>2. \A n \in Three : n \div 1000 = 0 /\ n \div 100 \in 1..8
  BY DEF Three
<1>3. \A n \in Two : n \div 1000 = 0 /\ n \div 100 = 0 /\ n \div 10 \in 1..8
  BY DEF Two
<1>4. \A n \in One : /\ n \div 1000 = 0 /\ n \div 100 = 0 /\ n \div 10 = 0
                      /\ n \div 1 \in 1..8
  BY DEF One
<1> QED
  BY <1>1, <1>2, <1>3, <1>4

(* The system call hands over a position on the FND and a value the dot    *)
(* matrix has a digit for.                                                 *)
LEMMA NewcallInside ==
  ASSUME NEW a \in Args, a[3] \in Fitting
  PROVE  /\ sys_newcall(a[1], a[2], a[3]) \in Word
         /\ Inside(turned(sys_newcall(a[1], a[2], a[3])))
<1> DEFINE s == a[3]
           digits == {i \in 0..3 : s \div power[i] > 0}
           i == IF digits = {} THEN 4 ELSE Min(digits)
           val == s \div power[IF i = 4 THEN 3 ELSE i]
<1>1. /\ a[1] \in Nat /\ a[2] \in Nat
      /\ s \in One \union Two \union Three \union Four
  <2>1. a[1] \in Nat /\ a[2] \in Nat
    BY FpgaAssumption
  <2>2. s \in One \union Two \union Three \union Four
    BY DEF Fitting, One, Two, Three, Four
  <2> QED
    BY <2>1, <2>2
<1>a. s \in One \/ s \in Two \/ s \in Three \/ s \in Four
  BY <1>1
<1>2. power[0] = 1000 /\ power[1] = 100 /\ power[2] = 10 /\ power[3] = 1
  BY DEF power
<1>3. ASSUME NEW m \in 0..3, m \in digits, \A n \in digits : m <= n
      PROVE  i = m
  <2>1. Min(digits) \in digits /\ \A n \in digits : Min(digits) <= n
    BY <1>3 DEF Min
  <2>2. Min(digits) \in 0..3 /\ Min(digits) <= m /\ m <= Min(digits)
    BY <2>1, <1>3
  <2>3. Min(digits) = m
    BY <2>2
  <2> QED
    BY <2>3, <1>3
<1>4. i \in 0..3 /\ val \in 1..8
  <2>1. CASE s \in Four
    <3>1. s \div 1000 \in 1..8
      BY <2>1, FirstDigit
    <3>2. 0 \in digits
      BY <1>2, <3>1
    <3>3. i = 0
      BY <1>3, <3>2
    <3> QED
      BY <1>2, <3>1, <3>3
  <2>2. CASE s \in Three
    <3>1. s \div 1000 = 0 /\ s \div 100 \in 1..8
      BY <2>2, FirstDigit
    <3>2. 1 \in digits /\ 0 \notin digits
      BY <1>2, <3>1
    <3>3. i = 1
      BY <1>3, <3>2
    <3> QED
      BY <1>2, <3>1, <3>3, SMTT(30)
  <2>3. CASE s \in Two
    <3>1. s \div 1000 = 0 /\ s \div 100 = 0 /\ s \div 10 \in 1..8
      BY <2>3, FirstDigit
    <3>2. 2 \in digits /\ 0 \notin digits /\ 1 \notin digits
      BY <1>2, <3>1
    <3>3. i = 2
      BY <1>3, <3>2
    <3> QED
      BY <1>2, <3>1, <3>3
  <2>4. CASE s \in One
    <3>1. s \div 1000 = 0 /\ s \div 100 = 0 /\ s \div 10 = 0 /\ s \div 1 \in 1..8
      BY <2>4, FirstDigit
    <3>2. 3 \in digits /\ 0 \notin digits /\ 1 \notin digits /\ 2 \notin digits
      BY <1>2, <3>1
    <3>3. i = 3
      BY <1>3, <3>2
    <3> QED
      BY <1>2, <3>1, <3>3
  <2> HIDE DEF i, val
  <2> QED
    BY <1>a, <2>1, <2>2, <2>3, <2>4
<1>5. sys_newcall(a[1], a[2], a[3]) = <<i % 256, val % 256, a[1] % 256, a[2] % 256>>
  BY DEF sys_newcall
<1> HIDE DEF i, val
<1>6. /\ i % 256 = i /\ val % 256 = val
      /\ a[1] % 256 \in Byte /\ a[2] % 256 \in Byte
  <2>1. \A n \in 0..8 : n % 256 = n
    OBVIOUS
  <2>2. \A n \in Nat : n % 256 \in Byte
    BY DEF Byte
  <2>a. a[1] \in Nat /\ a[2] \in Nat
    BY <1>1, SMTT(30)
  <2>3. i \in 0..8 /\ val \in 0..8
    BY <1>4
  <2>4. i % 256 = i /\ val % 256 = val
    BY <2>1, <2>3, Zenon
  <2>5. a[1] % 256 \in Byte /\ a[2] % 256 \in Byte
    BY ONLY <2>2, <2>a
  <2> QED
    BY <2>4, <2>5
<1>7. i \in Byte /\ val \in Byte
  BY <1>4 DEF Byte
<1> QED
  BY <1>4, <1>5, <1>6, <1>7 DEF Word, Inside, turned

(* The data move on to other data inside the arrays.                       *)
LEMMA MovedInside ==
  ASSUME NEW d, Inside(d), NEW n \in Nat
  PROVE  Inside(moved(d, n))
<1>1. d[1] \in Byte /\ d[4] \in Byte /\ d[2] \in 0..3 /\ d[3] \in 1..8
  BY DEF Inside, Word
<1>2. (d[2] + 1) % 4 \in 0..3 /\ (d[3] % 8) + 1 \in 1..8
  BY <1>1
<1>3. 0..3 \subseteq Byte /\ 1..8 \subseteq Byte
  BY DEF Byte
<1> DEFINE pos == IF (n + 1) % 8 = 0 THEN (d[2] + 1) % 4 ELSE d[2]
           val == (d[3] % 8) + 1
<1>4. pos \in 0..3 /\ val \in 1..8 /\ moved(d, n) = <<d[1], pos, val, d[4]>>
  BY <1>1, <1>2 DEF moved
<1> HIDE DEF pos, val
<1> QED
  BY <1>1, <1>3, <1>4 DEF Inside, Word

-----------------------------------------------------------------------------
LEMMA InitData == Init => DataInv
<1> SUFFICES ASSUME Init PROVE DataInv
  OBVIOUS
<1>1. <<0, 0, 1, 0>> \in Word
  BY DEF Word, Byte
<1>2. Inside(job)
  BY <1>1 DEF Init, Inside
<1>3. \A p \in Apps : pc[p] = "idle"
  BY DEF Init
<1>4. t_pending = FALSE /\ loaded = TRUE /\ panic = "none"
  BY DEF Init
<1> QED
  BY <1>2, <1>3, <1>4 DEF DataInv, Fits, Busy

(* What the applications do to the words and the data.                     *)
LEMMA AppData ==
  ASSUME Bytes, DataInv, NEW p \in Apps, App(p)
  PROVE  DataInv'
<1> USE DEF Busy
<1>0. /\ pc \in [Apps -> {"idle", "packed"} \union Busy] /\ word \in [Apps -> Word]
      /\ odd_start \in BOOLEAN
  BY DEF Bytes
<1>1. /\ \A q \in Apps : pc'[q] \in Busy => loaded' /\ mapped'
      /\ ~loaded' => ~t_pending'
  BY <1>0 DEF App, Pack, OpenTest, OpenFails, OpenTake, WriteCount, WriteData, WriteAdd,
              dev_release, Step, device, timer, DataInv
<1>2. ASSUME ~odd_start' PROVE Fits'
  <2>0. Fits
    BY <1>0, <1>2 DEF App, Pack, OpenTest, OpenFails, OpenTake, WriteCount, WriteData,
                      WriteAdd, dev_release, DataInv
  <2> USE DEF Fits
  <2>1. CASE Pack(p)
    <3>1. PICK a \in Args : /\ word' = [word EXCEPT ![p] = sys_newcall(a[1], a[2], a[3])]
                            /\ odd_start' = (odd_start \/ a[3] \notin Fitting)
      BY <2>1 DEF Pack
    <3>2. /\ Inside(turned(word'[p]))
          /\ \A q \in Apps \ {p} : word'[q] = word[q]
      BY <1>0, <1>2, <3>1, NewcallInside
    <3>3. pc'[p] = "packed" /\ \A q \in Apps \ {p} : pc'[q] = pc[q]
      BY <1>0, <2>1 DEF Pack, Step
    <3>4. UNCHANGED <<t_pending, t_data, panic, job>>
      BY <2>1 DEF Pack, timer
    <3> QED
      BY <2>0, <3>2, <3>3, <3>4
  <2>2. CASE OpenTest(p) \/ OpenFails(p) \/ OpenTake(p) \/ dev_release(p)
    BY <1>0, <2>0, <2>2 DEF OpenTest, OpenFails, OpenTake, dev_release, Step, timer
  <2>3. CASE WriteCount(p)
    BY <1>0, <2>0, <2>3 DEF WriteCount, Step
  <2>4. CASE WriteData(p)
    <3>1. t_data' = turned(word[p]) /\ Inside(t_data')
      BY <2>0, <2>4 DEF WriteData, Step
    <3> QED
      BY <1>0, <2>0, <2>4, <3>1 DEF WriteData, Step
  <2>5. CASE WriteAdd(p)
    BY <1>0, <2>0, <2>5 DEF WriteAdd, Step
  <2> QED
    BY <2>1, <2>2, <2>3, <2>4, <2>5 DEF App
<1> QED
  BY <1>1, <1>2 DEF DataInv

LEMMA StepData == Bytes /\ DataInv /\ [Next]_vars => DataInv'
<1> SUFFICES ASSUME Bytes, DataInv, [Next]_vars PROVE DataInv'
  OBVIOUS
<1> USE DEF DataInv, Busy
<1>1. CASE Blink
  <2> DEFINE n == (t_data[1] - t_count' - 1) % 256
  <2>1. n \in Nat
    <3>1. t_count' \in Int /\ t_data[1] \in Int
      BY <1>1 DEF Blink, Bytes, Word, Byte
    <3>2. t_data[1] - t_count' - 1 \in Int
      BY <3>1
    <3>3. \A i \in Int : i % 256 \in Nat
      OBVIOUS
    <3> QED
      BY ONLY <3>2, <3>3
  <2>2. t_data' = moved(t_data, n) /\ UNCHANGED <<device, pc, word, t_pending, job, odd_start>>
    BY <1>1 DEF Blink
  <2>3. panic' = IF t_data[2] \in 0..3 /\ t_data[3] \in 1..8 THEN panic ELSE "stray"
    BY <1>1 DEF Blink
  <2> HIDE DEF n
  <2>4. ASSUME ~odd_start' PROVE Fits'
    <3>1. Fits /\ Inside(t_data)
      BY <1>1, <2>2, <2>4 DEF Fits, Blink, Fires
    <3>2. Inside(t_data')
      BY <2>1, <2>2, <3>1, MovedInside
    <3>3. panic' = panic
      BY <2>3, <3>1 DEF Inside
    <3> QED
      BY <2>2, <3>1, <3>2, <3>3 DEF Fits
  <2> QED
    BY <2>2, <2>4 DEF device
<1>2. CASE BlinkEnd
  <2>1. t_pending' = FALSE /\ UNCHANGED <<loaded, mapped, pc, word, t_data, panic, job, odd_start>>
    BY <1>2 DEF BlinkEnd, over, device
  <2> QED
    BY <2>1 DEF Fits
<1>3. CASE BlinkUnmapped
  <2>1. /\ panic' = "unmapped"
        /\ UNCHANGED <<loaded, mapped, pc, word, t_pending, t_data, job, odd_start>>
    BY <1>3 DEF BlinkUnmapped, device, timer
  <2> QED
    BY <2>1 DEF Fits
<1>4. CASE ExitUnmap
  <2>1. /\ \A p \in Apps : pc[p] \notin Busy
        /\ UNCHANGED <<loaded, pc, word, t_pending, t_data, panic, job, odd_start>>
    BY <1>4 DEF ExitUnmap, timer
  <2> QED
    BY <2>1 DEF Fits
<1>5. CASE ExitDelete
  <2>1. /\ t_pending' = FALSE /\ \A p \in Apps : pc[p] \notin Busy
        /\ UNCHANGED <<pc, word, t_data, panic, job, odd_start>>
    BY <1>5 DEF ExitDelete
  <2> QED
    BY <2>1 DEF Fits
<1>6. CASE dev_driver_init
  <2>1. /\ ~t_pending /\ \A p \in Apps : pc[p] \notin Busy
        /\ UNCHANGED <<pc, word, t_pending, panic, job, odd_start>>
    BY <1>6 DEF dev_driver_init
  <2> QED
    BY <2>1 DEF Fits
<1>7. CASE UNCHANGED vars
  BY <1>7 DEF vars, device, timer, Fits
<1> QED
  BY <1>1, <1>2, <1>3, <1>4, <1>5, <1>6, <1>7, AppData DEF Next, kernel_timer_blink

LEMMA DataInductive == Spec => [](Bytes /\ DataInv)
BY InitBytes, InitData, StepBytes, StepData, PTL DEF Spec

(* Whoever opens, packs, removes and loads in whatever order: the callback *)
(* never leaves its arrays, also when jobs share the timer and it comes    *)
(* between two assignments of dev_write; it takes a start that does not    *)
(* fit, which the application does not refuse.                             *)
THEOREM CallbackInside == Spec => []NoStray
<1>1. Bytes /\ DataInv => NoStray
  BY DEF Bytes, DataInv, Fits, NoStray
<1> QED
  BY <1>1, DataInductive, PTL

-----------------------------------------------------------------------------
(* The pictures.  The driver counts value and position on, and turns the   *)
(* texts by the parity of a quotient; FpgaSpec gives picture k outright.   *)
LEMMA ValueOn ==
  ASSUME NEW v \in 1..8, NEW k \in Nat
  PROVE  /\ ((v - 1) % 8) + 1 = v
         /\ ((((v - 1 + k) % 8) + 1) % 8) + 1 = ((v - 1 + (k + 1)) % 8) + 1
<1>1. \A n \in Nat : (((n % 8) + 1) % 8) = (n + 1) % 8
  OBVIOUS
<1>2. v - 1 + k \in Nat /\ v - 1 + (k + 1) = (v - 1 + k) + 1
  OBVIOUS
<1>3. ((v - 1) % 8) + 1 = v
  OBVIOUS
<1> QED
  BY <1>1, <1>2, <1>3

LEMMA PositionOn ==
  ASSUME NEW p \in 0..3, NEW k \in Nat
  PROVE  /\ (p + 0 \div 8) % 4 = p
         /\ (k + 1) % 8 = 0 =>
              (((p + k \div 8) % 4) + 1) % 4 = (p + (k + 1) \div 8) % 4
         /\ (k + 1) % 8 # 0 => (k + 1) \div 8 = k \div 8
<1>1. \A n \in Nat : ((n % 4) + 1) % 4 = (n + 1) % 4
  OBVIOUS
<1>2. (k + 1) % 8 = 0 => (k + 1) \div 8 = k \div 8 + 1
  OBVIOUS
<1>3. (k + 1) % 8 # 0 => (k + 1) \div 8 = k \div 8
  OBVIOUS
<1>4. (p + 0 \div 8) % 4 = p
  OBVIOUS
<1>5. k \div 8 \in Nat
  OBVIOUS
<1>6. (k + 1) % 8 = 0 =>
        (((p + k \div 8) % 4) + 1) % 4 = (p + (k + 1) \div 8) % 4
  BY <1>1, <1>2, <1>5
<1> QED
  BY <1>3, <1>4, <1>6

LEMMA TextsWalk ==
  ASSUME NEW n \in Nat
  PROVE  wander(n, 8) = Abs!Walk(n, 8) /\ wander(n, 11) = Abs!Walk(n, 5)
<1>1. wander(n, 8) = Abs!Walk(n, 8)
  <2>1. CASE (n \div 8) % 2 = 1
    <3>1. n % 16 = (n % 8) + 8
      BY <2>1
    <3> QED
      BY <2>1, <3>1 DEF wander, Abs!Walk
  <2>2. CASE (n \div 8) % 2 # 1
    <3>1. n % 16 = n % 8
      BY <2>2
    <3> QED
      BY <2>2, <3>1 DEF wander, Abs!Walk
  <2> QED
    BY <2>1, <2>2
<1>2. wander(n, 11) = Abs!Walk(n, 5)
  <2>1. CASE (n \div 5) % 2 = 1
    <3>1. n % 10 = (n % 5) + 5
      BY <2>1
    <3> QED
      BY <2>1, <3>1 DEF wander, Abs!Walk
  <2>2. CASE (n \div 5) % 2 # 1
    <3>1. n % 10 = n % 5
      BY <2>2
    <3> QED
      BY <2>2, <3>1 DEF wander, Abs!Walk
  <2> QED
    BY <2>1, <2>2
<1> QED
  BY <1>1, <1>2

-----------------------------------------------------------------------------
(* For a user who waits: one application at a time, none writes while the  *)
(* timer works, and data and count are those of a picture of the job.      *)
Pictured ==
  LET k == job[1] - t_count
  IN  /\ t_count \in 0..job[1]
      /\ t_data[1] = job[1]
      /\ t_data[2] = (job[2] + k \div 8) % 4
      /\ t_data[3] = ((job[3] - 1 + k) % 8) + 1

CalmInv ==
  ~hasty /\ ~odd_start =>
    /\ \A p, q \in Apps : pc[p] # "idle" /\ pc[q] # "idle" => p = q
    /\ t_pending => /\ mapped /\ Pictured
                    /\ \A p \in Apps : pc[p] \in {"idle", "close"}
    /\ \A p \in Apps : pc[p] \in {"data", "write"} => t_count = turned(word[p])[1]
    /\ \A p \in Apps : pc[p] = "write" => t_data = turned(word[p])

LEMMA InitCalm == Init => CalmInv
BY DEF Init, CalmInv

(* A picture of the job, and the data of the next one.                     *)
LEMMA NextPicture ==
  ASSUME Bytes, Fits, t_pending, Pictured, Blink
  PROVE  /\ board' = Abs!Picture([rep |-> job[1], pos |-> job[2], val |-> job[3]],
                                 job[1] - t_count)
         /\ t_count' = t_count - 1 /\ job' = job /\ Pictured'
<1> DEFINE k == job[1] - t_count
           term_c == (t_data[1] - t_count' - 1) % 256
<1>1. /\ job[1] \in 0..255 /\ job[2] \in 0..3 /\ job[3] \in 1..8
      /\ t_count \in 0..job[1] /\ t_count > 0 /\ t_count' = t_count - 1 /\ job' = job
      /\ t_data[1] = job[1]
  BY DEF Fits, Inside, Word, Byte, Pictured, Blink
<1>d. /\ t_data[2] = (job[2] + k \div 8) % 4
      /\ t_data[3] = ((job[3] - 1 + k) % 8) + 1
  BY DEF Pictured
<1>2. k \in 0..255 /\ job[1] - t_count' = k + 1 /\ t_data[1] - t_count' - 1 = k
  <2>1. job[1] \in Int /\ t_count \in Int /\ 0 <= t_count /\ t_count <= job[1] /\ job[1] <= 255
    BY <1>1
  <2>2. t_count' = t_count - 1 /\ t_data[1] = job[1]
    BY <1>1
  <2>3. k \in 0..255
    BY ONLY <2>1
  <2>4. job[1] - t_count' = k + 1
    BY ONLY <2>1, <2>2
  <2>5. t_data[1] - t_count' - 1 = k
    BY ONLY <2>1, <2>2
  <2> QED
    BY <2>3, <2>4, <2>5
<1>3. term_c = k
  <2>1. \A n \in 0..255 : n % 256 = n
    OBVIOUS
  <2> QED
    BY <1>2, <2>1
<1>4. board' = picture(t_data[2], t_data[3], k) /\ t_data' = moved(t_data, k)
  BY <1>3 DEF Blink
<1> HIDE DEF k
<1>5. board' = Abs!Picture([rep |-> job[1], pos |-> job[2], val |-> job[3]], k)
  <2>1. wander(k, 8) = Abs!Walk(k, 8) /\ wander(k, 11) = Abs!Walk(k, 5)
    BY <1>2, TextsWalk
  <2> QED
    BY <1>1, <1>d, <1>4, <2>1 DEF picture, Abs!Picture
<1>6. /\ t_data'[1] = job[1]
      /\ t_data'[2] = (job[2] + (k + 1) \div 8) % 4
      /\ t_data'[3] = ((job[3] - 1 + (k + 1)) % 8) + 1
  <2>1. /\ ((((job[3] - 1 + k) % 8) + 1) % 8) + 1 = ((job[3] - 1 + (k + 1)) % 8) + 1
        /\ (k + 1) % 8 = 0 =>
             (((job[2] + k \div 8) % 4) + 1) % 4 = (job[2] + (k + 1) \div 8) % 4
        /\ (k + 1) % 8 # 0 => (k + 1) \div 8 = k \div 8
    <3>1. k \in Nat
      BY <1>2
    <3>2. ((((job[3] - 1 + k) % 8) + 1) % 8) + 1 = ((job[3] - 1 + (k + 1)) % 8) + 1
      BY <1>1, <3>1, ValueOn
    <3>3. /\ (k + 1) % 8 = 0 =>
               (((job[2] + k \div 8) % 4) + 1) % 4 = (job[2] + (k + 1) \div 8) % 4
          /\ (k + 1) % 8 # 0 => (k + 1) \div 8 = k \div 8
      BY <1>1, <3>1, PositionOn
    <3> QED
      BY <3>2, <3>3
  <2>2. /\ t_data'[1] = t_data[1]
        /\ t_data'[2] = IF (k + 1) % 8 = 0 THEN (t_data[2] + 1) % 4 ELSE t_data[2]
        /\ t_data'[3] = (t_data[3] % 8) + 1
    BY <1>4 DEF moved
  <2> QED
    BY <1>1, <1>d, <2>1, <2>2
<1>7. t_count' \in 0..job'[1]
  BY <1>1
<1>8. Pictured'
  BY <1>1, <1>2, <1>6, <1>7 DEF Pictured
<1> QED
  BY <1>1, <1>5, <1>8 DEF k

(* The data of a job at its first picture.                                 *)
LEMMA FirstPicture ==
  ASSUME Inside(job'), t_data' = job', t_count' = t_data'[1]
  PROVE  Pictured'
<1>1. /\ job'[1] \in 0..255 /\ job'[2] \in 0..3 /\ job'[3] \in 1..8
      /\ job'[1] - t_count' = 0 /\ t_count' \in 0..job'[1]
  BY DEF Inside, Word, Byte
<1>2. /\ (job'[2] + 0 \div 8) % 4 = job'[2]
      /\ ((job'[3] - 1 + 0) % 8) + 1 = job'[3]
  BY <1>1
<1> QED
  BY <1>1, <1>2 DEF Pictured

LEMMA AppCalm ==
  ASSUME Bytes, DataInv, CalmInv, NEW p \in Apps, App(p)
  PROVE  CalmInv'
<1> SUFFICES ASSUME ~hasty', ~odd_start' PROVE CalmInv'
  BY DEF CalmInv
<1>0. DataInv' /\ Bytes' /\ pc \in [Apps -> {"idle", "packed"} \union Busy] /\ word \in [Apps -> Word]
  BY StepData, StepBytes DEF Next, Bytes
<1>o. ~odd_start /\ Fits /\ Fits'
  <2>1. ~odd_start
    BY DEF App, Pack, OpenTest, OpenFails, OpenTake, WriteCount, WriteData, WriteAdd,
           dev_release, Bytes
  <2> QED
    BY <1>0, <2>1 DEF DataInv
<1>1. CASE Pack(p)
  <2>1. ~hasty /\ ~t_pending /\ \A q \in Apps : pc[q] = "idle"
    BY <1>1 DEF Pack
  <2>2. ~t_pending' /\ \A q \in Apps : pc'[q] \in {"idle", "packed"} /\ (q # p => pc'[q] = "idle")
    BY <1>0, <1>1, <2>1 DEF Pack, Step, timer
  <2> QED
    BY <2>2 DEF CalmInv
<1>2. /\ ~hasty /\ pc[p] # "idle" => \A q \in Apps : q # p => pc[q] = "idle"
      /\ ~hasty /\ t_pending => pc[p] \in {"idle", "close"}
  BY <1>o DEF CalmInv
<1>3. CASE OpenTest(p) \/ OpenFails(p) \/ OpenTake(p)
  <2>1. ~hasty /\ ~t_pending' /\ \A q \in Apps : q # p => pc'[q] = "idle"
    BY <1>0, <1>2, <1>3 DEF OpenTest, OpenFails, OpenTake, Step, timer
  <2>2. pc'[p] \notin {"data", "write"}
    BY <1>0, <1>3 DEF OpenTest, OpenFails, OpenTake, Step
  <2> QED
    BY <2>1, <2>2 DEF CalmInv
<1>4. CASE WriteCount(p)
  <2>1. ~hasty /\ ~t_pending' /\ \A q \in Apps : q # p => pc'[q] = "idle"
    BY <1>0, <1>2, <1>4 DEF WriteCount, Step
  <2>2. t_count' = turned(word'[p])[1] /\ pc'[p] = "data"
    BY <1>0, <1>4 DEF WriteCount, Step
  <2> QED
    BY <2>1, <2>2 DEF CalmInv
<1>7. CASE WriteData(p)
  <2>1. ~hasty /\ ~t_pending' /\ \A q \in Apps : q # p => pc'[q] = "idle"
    BY <1>0, <1>2, <1>7 DEF WriteData, Step
  <2>2. t_data' = turned(word'[p]) /\ t_count' = turned(word'[p])[1]
    BY <1>o, <1>7, <2>1 DEF WriteData, Step, CalmInv
  <2> QED
    BY <2>1, <2>2 DEF CalmInv
<1>5. CASE WriteAdd(p)
  <2>1. ~hasty /\ \A q \in Apps : q # p => pc'[q] = "idle"
    BY <1>0, <1>2, <1>5 DEF WriteAdd, Step
  <2>2. pc'[p] = "close" /\ mapped'
    BY <1>0, <1>5 DEF WriteAdd, Step, device, DataInv, Busy
  <2>3. t_data' = job' /\ t_count' = t_data'[1] /\ Inside(job')
    BY <1>0, <1>o, <1>5, <2>1 DEF WriteAdd, Step, CalmInv, Fits
  <2> QED
    BY <2>1, <2>2, <2>3, FirstPicture DEF CalmInv
<1>6. CASE dev_release(p)
  <2>1. ~hasty /\ \A q \in Apps : pc'[q] = "idle"
    BY <1>0, <1>2, <1>6 DEF dev_release, Step
  <2>2. UNCHANGED <<mapped, t_pending, t_count, t_data, job>>
    BY <1>6 DEF dev_release, timer
  <2>3. Pictured => Pictured'
    BY <2>2 DEF Pictured
  <2> QED
    BY <1>o, <2>1, <2>2, <2>3 DEF CalmInv
<1> QED
  BY <1>1, <1>3, <1>4, <1>5, <1>6, <1>7 DEF App

LEMMA StepCalm == Bytes /\ DataInv /\ CalmInv /\ [Next]_vars => CalmInv'
<1> SUFFICES ASSUME Bytes, DataInv, CalmInv, [Next]_vars, ~hasty', ~odd_start'
             PROVE  CalmInv'
  BY DEF CalmInv
<1>1. CASE Blink
  <2>1. /\ ~hasty /\ ~odd_start /\ t_pending /\ Pictured /\ Fits
        /\ UNCHANGED <<mapped, pc, word, t_pending>>
    BY <1>1 DEF Blink, Fires, CalmInv, device, DataInv
  <2>2. Pictured'
    BY <1>1, <2>1, NextPicture
  <2> QED
    BY <2>1, <2>2 DEF CalmInv
<1>2. CASE BlinkEnd
  <2>1. ~hasty /\ ~odd_start /\ t_pending /\ ~t_pending' /\ UNCHANGED pc
    BY <1>2 DEF BlinkEnd, Fires, over
  <2> QED
    BY <2>1 DEF CalmInv
<1>3. CASE BlinkUnmapped
  BY <1>3 DEF BlinkUnmapped, Fires, CalmInv
<1>4. CASE ExitUnmap
  <2>1. ~hasty /\ ~odd_start /\ ~t_pending' /\ UNCHANGED pc
        /\ \A p \in Apps : pc[p] \notin {"data", "write"}
    BY <1>4 DEF ExitUnmap, timer
  <2> QED
    BY <2>1 DEF CalmInv
<1>5. CASE ExitDelete \/ dev_driver_init
  <2>1. ~hasty /\ ~odd_start /\ ~t_pending' /\ UNCHANGED pc
        /\ \A p \in Apps : pc[p] \notin {"data", "write"}
    BY <1>5 DEF ExitDelete, dev_driver_init, DataInv, Busy
  <2> QED
    BY <2>1 DEF CalmInv
<1>6. CASE UNCHANGED vars
  BY <1>6 DEF vars, device, timer, CalmInv, Pictured
<1> QED
  BY <1>1, <1>2, <1>3, <1>4, <1>5, <1>6, AppCalm DEF Next, kernel_timer_blink

-----------------------------------------------------------------------------
(* A step of the driver is one of FpgaSpec, or leaves its variables alone. *)
LEMMA StepAbs ==
  Bytes /\ DataInv /\ CalmInv /\ [Next]_vars
    => [~hasty' /\ ~odd_start' => Abs!Next]_(Abs!vars)
<1> SUFFICES ASSUME Bytes, DataInv, CalmInv, [Next]_vars, ~hasty', ~odd_start'
             PROVE  [Abs!Next]_(Abs!vars)
  OBVIOUS
<1> DEFINE j == [rep |-> job[1], pos |-> job[2], val |-> job[3]]
           k == IF t_pending THEN job[1] - t_count ELSE 0
<1>o. ~odd_start /\ Fits
  <2>1. ~odd_start
    BY DEF Next, App, Pack, OpenTest, OpenFails, OpenTake, WriteCount, WriteData, WriteAdd,
           dev_release, kernel_timer_blink, Blink, BlinkEnd, BlinkUnmapped, ExitUnmap,
           ExitDelete, dev_driver_init, vars, Bytes
  <2> QED
    BY <2>1 DEF DataInv
<1>j. job[1] \in Nat /\ t_count \in Int
  <2>1. job[1] \in Byte /\ t_count \in Int
    BY DEF Bytes, Word
  <2> QED
    BY <2>1 DEF Byte
<1>s. ASSUME UNCHANGED <<t_pending, board, job>>, t_pending => t_count' = t_count
      PROVE  UNCHANGED Abs!vars
  BY <1>s DEF Abs!vars
<1>1. CASE Blink
  <2>1. ~hasty /\ t_pending /\ t_pending' /\ Pictured /\ t_count > 0
    BY <1>1, <1>o DEF Blink, Fires, CalmInv
  <2>2. /\ board' = Abs!Picture(j, k) /\ t_count' = t_count - 1 /\ job' = job
    BY <1>1, <1>o, <2>1, NextPicture
  <2>3. k' = k + 1 /\ k < job[1]
    BY <1>j, <2>1, <2>2 DEF Pictured
  <2>4. Abs!Show
    BY <2>1, <2>2, <2>3 DEF Abs!Show
  <2> QED
    BY <2>4 DEF Abs!Next
<1>2. CASE BlinkEnd
  <2>1. /\ ~hasty /\ t_pending /\ ~t_pending' /\ Pictured /\ t_count <= 0
        /\ board' = Blank /\ job' = job
    BY <1>2, <1>o DEF BlinkEnd, Fires, over, CalmInv
  <2>2. k = job[1] /\ k' = 0
    BY <1>j, <2>1 DEF Pictured
  <2>3. Abs!Finish
    BY <1>2, <2>1, <2>2 DEF Abs!Finish, Blank, Abs!Blank, BlinkEnd, over
  <2> QED
    BY <2>3 DEF Abs!Next
<1>3. ASSUME NEW p \in Apps, App(p) PROVE [Abs!Next]_(Abs!vars)
  <2>1. CASE Pack(p) \/ OpenTest(p) \/ OpenFails(p) \/ OpenTake(p) \/ dev_release(p)
    BY <1>s, <2>1 DEF Pack, OpenTest, OpenFails, OpenTake, dev_release, timer
  <2>2. CASE WriteCount(p) \/ WriteData(p)
    <3>1. ~t_pending
      BY <1>o, <2>2 DEF WriteCount, WriteData, Step, CalmInv
    <3> QED
      BY <1>s, <2>2, <3>1 DEF WriteCount, WriteData
  <2>3. CASE WriteAdd(p)
    <3>1. /\ ~t_pending /\ t_pending' = TRUE /\ t_pending = FALSE
          /\ job' = t_data /\ t_count' = job'[1] /\ Inside(job') /\ board' = board
      BY <1>o, <2>3, AppData DEF WriteAdd, Step, CalmInv, Bytes, Fits, DataInv
    <3>2. j' \in Abs!Jobs /\ k' = 0
      BY <3>1 DEF Inside, Word, Byte, Abs!Jobs
    <3>3. Abs!Start
      BY <3>1, <3>2 DEF Abs!Start
    <3> QED
      BY <3>3 DEF Abs!Next
  <2> QED
    BY <1>3, <2>1, <2>2, <2>3 DEF App
<1>4. CASE BlinkUnmapped
  BY <1>4, <1>o DEF BlinkUnmapped, Fires, CalmInv
<1>5. CASE ExitUnmap
  BY <1>5, <1>s DEF ExitUnmap, timer
<1>6. CASE ExitDelete
  <2>1. t_pending' = FALSE /\ UNCHANGED <<job, board>>
    BY <1>6 DEF ExitDelete
  <2>2. Abs!Remove
    BY <2>1 DEF Abs!Remove
  <2> QED
    BY <2>2 DEF Abs!Next
<1>7. CASE dev_driver_init
  BY <1>7, <1>s DEF dev_driver_init, DataInv
<1>8. CASE UNCHANGED vars
  BY <1>8, <1>s DEF vars, timer
<1> QED
  BY <1>1, <1>2, <1>3, <1>4, <1>5, <1>6, <1>7, <1>8 DEF Next, kernel_timer_blink

(* The driver implements FpgaSpec for a user who waits for the end of a    *)
(* job and calls for starts that fit: after any number of pictures, of any *)
(* job, each is the one FpgaSpec gives outright, and the board is cleared  *)
(* after the last.                                                         *)
THEOREM Refinement == Spec => AbsSpec
<1>1. Init => Abs!Init
  BY DEF Init, Abs!Init, Abs!Jobs, Blank, Abs!Blank
<1> QED
  BY <1>1, InitBytes, StepBytes, InitData, StepData, InitCalm, StepCalm, StepAbs, PTL
     DEF Spec, AbsSpec

-----------------------------------------------------------------------------
(* The lower bound of t_count.  Each end of a job takes one off it, and    *)
(* each needs an application that adds the timer; one that has set the     *)
(* count and not yet added the timer still has its end to give.            *)
Writing == {p \in Apps : pc[p] \in {"data", "write"}}

Countdown ==
  /\ t_count <= 255
  /\ t_count >= Cardinality(Writing) - Cardinality(Apps)
                  - (IF t_pending THEN 0 ELSE 1)

Shown ==
  /\ loaded \in BOOLEAN /\ mapped \in BOOLEAN /\ driver_usage \in {0, 1}
  /\ board \in {Blank} \union [pos : Byte, val : Byte, id : 0..8, name : 0..5]
  /\ panic \in {"none", "add", "unmapped", "stray"}

LEMMA Writers ==
  /\ IsFiniteSet(Writing) /\ Cardinality(Writing) \in Nat /\ Cardinality(Apps) \in Nat
  /\ Cardinality(Writing) <= Cardinality(Apps)
<1>1. IsFiniteSet(Apps) /\ Writing \in SUBSET Apps
  BY FpgaAssumption DEF Writing
<1>2. IsFiniteSet(Writing) /\ Cardinality(Writing) <= Cardinality(Apps)
  BY <1>1, FS_Subset
<1> QED
  BY <1>1, <1>2, FS_CardinalityType

LEMMA WritersNext ==
  /\ IsFiniteSet(Writing') /\ Cardinality(Writing') \in Nat
  /\ Cardinality(Writing') <= Cardinality(Apps)
<1>1. IsFiniteSet(Apps) /\ Writing' \in SUBSET Apps
  BY FpgaAssumption DEF Writing
<1>2. IsFiniteSet(Writing') /\ Cardinality(Writing') <= Cardinality(Apps)
  BY <1>1, FS_Subset
<1> QED
  BY <1>1, <1>2, FS_CardinalityType

LEMMA InitTypes == Init => Bytes /\ Countdown /\ Shown
<1> SUFFICES ASSUME Init PROVE Bytes /\ Countdown /\ Shown
  OBVIOUS
<1>1. Writing = {}
  BY DEF Init, Writing
<1>2. Cardinality(Writing) = 0
  BY <1>1, FS_EmptySet
<1> QED
  BY <1>2, InitBytes, Writers DEF Init, Countdown, Shown

(* A text stays on its line of 16.                                         *)
LEMMA TextsStay == ASSUME NEW n \in Nat PROVE wander(n, 8) \in 0..8 /\ wander(n, 11) \in 0..5
<1>1. n % 8 \in 0..7 /\ n % 5 \in 0..4
  OBVIOUS
<1> QED
  BY <1>1 DEF wander

(* Until it ends a job the timer's count stays, or is set to a byte.       *)
LEMMA StepCount ==
  ASSUME Bytes, Countdown, [Next]_vars
  PROVE  Countdown'
<1> USE Writers, WritersNext
<1>0. t_count \in Int /\ t_pending \in BOOLEAN /\ pc \in [Apps -> {"idle", "packed"} \union Busy]
  BY DEF Bytes
<1>k. ASSUME Writing' = Writing, UNCHANGED <<t_count, t_pending>>
      PROVE  Countdown'
  BY <1>k DEF Countdown
<1>s. ASSUME t_count' \in 0..255 PROVE Countdown'
  <2>1. t_count' \in Int /\ 0 <= t_count' /\ t_count' <= 255
    BY <1>s
  <2> QED
    BY <2>1 DEF Countdown
<1>1. ASSUME NEW p \in Apps, App(p) PROVE Countdown'
  <2>1. CASE \/ Pack(p) \/ OpenTest(p) \/ OpenFails(p) \/ OpenTake(p) \/ dev_release(p)
    <3>1. Writing' = Writing
      BY <1>0, <2>1 DEF Pack, OpenTest, OpenFails, OpenTake, dev_release, Step, Writing
    <3>2. UNCHANGED <<t_count, t_pending>>
      BY <2>1 DEF Pack, OpenTest, OpenFails, OpenTake, dev_release, timer
    <3> QED
      BY <1>k, <3>1, <3>2
  <2>2. CASE WriteCount(p)
    <3>1. t_count' = turned(word[p])[1] /\ word[p] \in Word
      BY <2>2 DEF WriteCount, Bytes
    <3>2. t_count' \in 0..255
      BY <3>1, TurnedBytes DEF Word, Byte
    <3> QED
      BY <1>s, <3>2
  <2>4. CASE WriteData(p)
    <3>1. Writing' = Writing
      BY <1>0, <2>4 DEF WriteData, Step, Writing
    <3>2. UNCHANGED <<t_count, t_pending>>
      BY <2>4 DEF WriteData
    <3> QED
      BY <1>k, <3>1, <3>2
  <2>3. CASE WriteAdd(p)
    <3>1. p \in Writing /\ Writing' = Writing \ {p}
      BY <1>0, <2>3 DEF WriteAdd, Step, Writing
    <3>2. Cardinality(Writing') = Cardinality(Writing) - 1
      BY <3>1, FS_RemoveElement
    <3>3. t_pending' = TRUE /\ t_count' = t_count
      BY <2>3 DEF WriteAdd
    <3> QED
      BY <1>0, <3>2, <3>3 DEF Countdown
  <2> QED
    BY <1>1, <2>1, <2>2, <2>3, <2>4 DEF App
<1>2. CASE Blink
  <2>1. t_count > 0 /\ t_count' = t_count - 1 /\ t_count <= 255
    BY <1>2 DEF Blink, Countdown
  <2> QED
    BY <1>0, <1>s, <2>1
<1>3. CASE BlinkEnd
  <2>1. t_pending /\ t_pending' = FALSE /\ t_count' = t_count - 1 /\ UNCHANGED pc
    BY <1>3 DEF BlinkEnd, Fires, over
  <2>2. Writing' = Writing
    BY <2>1 DEF Writing
  <2> QED
    BY <1>0, <2>1, <2>2 DEF Countdown
<1>4. CASE BlinkUnmapped \/ ExitUnmap \/ UNCHANGED vars
  <2>1. UNCHANGED <<pc, t_count, t_pending>>
    BY <1>4 DEF BlinkUnmapped, ExitUnmap, vars, timer
  <2> QED
    BY <1>k, <2>1 DEF Writing
<1>5. CASE ExitDelete
  <2>1. UNCHANGED <<pc, t_count>> /\ t_pending' = FALSE
    BY <1>5 DEF ExitDelete
  <2>2. Writing' = Writing
    BY <2>1 DEF Writing
  <2> QED
    BY <1>0, <2>1, <2>2 DEF Countdown
<1>6. CASE dev_driver_init
  BY <1>6, <1>s DEF dev_driver_init
<1> QED
  BY <1>1, <1>2, <1>3, <1>4, <1>5, <1>6 DEF Next, kernel_timer_blink

LEMMA StepShown ==
  ASSUME Bytes, Shown, [Next]_vars
  PROVE  Shown'
<1>1. ASSUME NEW p \in Apps, App(p) PROVE Shown'
  BY <1>1 DEF App, Pack, OpenTest, OpenFails, OpenTake, WriteCount, WriteData, WriteAdd,
              dev_release, Step, device, Shown
<1>2. CASE Blink
  <2> DEFINE n == (t_data[1] - t_count' - 1) % 256
  <2>1. t_data \in Word /\ t_count' \in Int
    BY <1>2 DEF Blink, Bytes
  <2>2. t_data[1] \in Int /\ t_data[2] \in Byte /\ t_data[3] \in Byte
    BY <2>1 DEF Word, Byte
  <2>3. t_data[1] - t_count' - 1 \in Int
    BY <2>1, <2>2
  <2>4. n \in Nat
    <3>1. \A i \in Int : i % 256 \in Nat
      OBVIOUS
    <3> QED
      BY ONLY <2>3, <3>1
  <2>5. board' = picture(t_data[2], t_data[3], n)
    BY <1>2 DEF Blink
  <2> HIDE DEF n
  <2>6. board' \in [pos : Byte, val : Byte, id : 0..8, name : 0..5]
    BY <2>2, <2>4, <2>5, TextsStay DEF picture
  <2>7. UNCHANGED <<loaded, mapped, driver_usage>> /\ panic' \in {panic, "stray"}
    BY <1>2 DEF Blink, device
  <2> QED
    BY <2>6, <2>7 DEF Shown
<1>3. CASE BlinkEnd
  BY <1>3 DEF BlinkEnd, device, Shown
<1>4. CASE BlinkUnmapped \/ ExitUnmap \/ ExitDelete \/ dev_driver_init
  BY <1>4 DEF BlinkUnmapped, ExitUnmap, ExitDelete, dev_driver_init, device, Shown
<1>5. CASE UNCHANGED vars
  BY <1>5 DEF vars, device, Shown
<1> QED
  BY <1>1, <1>2, <1>3, <1>4, <1>5 DEF Next, kernel_timer_blink

(* The data of a job stay bytes, the texts stay on their lines of 16, and  *)
(* the countdown ends just below 0: no lower than one per application and  *)
(* one more, however many jobs are handed over and lost.                   *)
THEOREM TypeCorrect == Spec => []TypeOK
<1>1. Bytes /\ Countdown /\ Shown => TypeOK
  <2> SUFFICES ASSUME Bytes, Countdown, Shown PROVE TypeOK
    OBVIOUS
  <2>1. {loaded, mapped, t_pending, hasty, odd_start} \subseteq BOOLEAN
    <3>1. \A b \in {loaded, mapped, t_pending, hasty, odd_start} : b \in BOOLEAN
      BY DEF Bytes, Shown
    <3> QED
      BY <3>1
  <2>2. t_count \in (-1 - Cardinality(Apps))..255
    <3>1. /\ t_count \in Int /\ t_pending \in BOOLEAN
          /\ Cardinality(Writing) \in Nat /\ Cardinality(Apps) \in Nat
      BY Writers DEF Bytes
    <3> QED
      BY <3>1 DEF Countdown
  <2>3. pc \in [Apps -> {"idle", "packed", "open", "opened", "data", "write", "close"}]
    BY DEF Bytes, Busy
  <2>4. word \in [Apps -> Word] /\ t_data \in Word /\ job \in Word
    BY DEF Bytes
  <2> QED
    BY <2>1, <2>2, <2>3, <2>4 DEF TypeOK, Shown
<1> QED
  BY <1>1, InitTypes, StepBytes, StepCount, StepShown, PTL DEF Spec
=============================================================================
