------------------------- MODULE Provisioning_proofs -------------------------
(***************************************************************************)
(* What holds of the parts of Provisioning for any domains, requests,      *)
(* certificates, keys, legacy files, remotes and interfaces.               *)
(***************************************************************************)
EXTENDS Provisioning, SharedLemmas, SequenceTheorems

-----------------------------------------------------------------------------
(* IrRemote: what was read back is what the register has, until the next   *)
(* request.                                                                *)
LearnedTyped == learned \in [Operator -> Code \cup {None}] /\ register \in Code \cup {SENTINEL, None}
LockTyped    == listening \in Operator \cup {None} /\ astray \in BOOLEAN

ReadBack ==
  listening = None /\ ~astray => \A o \in Operator : learned[o] # None => register = learned[o]

IrInv == LearnedTyped /\ ReadBack /\ RemoteIsStored /\ ir_code \in Code \cup {None}

(* The lock of the bus is free or held by a request. *)
LEMMA LockTypedStep == LockTyped /\ [IrNext]_ir_vars => LockTyped'
<1> SUFFICES ASSUME LockTyped, [IrNext]_ir_vars PROVE LockTyped'
  OBVIOUS
<1> USE DEF LockTyped
<1>1. ASSUME NEW o \in Operator, learn_ir(o) \/ Capture(o) \/ save_ir_code(o) PROVE LockTyped'
  BY <1>1 DEF learn_ir, Capture, save_ir_code
<1>2. ASSUME NEW kept \in {register, None}, Boots(kept) PROVE LockTyped'
  BY <1>2 DEF Boots
<1>3. ASSUME NEW code \in Code, Press(code) PROVE LockTyped'
  BY <1>3 DEF Press
<1>4. CASE UNCHANGED ir_vars
  BY <1>4 DEF ir_vars
<1> QED
  BY <1>1, <1>2, <1>3, <1>4 DEF IrNext

LEMMA IrInvInit == IrInit => IrInv
  BY DEF IrInit, IrInv, LearnedTyped, ReadBack, RemoteIsStored, Settled

LEMMA IrInvStep == IrInv /\ [IrNext]_ir_vars => IrInv'
<1> SUFFICES ASSUME IrInv, [IrNext]_ir_vars PROVE IrInv'
  OBVIOUS
<1> USE IrAssumption DEF IrInv, LearnedTyped, ReadBack, RemoteIsStored, Settled
<1>1. ASSUME NEW o \in Operator, learn_ir(o) PROVE IrInv'
  BY <1>1 DEF learn_ir
<1>2. ASSUME NEW code \in Code, Press(code) PROVE IrInv'
  BY <1>2 DEF Press
<1>3. ASSUME NEW o \in Operator, Capture(o) PROVE IrInv'
  <2>1. PICK code \in {decode_learned_ir_code(register), None} :
          /\ learned' = [learned EXCEPT ![o] = code]
          /\ astray' = (code = None \/ \E p \in Operator : learned[p] # None)
    BY <1>3 DEF Capture
  <2>2. code = None \/ (code = register /\ code \in Code)
    BY <2>1 DEF decode_learned_ir_code
  <2>3. listening' = None /\ UNCHANGED <<ir_code, register>>
    BY <1>3 DEF Capture
  <2>4. learned' \in [Operator -> Code \cup {None}]
    BY <2>1, <2>2
  <2>5. ~astray' => /\ code = register /\ code # None
                    /\ learned'[o] = code
                    /\ \A p \in Operator \ {o} : learned'[p] = None
    BY <2>1, <2>2
  <2> QED
    BY <2>3, <2>4, <2>5
<1>4. ASSUME NEW o \in Operator, save_ir_code(o) PROVE IrInv'
  <2>1. learned' = [learned EXCEPT ![o] = None] /\ UNCHANGED <<register, listening>>
    BY <1>4 DEF save_ir_code
  <2>2. CASE ir_code' = learned[o] /\ UNCHANGED astray
    BY <1>4, <2>1, <2>2 DEF save_ir_code
  <2>3. CASE astray' = TRUE /\ UNCHANGED ir_code
    BY <2>1, <2>3
  <2> QED
    BY <1>4, <2>2, <2>3 DEF save_ir_code
<1>5. ASSUME NEW kept \in {register, None}, Boots(kept) PROVE IrInv'
  BY <1>5 DEF Boots, program_ir_code
<1>6. CASE UNCHANGED ir_vars
  BY <1>6 DEF ir_vars
<1> QED
  BY <1>1, <1>2, <1>3, <1>4, <1>5, <1>6 DEF IrNext

LEMMA IrAlways == IrSpec => [](IrInv /\ LockTyped)
<1>1. IrInit => IrInv /\ LockTyped
  BY IrInvInit DEF IrInit, LockTyped
<1>2. IrInv /\ LockTyped /\ [IrNext]_ir_vars => IrInv' /\ LockTyped'
  BY IrInvStep, LockTypedStep
<1> QED
  BY <1>1, <1>2, PTL DEF IrSpec

(* The remote that switches the case on is the one in the database, for    *)
(* any number of requests at a time.                                       *)
THEOREM RemoteAlwaysStored == IrSpec => []RemoteIsStored
<1>1. IrInv => RemoteIsStored
  BY DEF IrInv
<1> QED
  BY <1>1, IrAlways, PTL

LEMMA IrTyped == IrSpec => []IrTypeOK
<1>1. IrInv /\ LockTyped => IrTypeOK
  BY DEF IrInv, LearnedTyped, LockTyped, IrTypeOK
<1> QED
  BY <1>1, IrAlways, PTL

-----------------------------------------------------------------------------
(* Readings: no counter is further on than what went through since prev.   *)
SinceSample ==
  /\ bytes \in [Interface -> Int] /\ crossed \in [Interface -> Int]
  /\ \A i \in Interface : bytes[i] >= 0 /\ crossed[i] >= 0
  /\ route \in Interface \cup {None}
  /\ prev # None => /\ prev.iface \in Interface /\ prev.bytes \in Int
                    /\ bytes[prev.iface] - prev.bytes <= crossed[prev.iface]

RatesInv == SinceSample /\ RatesAreTraffic

LEMMA RatesInvInit == ReadingsInit => RatesInv
  BY DEF ReadingsInit, RatesInv, SinceSample, RatesAreTraffic

LEMMA SampleKeeps == ASSUME RatesInv, sample_rates, UNCHANGED <<bytes, route>> PROVE RatesInv'
<1>1. CASE route = None
  BY <1>1 DEF sample_rates, RatesInv, SinceSample, RatesAreTraffic
<1>2. CASE route # None
  <2>1. /\ prev' = [iface |-> route, bytes |-> bytes[route]]
        /\ crossed' = [i \in Interface |-> 0]
    BY <1>2 DEF sample_rates
  <2>2. SinceSample'
    BY <1>2, <2>1 DEF RatesInv, SinceSample
  <2>3. PICK passed \in BOOLEAN :
          rates' = IF comparable(passed)
                   THEN [moved |-> minus(bytes[route], prev.bytes), crossed |-> crossed[route]] ELSE None
    BY <1>2 DEF sample_rates
  <2>4. RatesAreTraffic'
    <3>1. CASE comparable(passed)
      <4>1. minus(bytes[route], prev.bytes) <= crossed[route]
        BY <1>2, <3>1 DEF comparable, minus, RatesInv, SinceSample
      <4> QED
        BY <2>3, <3>1, <4>1 DEF RatesAreTraffic
    <3>2. CASE ~comparable(passed)
      BY <2>3, <3>2 DEF RatesAreTraffic
    <3> QED
      BY <3>1, <3>2
  <2> QED
    BY <2>2, <2>4 DEF RatesInv
<1> QED
  BY <1>1, <1>2

LEMMA RatesInvStep == RatesInv /\ [ReadingsNext]_readings_vars => RatesInv'
<1> SUFFICES ASSUME RatesInv, [ReadingsNext]_readings_vars PROVE RatesInv'
  OBVIOUS
<1>1. CASE StatsTick
  <2>1. CASE sample_rates
    BY <1>1, <2>1, SampleKeeps DEF StatsTick
  <2>2. CASE rates' = None /\ UNCHANGED <<prev, crossed>>
    BY <1>1, <2>2 DEF StatsTick, RatesInv, SinceSample, RatesAreTraffic
  <2> QED
    BY <1>1, <2>1, <2>2 DEF StatsTick
<1>2. ASSUME NEW i \in Interface, Transfer(i) PROVE RatesInv'
  BY <1>2 DEF Transfer, RatesInv, SinceSample, RatesAreTraffic
<1>3. ASSUME NEW i \in Interface, LinkFlap(i) PROVE RatesInv'
  BY <1>3 DEF LinkFlap, RatesInv, SinceSample, RatesAreTraffic
<1>4. CASE Reroute
  BY <1>4 DEF Reroute, RatesInv, SinceSample, RatesAreTraffic
<1>5. CASE Runs \/ Assemble \/ UNCHANGED readings_vars
  BY <1>5 DEF Runs, Assemble, readings_vars, traffic, RatesInv, SinceSample, RatesAreTraffic
<1> QED
  BY <1>1, <1>2, <1>3, <1>4, <1>5 DEF ReadingsNext, Stats

(* No rate is more than the traffic between its samples, for any number of *)
(* interfaces and counters of any size.                                    *)
THEOREM RatesAlwaysTraffic == ReadingsSpec => []RatesAreTraffic
<1>1. ReadingsInit => RatesInv
  BY RatesInvInit
<1>2. RatesInv /\ [ReadingsNext]_readings_vars => RatesInv'
  BY RatesInvStep
<1>3. RatesInv => RatesAreTraffic
  BY DEF RatesInv
<1> QED
  BY <1>1, <1>2, <1>3, PTL DEF ReadingsSpec

(* The share of a part in its whole is a percentage.                       *)
LEMMA ShareIsPercentage ==
  ASSUME NEW part \in Nat, NEW whole \in Nat \ {0}, part <= whole
  PROVE  (100 * part) \div whole \in 0..100
<1> DEFINE q == (100 * part) \div whole
           r == (100 * part) % whole
<1>1. q \in Int /\ r \in 0..(whole - 1) /\ 100 * part = whole * q + r
  OBVIOUS
<1> HIDE DEF q, r
<1>2. q >= 0
  <2> SUFFICES ASSUME q <= -1 PROVE FALSE
    BY <1>1
  <2>1. whole * q <= whole * (-1)
    BY <1>1
  <2> QED
    BY <1>1, <2>1
<1>3. q <= 100
  <2> SUFFICES ASSUME q >= 101 PROVE FALSE
    BY <1>1
  <2>1. whole * q >= whole * 101
    BY <1>1
  <2> QED
    BY <1>1, <2>1
<1> QED
  BY <1>1, <1>2, <1>3 DEF q

(* The time a processor was busy does not run back, so it was idle for no  *)
(* more than the time that passed.                                         *)
BusyGrows == cpu # None => cpu.busy <= times.busy

LEMMA PercentTyped ==
  ASSUME ReadingsTypeOK, BusyGrows, sample_percent
  PROVE  percent' \in 0..100 \cup {None} /\ cpu' = times
<1> DEFINE part == minus(times.idle, cpu.idle)
           whole == minus(total(times), total(cpu))
<1>1. CASE cpu = None \/ whole = 0
  BY <1>1 DEF sample_percent
<1>2. CASE cpu # None /\ whole # 0
  <2>1. /\ times.busy \in Nat /\ times.idle \in Nat /\ cpu.busy \in Nat /\ cpu.idle \in Nat
        /\ cpu.busy <= times.busy
    BY <1>2, ListedAssumption DEF ReadingsTypeOK, Times, BusyGrows
  <2>2. part \in Nat /\ whole \in Nat \ {0} /\ part <= whole
    BY <1>2, <2>1 DEF minus, total
  <2>3. percent' = 100 - (100 * part) \div whole /\ cpu' = times
    BY <1>2 DEF sample_percent
  <2> HIDE DEF part, whole
  <2>4. (100 * part) \div whole \in 0..100
    BY <2>2, ShareIsPercentage
  <2> QED
    BY <2>3, <2>4
<1> QED
  BY <1>1, <1>2

LEMMA RatesTyped ==
  ASSUME ReadingsTypeOK, sample_rates, UNCHANGED <<bytes, route>>
  PROVE  /\ prev' \in [iface : Interface, bytes : Count] \cup {None}
         /\ rates' \in [moved : Count, crossed : Count] \cup {None}
         /\ crossed' \in [Interface -> Count]
<1>0. 0 \in Count /\ Counter \in Nat
  BY ListedAssumption DEF Count
<1>1. CASE route = None
  BY <1>1 DEF sample_rates, ReadingsTypeOK
<1>2. CASE route # None
  <2>1. route \in Interface /\ bytes[route] \in Count /\ crossed[route] \in Count
    BY <1>2 DEF ReadingsTypeOK
  <2>2. /\ prev' = [iface |-> route, bytes |-> bytes[route]]
        /\ crossed' = [i \in Interface |-> 0]
    BY <1>2 DEF sample_rates
  <2>3. PICK passed \in BOOLEAN :
          rates' = IF comparable(passed)
                   THEN [moved |-> minus(bytes[route], prev.bytes), crossed |-> crossed[route]] ELSE None
    BY <1>2 DEF sample_rates
  <2>4. comparable(passed) => minus(bytes[route], prev.bytes) \in Count
    BY <1>0, <2>1 DEF comparable, minus, Count, ReadingsTypeOK
  <2> QED
    BY <1>0, <2>1, <2>2, <2>3, <2>4
<1> QED
  BY <1>1, <1>2

LEMMA ReadingsTypedStep ==
  ReadingsTypeOK /\ BusyGrows /\ [ReadingsNext]_readings_vars => ReadingsTypeOK' /\ BusyGrows'
<1> SUFFICES ASSUME ReadingsTypeOK, BusyGrows, [ReadingsNext]_readings_vars
             PROVE  ReadingsTypeOK' /\ BusyGrows'
  OBVIOUS
<1>0. 0 \in Count /\ Counter \in Nat /\ Jiffy \in Nat
  BY ListedAssumption DEF Count
<1>1. CASE StatsTick
  <2>1. UNCHANGED <<mdstat, times, bytes, route>>
    BY <1>1 DEF StatsTick
  <2>2. percent' \in 0..100 \cup {None} /\ cpu' \in {cpu, times}
    BY <1>1, PercentTyped DEF StatsTick
  <2>3. /\ prev' \in [iface : Interface, bytes : Count] \cup {None}
        /\ rates' \in [moved : Count, crossed : Count] \cup {None}
        /\ crossed' \in [Interface -> Count]
    <3>1. CASE sample_rates
      BY <2>1, <3>1, RatesTyped
    <3>2. CASE rates' = None /\ UNCHANGED <<prev, crossed>>
      BY <3>2 DEF ReadingsTypeOK
    <3> QED
      BY <1>1, <3>1, <3>2 DEF StatsTick
  <2>4. BusyGrows'
    BY <1>0, <2>1, <2>2 DEF BusyGrows, ReadingsTypeOK, Times
  <2> QED
    BY <2>1, <2>2, <2>3, <2>4 DEF ReadingsTypeOK
<1>2. CASE Runs
  <2>1. UNCHANGED <<mdstat, cpu, percent, bytes, route, prev, rates, crossed>>
        /\ times' \in Times /\ times'.busy >= times.busy
    BY <1>2 DEF Runs, traffic, Times
  <2> QED
    BY <1>0, <2>1 DEF ReadingsTypeOK, Times, BusyGrows
<1>3. ASSUME NEW i \in Interface, Transfer(i) \/ LinkFlap(i) PROVE ReadingsTypeOK' /\ BusyGrows'
  <2>1. UNCHANGED <<mdstat, times, cpu, percent, route, prev, rates>>
    BY <1>3 DEF Transfer, LinkFlap
  <2>2. bytes' \in [Interface -> Count] /\ crossed' \in [Interface -> Count]
    BY <1>0, <1>3 DEF Transfer, LinkFlap, ReadingsTypeOK, Count
  <2> QED
    BY <2>1, <2>2 DEF ReadingsTypeOK, BusyGrows
<1>4. CASE Reroute
  BY <1>4 DEF Reroute, ReadingsTypeOK, BusyGrows
<1>5. CASE Assemble
  <2>1. PICK a \in Listed : mdstat' = Append(mdstat, a)
    BY <1>5 DEF Assemble
  <2>2. mdstat' \in Seq(Listed) /\ Len(mdstat') <= MaxListed
    BY <1>5, <2>1, ListedAssumption DEF Assemble, ReadingsTypeOK
  <2> QED
    BY <1>5, <2>2 DEF Assemble, traffic, ReadingsTypeOK, BusyGrows
<1>6. CASE UNCHANGED readings_vars
  BY <1>6 DEF readings_vars, traffic, ReadingsTypeOK, BusyGrows
<1> QED
  BY <1>1, <1>2, <1>3, <1>4, <1>5, <1>6 DEF ReadingsNext, Stats

(* Above all, the load of the processor is a percentage, also when the     *)
(* time it was idle ran back.                                              *)
THEOREM ReadingsTyped == ReadingsSpec => []ReadingsTypeOK
<1>1. ReadingsInit => ReadingsTypeOK /\ BusyGrows
  BY ListedAssumption DEF ReadingsInit, ReadingsTypeOK, BusyGrows, Times, Count
<1>2. ReadingsTypeOK /\ BusyGrows /\ [ReadingsNext]_readings_vars => ReadingsTypeOK' /\ BusyGrows'
  BY ReadingsTypedStep
<1> QED
  BY <1>1, <1>2, PTL DEF ReadingsSpec

(* mdstat: three lines for each array, the first of them its head.         *)
LEMMA ThreeLines ==
  ASSUME mdstat \in Seq(Listed), NEW j \in 1..Len(mdstat)
  PROVE  /\ printout[3 * j - 2] = line(TRUE, mdstat[j], None)
         /\ printout[3 * j - 1] = line(FALSE, mdstat[j], mdstat[j].counts)
         /\ printout[3 * j] = line(FALSE, mdstat[j], None)
<1>1. Len(mdstat) \in Nat /\ j \in Nat
  OBVIOUS
<1>2. \A k \in 1..(3 * Len(mdstat)) : printout[k] = printed(mdstat[1 + ((k - 1) \div 3)])[1 + ((k - 1) % 3)]
  BY DEF printout
<1>3. /\ 3 * j - 2 \in 1..(3 * Len(mdstat)) /\ 1 + ((3 * j - 2 - 1) \div 3) = j /\ 1 + ((3 * j - 2 - 1) % 3) = 1
      /\ 3 * j - 1 \in 1..(3 * Len(mdstat)) /\ 1 + ((3 * j - 1 - 1) \div 3) = j /\ 1 + ((3 * j - 1 - 1) % 3) = 2
      /\ 3 * j \in 1..(3 * Len(mdstat)) /\ 1 + ((3 * j - 1) \div 3) = j /\ 1 + ((3 * j - 1) % 3) = 3
  BY <1>1
<1>4. /\ printout[3 * j - 2] = printed(mdstat[j])[1]
      /\ printout[3 * j - 1] = printed(mdstat[j])[2]
      /\ printout[3 * j] = printed(mdstat[j])[3]
  BY <1>2, <1>3
<1>5. \A a : /\ printed(a)[1] = line(TRUE, a, None) /\ printed(a)[2] = line(FALSE, a, a.counts)
            /\ printed(a)[3] = line(FALSE, a, None)
  BY DEF printed
<1> QED
  BY <1>4, <1>5

LEMMA PrintoutLength ==
  ASSUME mdstat \in Seq(Listed)
  PROVE  DOMAIN printout = 1..(3 * Len(mdstat)) /\ Len(printout) = 3 * Len(mdstat)
<1>1. 3 * Len(mdstat) \in Nat /\ DOMAIN printout = 1..(3 * Len(mdstat))
  BY DEF printout
<1>2. printout \in Seq({ printout[k] : k \in 1..(3 * Len(mdstat)) })
  BY <1>1 DEF printout
<1> QED
  BY <1>1, <1>2

(* The parser goes through the lines one by one. *)
LEMMA RaidReads ==
  ASSUME NEW lines, Len(lines) \in Nat
  PROVE  \E found : /\ found[0] = <<>>
                    /\ \A k \in 1..Len(lines) :
                         found[k] = IF lines[k].md THEN Append(found[k - 1], RaidArray(lines, k)) ELSE found[k - 1]
                    /\ parse_raid_status(lines) = found[Len(lines)]
<1> DEFINE n == Len(lines)
           S == Seq({ RaidArray(lines, k) : k \in 1..n })
           Taken(s, k) == IF lines[k].md THEN Append(s, RaidArray(lines, k)) ELSE s
           Loop(f) == f = [k \in 0..Len(lines) |->
                             IF k = 0 THEN <<>>
                             ELSE IF lines[k].md THEN Append(f[k - 1], RaidArray(lines, k)) ELSE f[k - 1]]
           F == [k \in 1..n |-> [s \in S |-> Taken(s, k)]]
           found == CHOOSE f : Loop(f)
<1>1. n \in Nat /\ <<>> \in S
  OBVIOUS
<1>2. ASSUME NEW k \in 1..n, NEW s \in S PROVE Taken(s, k) \in S
  <2>1. RaidArray(lines, k) \in { RaidArray(lines, j) : j \in 1..n }
    OBVIOUS
  <2> HIDE DEF n
  <2> QED
    BY <2>1
<1>3. F \in [1..n -> [S -> S]]
  <2> HIDE DEF S, Taken
  <2> QED
    BY <1>2
<1>4. \E f : Loop(f)
  <2> HIDE DEF S, F
  <2>1. PICK f \in [0..n -> S] : \A k \in 0..n : f[k] = IF k = 0 THEN <<>> ELSE F[k][f[k - 1]]
    <3> HIDE DEF n
    <3>1. Recursions(n, S, <<>>, F) # {}
      BY <1>1, <1>3, RecursionDefines
    <3> QED
      BY <3>1 DEF Recursions
  <2>2. ASSUME NEW k \in 0..n PROVE f[k] = IF k = 0 THEN <<>> ELSE Taken(f[k - 1], k)
    <3>1. k # 0 => k \in 1..n /\ f[k - 1] \in S
      BY <1>1
    <3> QED
      BY <2>1, <3>1 DEF F
  <2>3. f = [k \in 0..n |-> f[k]]
    BY <2>1
  <2>4. Loop(f)
    BY <2>2, <2>3
  <2> QED
    BY <2>4
<1>5. Loop(found)
  BY <1>4
<1>6. parse_raid_status(lines) = found[n]
  BY DEF parse_raid_status
<1> HIDE DEF found
<1>7. \A k \in 0..n : found[k] = IF k = 0 THEN <<>> ELSE Taken(found[k - 1], k)
  BY <1>5
<1>8. found[0] = <<>> /\ \A k \in 1..n : found[k] = Taken(found[k - 1], k)
  BY <1>1, <1>7
<1> QED
  BY <1>6, <1>8

(* It reports the arrays of the heads, in their order. *)
LEMMA OneForEach ==
  ASSUME mdstat \in Seq(Listed)
  PROVE  parse_raid_status(printout) = [i \in 1..Len(mdstat) |-> RaidArray(printout, 3 * i - 2)]
<1> DEFINE n == Len(mdstat)
           told(j) == [i \in 1..j |-> RaidArray(printout, 3 * i - 2)]
<1>1. n \in Nat /\ Len(printout) = 3 * n
  BY PrintoutLength
<1>2. PICK found : /\ found[0] = <<>>
                   /\ \A k \in 1..(3 * n) :
                         found[k] = IF printout[k].md THEN Append(found[k - 1], RaidArray(printout, k)) ELSE found[k - 1]
                   /\ parse_raid_status(printout) = found[3 * n]
  <2>1. Len(printout) \in Nat
    BY <1>1
  <2> QED
    BY <1>1, <2>1, RaidReads
<1> DEFINE Told == { j \in Nat : j <= n => found[3 * j] = told(j) }
<1>3. 0 \in Told
  BY <1>2
<1>4. ASSUME NEW j \in Nat, j \in Told PROVE j + 1 \in Told
  <2> SUFFICES ASSUME j + 1 <= n PROVE found[3 * (j + 1)] = told(j + 1)
    OBVIOUS
  <2>1. j + 1 \in 1..Len(mdstat) /\ found[3 * j] = told(j)
    BY <1>1, <1>4
  <2>2. /\ printout[3 * j + 1] = line(TRUE, mdstat[j + 1], None)
        /\ printout[3 * j + 2] = line(FALSE, mdstat[j + 1], mdstat[j + 1].counts)
        /\ printout[3 * j + 3] = line(FALSE, mdstat[j + 1], None)
    <3>1. 3 * (j + 1) - 2 = 3 * j + 1 /\ 3 * (j + 1) - 1 = 3 * j + 2 /\ 3 * (j + 1) = 3 * j + 3
      OBVIOUS
    <3> QED
      BY <2>1, <3>1, ThreeLines
  <2>3. printout[3 * j + 1].md /\ ~printout[3 * j + 2].md /\ ~printout[3 * j + 3].md
    BY <2>2 DEF line
  <2>4. /\ 3 * j + 1 \in 1..(3 * n) /\ (3 * j + 1) - 1 = 3 * j
        /\ 3 * j + 2 \in 1..(3 * n) /\ (3 * j + 2) - 1 = 3 * j + 1
        /\ 3 * j + 3 \in 1..(3 * n) /\ (3 * j + 3) - 1 = 3 * j + 2
    BY <1>1
  <2>5. /\ found[3 * j + 1] = Append(found[3 * j], RaidArray(printout, 3 * j + 1))
        /\ found[3 * j + 2] = found[3 * j + 1] /\ found[3 * j + 3] = found[3 * j + 2]
    BY <1>2, <2>3, <2>4
  <2>6. Append(told(j), RaidArray(printout, 3 * j + 1)) = told(j + 1)
    <3>1. 3 * (j + 1) - 2 = 3 * j + 1
      OBVIOUS
    <3> QED
      BY <3>1
  <2>7. 3 * (j + 1) = 3 * j + 3
    OBVIOUS
  <2> QED
    BY <2>1, <2>5, <2>6, <2>7
<1> HIDE DEF Told
<1>5. n \in Told
  BY <1>1, <1>3, <1>4, SetInduction
<1> QED
  BY <1>1, <1>2, <1>5 DEF Told

(* An array of the kernel, and its words when it runs and may be written   *)
(* to: the level and then the members.                                     *)
LEMMA ListedTyped ==
  ASSUME NEW a \in Listed
  PROVE  /\ a.members \in Seq(Member) /\ a.runs \in BOOLEAN /\ a.readonly \in BOOLEAN
         /\ a.counts # None
              => a.counts[1] \in Nat /\ a.counts[2] \in Nat /\ a.counts[2] <= a.counts[1]
<1>1. a.members \in Seq(Member) /\ a.runs \in BOOLEAN /\ a.readonly \in BOOLEAN
      /\ a.counts \in Counts \cup {None}
  BY ListedAssumption
<1>2. \A c \in Counts : c[1] \in 0..255 /\ c[2] \in 0..255 /\ c[2] <= c[1]
  BY DEF Counts
<1>3. \A c \in Counts : c[1] \in Nat /\ c[2] \in Nat /\ c[2] <= c[1]
  BY <1>2
<1> QED
  BY <1>1, <1>3

LEMMA WordsOfWritable ==
  ASSUME NEW a \in Listed, a.runs, ~a.readonly
  PROVE  words(a) # <<>> /\ Tail(words(a)) = a.members
<1> DEFINE S == Member \cup {word(a.level)}
           w == <<word(a.level)>>
           m == a.members
<1>1. m \in Seq(S)
  <2>1. m \in Seq(Member) /\ Member \subseteq S
    BY ListedTyped
  <2> QED
    BY <2>1, SeqMonotonic
<1>2. w \in Seq(S) /\ Len(w) = 1
  OBVIOUS
<1>3. words(a) = w \o m
  <2>1. words(a) = (<<>> \o w) \o m
    BY DEF words
  <2>2. <<>> \o w = w
    BY <1>2, ConcatEmptySeq
  <2> QED
    BY <2>1, <2>2
<1> HIDE DEF w, m, S
<1>4. /\ w \o m \in Seq(S) /\ Len(w \o m) = 1 + Len(m)
      /\ \A i \in 1..(1 + Len(m)) : (w \o m)[i] = IF i <= 1 THEN w[i] ELSE m[i - 1]
  <2>1. /\ w \o m \in Seq(S) /\ Len(w \o m) = Len(w) + Len(m)
        /\ \A i \in 1..(Len(w) + Len(m)) : (w \o m)[i] = IF i <= Len(w) THEN w[i] ELSE m[i - Len(w)]
    BY <1>1, <1>2, ConcatProperties
  <2> QED
    BY <1>2, <2>1
<1>5. Len(m) \in Nat
  BY <1>1
<1>6. w \o m # <<>>
  BY <1>4, <1>5, EmptySeq
<1>7. /\ Tail(w \o m) \in Seq(S) /\ Len(Tail(w \o m)) = Len(m)
      /\ \A i \in 1..Len(m) : Tail(w \o m)[i] = (w \o m)[i + 1]
  BY <1>4, <1>5, <1>6, HeadTailProperties
<1>8. \A i \in 1..Len(m) : Tail(w \o m)[i] = m[i]
  <2> SUFFICES ASSUME NEW i \in 1..Len(m) PROVE Tail(w \o m)[i] = m[i]
    OBVIOUS
  <2>1. i + 1 \in 1..(1 + Len(m)) /\ ~(i + 1 <= 1) /\ (i + 1) - 1 = i
    BY <1>5
  <2> QED
    BY <1>4, <1>7, <2>1
<1>9. Tail(w \o m) = m
  BY <1>1, <1>7, <1>8, SeqEqual
<1> QED
  BY <1>3, <1>6, <1>9 DEF m

LEMMA CountsSay ==
  ASSUME NEW c, c[1] \in Nat, c[2] \in Nat, c[2] <= c[1]
  PROVE  /\ failed_disks(c) = c[1] - c[2]
         /\ \A activity : state(activity, c) = IF activity = "inactive" THEN "inactive"
                                             ELSE IF c[1] - c[2] > 0 THEN "degraded" ELSE "active"
BY DEF failed_disks, state

(* What is reported of an array is what the kernel lists of it. *)
Faithful(told, a) ==
  LET lost == IF a.counts = None THEN 0 ELSE a.counts[1] - a.counts[2]
  IN  /\ told.name = a.name
      /\ told.failed = lost
      /\ told.state = IF ~a.runs THEN "inactive" ELSE IF lost > 0 THEN "degraded" ELSE "active"
      /\ a.runs /\ ~a.readonly =>
           /\ Len(told.devices) = Len(a.members)
           /\ \A m \in DOMAIN a.members :
                LET device == told.devices[m]
                IN  /\ device.name = a.members[m].name
                    /\ device.role = "faulty" <=> a.members[m].mark = "F"
                    /\ device.role = "active sync" <=> a.members[m].mark = ""

LEMMA ReportedAsIs ==
  ASSUME mdstat \in Seq(Listed), NEW j \in 1..Len(mdstat)
  PROVE  Faithful(RaidArray(printout, 3 * j - 2), mdstat[j])
<1> DEFINE a == mdstat[j]
           head == printout[3 * j - 2]
           counts == IF a.counts = None THEN <<0, 0>> ELSE a.counts
           lost == IF a.counts = None THEN 0 ELSE a.counts[1] - a.counts[2]
           members == IF head.words = <<>> THEN <<>> ELSE Tail(head.words)
           devices == [m \in DOMAIN members |-> [name |-> members[m].name, role |-> raid_device_role(members[m])]]
           told == RaidArray(printout, 3 * j - 2)
<1>0. a \in Listed
  OBVIOUS
<1>1. head = line(TRUE, a, None) /\ printout[3 * j - 1] = line(FALSE, a, a.counts)
  BY ThreeLines
<1>2. /\ head.name = a.name /\ head.activity = (IF a.runs THEN "active" ELSE "inactive")
      /\ head.words = words(a) /\ printout[3 * j - 1].counts = a.counts
  BY <1>1 DEF line
<1>3. 3 * j - 1 \in DOMAIN printout /\ (3 * j - 2) + 1 = 3 * j - 1
  BY PrintoutLength
<1>4. detail(printout, 3 * j - 2) = counts
  <2> HIDE DEF a
  <2> QED
    BY <1>2, <1>3 DEF detail
<1>5. told = [name |-> head.name, state |-> state(head.activity, counts),
              failed |-> failed_disks(counts), devices |-> devices]
  BY <1>4 DEF RaidArray
<1>6. /\ a.members \in Seq(Member) /\ a.runs \in BOOLEAN /\ a.readonly \in BOOLEAN
      /\ a.counts # None
           => a.counts[1] \in Nat /\ a.counts[2] \in Nat /\ a.counts[2] <= a.counts[1]
  BY <1>0, ListedTyped
<1> HIDE DEF a, head
<1>c. /\ counts[1] \in Nat /\ counts[2] \in Nat /\ counts[2] <= counts[1]
      /\ lost = counts[1] - counts[2]
  <2>1. CASE a.counts = None
    <3>1. counts = <<0, 0>> /\ lost = 0
      BY <2>1
    <3>2. <<0, 0>>[1] = 0 /\ <<0, 0>>[2] = 0
      OBVIOUS
    <3> HIDE DEF counts, lost
    <3>3. counts[1] = 0 /\ counts[2] = 0
      BY <3>1, <3>2, Zenon
    <3> QED
      BY <3>1, <3>3
  <2>2. CASE a.counts # None
    <3>1. counts = a.counts /\ lost = a.counts[1] - a.counts[2]
      BY <2>2
    <3>2. a.counts[1] \in Nat /\ a.counts[2] \in Nat /\ a.counts[2] <= a.counts[1]
      BY <1>6, <2>2
    <3> HIDE DEF counts, lost
    <3> QED
      BY <3>1, <3>2
  <2> QED
    BY <2>1, <2>2
<1>7. failed_disks(counts) = lost
  BY <1>c, CountsSay
<1>8. state(head.activity, counts) = IF ~a.runs THEN "inactive" ELSE IF lost > 0 THEN "degraded" ELSE "active"
  <2>1. state(head.activity, counts) =
          IF head.activity = "inactive" THEN "inactive"
          ELSE IF counts[1] - counts[2] > 0 THEN "degraded" ELSE "active"
    BY <1>c, CountsSay
  <2> HIDE DEF counts, lost
  <2> QED
    BY <1>2, <1>c, <2>1
<1>9. ASSUME a.runs, ~a.readonly
      PROVE  /\ Len(devices) = Len(a.members)
             /\ \A m \in DOMAIN a.members :
                  /\ devices[m].name = a.members[m].name
                  /\ devices[m].role = "faulty" <=> a.members[m].mark = "F"
                  /\ devices[m].role = "active sync" <=> a.members[m].mark = ""
  <2>1. members = a.members
    BY <1>0, <1>2, <1>9, WordsOfWritable
  <2> HIDE DEF members
  <2>2. DOMAIN devices = DOMAIN a.members /\ DOMAIN a.members = 1..Len(a.members) /\ Len(a.members) \in Nat
    BY <1>6, <2>1
  <2>3. Len(devices) = Len(a.members)
    BY <2>2
  <2>4. ASSUME NEW m \in DOMAIN a.members
        PROVE  /\ devices[m].name = a.members[m].name
               /\ devices[m].role = "faulty" <=> a.members[m].mark = "F"
               /\ devices[m].role = "active sync" <=> a.members[m].mark = ""
    <3>1. devices[m] = [name |-> a.members[m].name, role |-> raid_device_role(a.members[m])]
      BY <2>1
    <3>2. a.members[m].mark \in {"", "S", "F"}
      <4>1. a.members[m] \in Member
        BY <1>6, <2>2, ElementOfSeq
      <4> QED
        BY <4>1 DEF Member
    <3> HIDE DEF devices
    <3>3. devices[m].name = a.members[m].name /\ devices[m].role = raid_device_role(a.members[m])
      BY <3>1
    <3> QED
      BY <3>2, <3>3 DEF raid_device_role
  <2> QED
    BY <2>3, <2>4
<1> HIDE DEF devices, lost, counts, told
<1>10. /\ told.name = a.name /\ told.failed = lost
       /\ told.state = IF ~a.runs THEN "inactive" ELSE IF lost > 0 THEN "degraded" ELSE "active"
       /\ told.devices = devices
  BY <1>2, <1>5, <1>7, <1>8
<1> QED
  BY <1>9, <1>10 DEF a, lost, told, Faithful

LEMMA ReportsListed == mdstat \in Seq(Listed) => MdstatAsListed
<1> SUFFICES ASSUME mdstat \in Seq(Listed) PROVE MdstatAsListed
  OBVIOUS
<1> DEFINE told == parse_raid_status(printout)
<1>1. told = [i \in 1..Len(mdstat) |-> RaidArray(printout, 3 * i - 2)]
  BY OneForEach
<1>2. Len(mdstat) \in Nat
  OBVIOUS
<1> HIDE DEF told
<1>3. DOMAIN told = 1..Len(mdstat) /\ Len(told) = Len(mdstat)
  BY <1>1, <1>2
<1>4. ASSUME NEW i \in DOMAIN told PROVE Faithful(told[i], mdstat[i])
  <2>1. i \in 1..Len(mdstat) /\ told[i] = RaidArray(printout, 3 * i - 2)
    BY <1>1, <1>3
  <2> QED
    BY <2>1, ReportedAsIs
<1> QED
  BY <1>3, <1>4, Zenon DEF MdstatAsListed, told, Faithful

-----------------------------------------------------------------------------
(* LegacyFiles: a field that the lines of a set H determine, and that the  *)
(* others leave alone, is in the end what the last line of H says.  v[k]   *)
(* is what has been read after k of n lines, w[k] what line k says.        *)
Decided(n, v, f, w, H) == \A k \in 1..n : v[k][f] = IF k \in H THEN w[k] ELSE v[k - 1][f]

LEMMA LastDecides ==
  ASSUME NEW n \in Nat, NEW v, NEW f, NEW w, NEW H \in SUBSET (1..n), Decided(n, v, f, w, H)
  PROVE  v[n][f] = IF H = {} THEN v[0][f] ELSE w[Max(H)]
<1> DEFINE LastTo(k, m) == m \in H /\ m <= k /\ \A h \in H : h <= k => h <= m
           Upto(k) == \/ v[k][f] = v[0][f] /\ \A h \in H : h > k
                      \/ \E m \in H : LastTo(k, m) /\ v[k][f] = w[m]
           Reached == { k \in Nat : k <= n => Upto(k) }
<1> USE DEF Decided
<1>1. 0 \in Reached
  <2>1. \A h \in H : h > 0
    OBVIOUS
  <2> QED
    BY <2>1
<1>2. ASSUME NEW k \in Nat, k \in Reached PROVE k + 1 \in Reached
  <2> HIDE DEF Upto
  <2> SUFFICES ASSUME k + 1 <= n PROVE Upto(k + 1)
    OBVIOUS
  <2>1. k + 1 \in 1..n /\ (k + 1) - 1 = k /\ Upto(k)
    BY <1>2
  <2> USE DEF Upto
  <2>2. CASE k + 1 \in H
    <3>1. LastTo(k + 1, k + 1) /\ v[k + 1][f] = w[k + 1]
      BY <2>1, <2>2
    <3> QED
      BY <2>2, <3>1
  <2>3. CASE k + 1 \notin H
    <3>1. v[k + 1][f] = v[k][f]
      BY <2>1, <2>3
    <3>2. \A h \in H : h <= k + 1 <=> h <= k
      BY <2>3
    <3> QED
      BY <2>1, <3>1, <3>2
  <2> QED
    BY <2>2, <2>3
<1> HIDE DEF Reached
<1>3. n \in Reached
  BY <1>1, <1>2, SetInduction
<1>4. Upto(n)
  <2> HIDE DEF Upto
  <2> QED
    BY <1>3 DEF Reached
<1>5. CASE H = {}
  BY <1>4, <1>5
<1>6. CASE H # {}
  <2>0. \A h \in H : h \in Nat /\ h <= n /\ ~(h > n)
    OBVIOUS
  <2>1. PICK m \in H : LastTo(n, m) /\ v[n][f] = w[m]
    BY <1>4, <1>6, <2>0
  <2>2. \A h \in H : m >= h
    BY <2>0, <2>1
  <2>3. ASSUME NEW x \in H, \A y \in H : x >= y PROVE x = m
    BY <2>2, <2>3
  <2>4. Max(H) = m
    BY <2>2, <2>3 DEF Max
  <2> QED
    BY <1>6, <2>1, <2>4
<1> QED
  BY <1>5, <1>6

LEMMA LastIsThere ==
  ASSUME NEW n \in Nat, NEW H \in SUBSET (1..n), H # {}
  PROVE  Max(H) \in H /\ \A h \in H : Max(H) >= h
<1> DEFINE Room == { n - h : h \in H }
<1>1. Room \in SUBSET Nat /\ Room # {}
  <2>1. \A h \in H : n - h \in Nat
    OBVIOUS
  <2> QED
    BY <2>1
<1>2. PICK r \in Room : \A s \in Room : r <= s
  BY <1>1, LeastElement
<1>3. PICK m \in H : r = n - m
  BY <1>2
<1>4. \A h \in H : m >= h
  <2> SUFFICES ASSUME NEW h \in H PROVE m >= h
    OBVIOUS
  <2>1. n - h \in Room
    OBVIOUS
  <2>2. n - m <= n - h
    BY <1>2, <1>3, <2>1
  <2> QED
    BY <2>2
<1> QED
  BY <1>4 DEF Max

(* A reader of lines goes through them one by one. *)
Text     == STRING \cup {"10", "120", "clock ip", "on", "off", "bad"}
OledRead == [switchduration : Text, screensaver : Text, screenlist : Text, enabled : Text]

LEMMA OledLineTyped ==
  ASSUME NEW cfg \in OledRead, NEW x \in Line
  PROVE  oled_line(cfg, x) \in OledRead
<1>1. x.key \in STRING /\ x.value \in STRING
  BY LinesAssumption
<1>2. truth(x.value) \in Text /\ x.value \in Text
  BY <1>1 DEF truth, Text
<1>3. CASE x.key \in {"switchduration", "screensaver"}
  BY <1>2, <1>3 DEF oled_line, keep, OledRead
<1>4. CASE x.key \notin {"switchduration", "screensaver"}
  BY <1>2, <1>4 DEF oled_line, OledRead
<1> QED
  BY <1>3, <1>4

LEMMA OledReads ==
  ASSUME NEW lines \in Seq(Line)
  PROVE  \E after \in [0..Len(lines) -> OledRead] :
           /\ after[0] = oled_default
           /\ \A k \in 1..Len(lines) : after[k] = oled_line(after[k - 1], lines[k])
           /\ OledConfig_parse(lines) = after[Len(lines)]
<1> DEFINE n == Len(lines)
           Step(f, k) == IF k = 0 THEN oled_default ELSE oled_line(f[k - 1], lines[k])
           Loop(f) == f = [k \in 0..Len(lines) |-> IF k = 0 THEN oled_default ELSE oled_line(f[k - 1], lines[k])]
           F == [k \in 1..n |-> [cfg \in OledRead |-> oled_line(cfg, lines[k])]]
           after == CHOOSE f : Loop(f)
<1>0. oled_default \in OledRead
  BY DEF oled_default, OledRead, Text
<1>1. n \in Nat /\ oled_default \in OledRead /\ \A k \in 1..n : lines[k] \in Line
  BY <1>0
<1>2. F \in [1..n -> [OledRead -> OledRead]]
  BY <1>1, OledLineTyped
<1>3. \E f : Loop(f)
  <2>1. PICK f \in [0..n -> OledRead] : \A k \in 0..n : f[k] = IF k = 0 THEN oled_default ELSE F[k][f[k - 1]]
    <3> HIDE DEF n, F
    <3>1. Recursions(n, OledRead, oled_default, F) # {}
      BY <1>1, <1>2, RecursionDefines
    <3> QED
      BY <3>1 DEF Recursions
  <2>2. ASSUME NEW k \in 0..n PROVE f[k] = Step(f, k)
    <3>1. k # 0 => k \in 1..n /\ f[k - 1] \in OledRead
      BY <1>1
    <3> QED
      BY <2>1, <3>1
  <2>3. f = [k \in 0..n |-> f[k]]
    BY <2>1
  <2>4. Loop(f)
    BY <2>2, <2>3
  <2> QED
    BY <2>4
<1>4. Loop(after)
  BY <1>3
<1>5. OledConfig_parse(lines) = after[n]
  BY DEF OledConfig_parse
<1> HIDE DEF after
<1>6. \A k \in 0..n : after[k] = Step(after, k)
  BY <1>4
<1>7. \A k \in 0..n : after[k] \in OledRead
  <2>1. after[0] \in OledRead
    <3>1. 0 \in 0..n
      BY <1>1
    <3> QED
      BY <1>1, <1>6, <3>1
  <2>2. ASSUME NEW k \in 1..n, after[k - 1] \in OledRead PROVE after[k] \in OledRead
    <3>1. k \in 0..n /\ k # 0
      BY <1>1
    <3> QED
      BY <1>1, <1>6, <2>2, <3>1, OledLineTyped
  <2> QED
    BY <1>1, <2>1, <2>2, LoopKeeps
<1>8. after \in [0..n -> OledRead]
  BY <1>4, <1>7
<1>9. after[0] = oled_default /\ \A k \in 1..n : after[k] = oled_line(after[k - 1], lines[k])
  BY <1>1, <1>6
<1> QED
  BY <1>5, <1>8, <1>9

RtcRead == [enabled : Text, wake : Text, sleep : Text]

entry_of(cfg, kind) == IF cfg[kind] = "bad" THEN <<>> ELSE <<[kind |-> kind, at |-> cfg[kind]]>>
Schedule(cfg) == [enabled |-> cfg.enabled, entries |-> entry_of(cfg, "wake") \o entry_of(cfg, "sleep")]

LEMMA RtcLineTyped ==
  ASSUME NEW cfg \in RtcRead, NEW x \in Line
  PROVE  rtc_line(cfg, x) \in RtcRead
<1>1. x.key \in STRING /\ x.value \in STRING
  BY LinesAssumption
<1>2. truth(x.value) \in Text /\ x.value \in Text
  BY <1>1 DEF truth, Text
<1>3. CASE x.key \in {"wake", "sleep"}
  BY <1>2, <1>3 DEF rtc_line, RtcRead
<1>4. CASE x.key \notin {"wake", "sleep"}
  BY <1>2, <1>4 DEF rtc_line, RtcRead
<1> QED
  BY <1>3, <1>4

LEMMA RtcReads ==
  ASSUME NEW lines \in Seq(Line)
  PROVE  \E after \in [0..Len(lines) -> RtcRead] :
           /\ after[0] = rtc_default
           /\ \A k \in 1..Len(lines) : after[k] = rtc_line(after[k - 1], lines[k])
           /\ RtcSchedule_parse(lines) = Schedule(after[Len(lines)])
<1> DEFINE n == Len(lines)
           Step(f, k) == IF k = 0 THEN rtc_default ELSE rtc_line(f[k - 1], lines[k])
           Loop(f) == f = [k \in 0..Len(lines) |-> IF k = 0 THEN rtc_default ELSE rtc_line(f[k - 1], lines[k])]
           F == [k \in 1..n |-> [cfg \in RtcRead |-> rtc_line(cfg, lines[k])]]
           after == CHOOSE f : Loop(f)
<1>0. rtc_default \in RtcRead
  BY DEF rtc_default, RtcRead, Text
<1>1. n \in Nat /\ rtc_default \in RtcRead /\ \A k \in 1..n : lines[k] \in Line
  BY <1>0
<1>2. F \in [1..n -> [RtcRead -> RtcRead]]
  BY <1>1, RtcLineTyped
<1>3. \E f : Loop(f)
  <2>1. PICK f \in [0..n -> RtcRead] : \A k \in 0..n : f[k] = IF k = 0 THEN rtc_default ELSE F[k][f[k - 1]]
    <3> HIDE DEF n, F
    <3>1. Recursions(n, RtcRead, rtc_default, F) # {}
      BY <1>1, <1>2, RecursionDefines
    <3> QED
      BY <3>1 DEF Recursions
  <2>2. ASSUME NEW k \in 0..n PROVE f[k] = Step(f, k)
    <3>1. k # 0 => k \in 1..n /\ f[k - 1] \in RtcRead
      BY <1>1
    <3> QED
      BY <2>1, <3>1
  <2>3. f = [k \in 0..n |-> f[k]]
    BY <2>1
  <2>4. Loop(f)
    BY <2>2, <2>3
  <2> QED
    BY <2>4
<1>4. Loop(after)
  BY <1>3
<1>5. RtcSchedule_parse(lines) = Schedule(after[n])
  BY DEF RtcSchedule_parse, Schedule, entry_of
<1> HIDE DEF after
<1>6. \A k \in 0..n : after[k] = Step(after, k)
  BY <1>4
<1>7. \A k \in 0..n : after[k] \in RtcRead
  <2>1. after[0] \in RtcRead
    <3>1. 0 \in 0..n
      BY <1>1
    <3> QED
      BY <1>1, <1>6, <3>1
  <2>2. ASSUME NEW k \in 1..n, after[k - 1] \in RtcRead PROVE after[k] \in RtcRead
    <3>1. k \in 0..n /\ k # 0
      BY <1>1
    <3> QED
      BY <1>1, <1>6, <2>2, <3>1, RtcLineTyped
  <2> QED
    BY <1>1, <2>1, <2>2, LoopKeeps
<1>8. after \in [0..n -> RtcRead]
  BY <1>4, <1>7
<1>9. after[0] = rtc_default /\ \A k \in 1..n : after[k] = rtc_line(after[k - 1], lines[k])
  BY <1>1, <1>6
<1> QED
  BY <1>5, <1>8, <1>9

(* Which line decides, for each of the settings. *)
LEMMA OledDecided ==
  ASSUME contents \in Seq(Line)
  PROVE  LET oled == OledConfig_parse(contents)
         IN  /\ oled.switchduration = LastOf("switchduration", Good, oled_default.switchduration)
             /\ oled.screensaver = LastOf("screensaver", Good, oled_default.screensaver)
             /\ oled.screenlist = LastOf("screenlist", Whatever, oled_default.screenlist)
             /\ oled.enabled = IF Of("enabled", Whatever) = {} THEN "on"
                              ELSE truth(contents[Max(Of("enabled", Whatever))].value)
<1> DEFINE n == Len(contents)
           said == [k \in 1..n |-> contents[k].value]
           yes  == [k \in 1..n |-> truth(contents[k].value)]
<1>1. PICK after \in [0..n -> OledRead] :
        /\ after[0] = oled_default
        /\ \A k \in 1..n : after[k] = oled_line(after[k - 1], contents[k])
        /\ OledConfig_parse(contents) = after[n]
  BY OledReads
<1>2. n \in Nat /\ DOMAIN contents = 1..n
  OBVIOUS
<1>3. ASSUME NEW k \in 1..n PROVE after[k - 1] \in OledRead /\ after[k] = oled_line(after[k - 1], contents[k])
  BY <1>1, <1>2
<1>4. after[n].switchduration = LastOf("switchduration", Good, oled_default.switchduration)
  <2> DEFINE H == Of("switchduration", Good)
  <2>1. H \in SUBSET (1..n)
    BY <1>2 DEF Of
  <2>2. ASSUME NEW k \in 1..n PROVE after[k].switchduration = IF k \in H THEN said[k] ELSE after[k - 1].switchduration
    BY <1>2, <1>3 DEF Of, Good, oled_line, keep, OledRead
  <2>3. Decided(n, after, "switchduration", said, H)
    BY <2>2 DEF Decided
  <2> HIDE DEF H, said
  <2>4. after[n].switchduration = IF H = {} THEN after[0].switchduration ELSE said[Max(H)]
    BY <1>2, <2>1, <2>3, LastDecides
  <2>5. H # {} => Max(H) \in 1..n
    BY <1>2, <2>1, LastIsThere
  <2> QED
    BY <1>1, <1>2, <2>4, <2>5 DEF H, said, LastOf
<1>5. after[n].screensaver = LastOf("screensaver", Good, oled_default.screensaver)
  <2> DEFINE H == Of("screensaver", Good)
  <2>1. H \in SUBSET (1..n)
    BY <1>2 DEF Of
  <2>2. ASSUME NEW k \in 1..n PROVE after[k].screensaver = IF k \in H THEN said[k] ELSE after[k - 1].screensaver
    BY <1>2, <1>3 DEF Of, Good, oled_line, keep, OledRead
  <2>3. Decided(n, after, "screensaver", said, H)
    BY <2>2 DEF Decided
  <2> HIDE DEF H, said
  <2>4. after[n].screensaver = IF H = {} THEN after[0].screensaver ELSE said[Max(H)]
    BY <1>2, <2>1, <2>3, LastDecides
  <2>5. H # {} => Max(H) \in 1..n
    BY <1>2, <2>1, LastIsThere
  <2> QED
    BY <1>1, <1>2, <2>4, <2>5 DEF H, said, LastOf
<1>6. after[n].screenlist = LastOf("screenlist", Whatever, oled_default.screenlist)
  <2> DEFINE H == Of("screenlist", Whatever)
  <2>1. H \in SUBSET (1..n)
    BY <1>2 DEF Of
  <2>2. ASSUME NEW k \in 1..n PROVE after[k].screenlist = IF k \in H THEN said[k] ELSE after[k - 1].screenlist
    BY <1>2, <1>3 DEF Of, Whatever, oled_line, keep, OledRead
  <2>3. Decided(n, after, "screenlist", said, H)
    BY <2>2 DEF Decided
  <2> HIDE DEF H, said
  <2>4. after[n].screenlist = IF H = {} THEN after[0].screenlist ELSE said[Max(H)]
    BY <1>2, <2>1, <2>3, LastDecides
  <2>5. H # {} => Max(H) \in 1..n
    BY <1>2, <2>1, LastIsThere
  <2> QED
    BY <1>1, <1>2, <2>4, <2>5 DEF H, said, LastOf
<1>7. after[n].enabled = IF Of("enabled", Whatever) = {} THEN "on"
                         ELSE truth(contents[Max(Of("enabled", Whatever))].value)
  <2> DEFINE H == Of("enabled", Whatever)
  <2>1. H \in SUBSET (1..n)
    BY <1>2 DEF Of
  <2>2. ASSUME NEW k \in 1..n PROVE after[k].enabled = IF k \in H THEN yes[k] ELSE after[k - 1].enabled
    BY <1>2, <1>3 DEF Of, Whatever, oled_line, keep, OledRead
  <2>3. Decided(n, after, "enabled", yes, H)
    BY <2>2 DEF Decided
  <2> HIDE DEF H, yes
  <2>4. after[n].enabled = IF H = {} THEN after[0].enabled ELSE yes[Max(H)]
    BY <1>2, <2>1, <2>3, LastDecides
  <2>5. H # {} => Max(H) \in 1..n
    BY <1>2, <2>1, LastIsThere
  <2>6. oled_default.enabled = "on"
    BY DEF oled_default
  <2> QED
    BY <1>1, <1>2, <2>4, <2>5, <2>6 DEF H, yes
<1> QED
  BY <1>1, <1>4, <1>5, <1>6, <1>7

LEMMA RtcDecided ==
  ASSUME contents \in Seq(Line)
  PROVE  \E cfg \in RtcRead :
           /\ RtcSchedule_parse(contents) = Schedule(cfg)
           /\ cfg.wake = LastOf("wake", Whatever, "bad")
           /\ cfg.sleep = LastOf("sleep", Whatever, "bad")
           /\ cfg.enabled = IF Of("enabled", Whatever) = {} THEN "off"
                            ELSE truth(contents[Max(Of("enabled", Whatever))].value)
<1> DEFINE n == Len(contents)
           said == [k \in 1..n |-> contents[k].value]
           yes  == [k \in 1..n |-> truth(contents[k].value)]
<1>1. PICK after \in [0..n -> RtcRead] :
        /\ after[0] = rtc_default
        /\ \A k \in 1..n : after[k] = rtc_line(after[k - 1], contents[k])
        /\ RtcSchedule_parse(contents) = Schedule(after[n])
  BY RtcReads
<1>2. n \in Nat /\ DOMAIN contents = 1..n
  OBVIOUS
<1>3. ASSUME NEW k \in 1..n PROVE after[k - 1] \in RtcRead /\ after[k] = rtc_line(after[k - 1], contents[k])
  BY <1>1, <1>2
<1>4. after[n].wake = LastOf("wake", Whatever, "bad")
  <2> DEFINE H == Of("wake", Whatever)
  <2>1. H \in SUBSET (1..n)
    BY <1>2 DEF Of
  <2>2. ASSUME NEW k \in 1..n PROVE after[k].wake = IF k \in H THEN said[k] ELSE after[k - 1].wake
    BY <1>2, <1>3 DEF Of, Whatever, rtc_line, RtcRead
  <2>3. Decided(n, after, "wake", said, H)
    BY <2>2 DEF Decided
  <2> HIDE DEF H, said
  <2>4. after[n].wake = IF H = {} THEN after[0].wake ELSE said[Max(H)]
    BY <1>2, <2>1, <2>3, LastDecides
  <2>5. H # {} => Max(H) \in 1..n
    BY <1>2, <2>1, LastIsThere
  <2> QED
    BY <1>1, <1>2, <2>4, <2>5 DEF H, said, LastOf, rtc_default
<1>5. after[n].sleep = LastOf("sleep", Whatever, "bad")
  <2> DEFINE H == Of("sleep", Whatever)
  <2>1. H \in SUBSET (1..n)
    BY <1>2 DEF Of
  <2>2. ASSUME NEW k \in 1..n PROVE after[k].sleep = IF k \in H THEN said[k] ELSE after[k - 1].sleep
    BY <1>2, <1>3 DEF Of, Whatever, rtc_line, RtcRead
  <2>3. Decided(n, after, "sleep", said, H)
    BY <2>2 DEF Decided
  <2> HIDE DEF H, said
  <2>4. after[n].sleep = IF H = {} THEN after[0].sleep ELSE said[Max(H)]
    BY <1>2, <2>1, <2>3, LastDecides
  <2>5. H # {} => Max(H) \in 1..n
    BY <1>2, <2>1, LastIsThere
  <2> QED
    BY <1>1, <1>2, <2>4, <2>5 DEF H, said, LastOf, rtc_default
<1>6. after[n].enabled = IF Of("enabled", Whatever) = {} THEN "off"
                         ELSE truth(contents[Max(Of("enabled", Whatever))].value)
  <2> DEFINE H == Of("enabled", Whatever)
  <2>1. H \in SUBSET (1..n)
    BY <1>2 DEF Of
  <2>2. ASSUME NEW k \in 1..n PROVE after[k].enabled = IF k \in H THEN yes[k] ELSE after[k - 1].enabled
    BY <1>2, <1>3 DEF Of, Whatever, rtc_line, RtcRead
  <2>3. Decided(n, after, "enabled", yes, H)
    BY <2>2 DEF Decided
  <2> HIDE DEF H, yes
  <2>4. after[n].enabled = IF H = {} THEN after[0].enabled ELSE yes[Max(H)]
    BY <1>2, <2>1, <2>3, LastDecides
  <2>5. H # {} => Max(H) \in 1..n
    BY <1>2, <2>1, LastIsThere
  <2> QED
    BY <1>1, <1>2, <2>4, <2>5 DEF H, yes, rtc_default
<1>7. after[n] \in RtcRead
  BY <1>1, <1>2
<1> QED
  BY <1>1, <1>4, <1>5, <1>6, <1>7

(* A switch is on if its last line says so, and without one as it is set. *)
LEMMA SwitchDecided ==
  ASSUME contents \in Seq(Line)
  PROVE  /\ OledConfig_parse(contents).enabled = "on"
              <=> LastOf("enabled", Whatever, "Y") \in {"Y", "y", "1", "true"}
         /\ RtcSchedule_parse(contents).enabled = "on"
              <=> LastOf("enabled", Whatever, "N") \in {"Y", "y", "1", "true"}
<1> DEFINE H == Of("enabled", Whatever)
<1>1. OledConfig_parse(contents).enabled = IF H = {} THEN "on" ELSE truth(contents[Max(H)].value)
  BY OledDecided
<1>2. RtcSchedule_parse(contents).enabled = IF H = {} THEN "off" ELSE truth(contents[Max(H)].value)
  BY RtcDecided DEF Schedule
<1>3. \A otherwise : LastOf("enabled", Whatever, otherwise) = IF H = {} THEN otherwise ELSE contents[Max(H)].value
  BY DEF LastOf
<1> HIDE DEF H
<1>4. CASE H = {}
  BY <1>1, <1>2, <1>3, <1>4
<1>5. CASE H # {}
  BY <1>1, <1>2, <1>3, <1>5 DEF truth
<1> QED
  BY <1>4, <1>5

LEMMA Joined ==
  ASSUME NEW S, NEW a \in S, NEW b \in S
  PROVE  <<a>> \o <<>> = <<a>> /\ <<>> \o <<b>> = <<b>> /\ <<a>> \o <<b>> = <<a, b>>
<1>1. <<a>> \in Seq(S) /\ <<b>> \in Seq(S)
  OBVIOUS
<1>2. <<a>> \o <<>> = <<a>> /\ <<>> \o <<b>> = <<b>>
  BY <1>1, ConcatEmptySeq
<1>3. <<a>> \o <<b>> = <<a, b>>
  <2> DEFINE s == <<a>>
             r == <<b>>
             u == <<a, b>>
  <2>1. /\ s \in Seq(S) /\ Len(s) = 1 /\ s[1] = a
        /\ r \in Seq(S) /\ Len(r) = 1 /\ r[1] = b
    OBVIOUS
  <2>2. u \in Seq(S) /\ Len(u) = 2 /\ u[1] = a /\ u[2] = b
    OBVIOUS
  <2> HIDE DEF s, r, u
  <2>3. /\ s \o r \in Seq(S) /\ Len(s \o r) = 2
        /\ \A i \in 1..2 : (s \o r)[i] = IF i <= 1 THEN s[i] ELSE r[i - 1]
    BY <2>1, ConcatProperties
  <2>4. \A i \in 1..2 : (s \o r)[i] = u[i]
    BY <2>1, <2>2, <2>3
  <2>5. s \o r = u
    BY <2>2, <2>3, <2>4, SeqEqual
  <2> QED
    BY <2>5 DEF s, r, u
<1> QED
  BY <1>2, <1>3

(* The entries of the schedule are the times that parse, wake before sleep. *)
LEMMA EntriesDecided ==
  ASSUME NEW cfg \in RtcRead,
         NEW at, at = [kind \in {"wake", "sleep"} |-> cfg[kind]]
  PROVE  LET entries == Schedule(cfg).entries
         IN  /\ { <<e.kind, e.at>> : e \in Range(entries) }
                  = { <<k, at[k]>> : k \in { m \in DOMAIN at : at[m] # "bad" } }
             /\ Len(entries) = 2 => entries[1].kind = "wake"
<1> DEFINE wake  == [kind |-> "wake", at |-> cfg.wake]
           sleep == [kind |-> "sleep", at |-> cfg.sleep]
           entries == Schedule(cfg).entries
           told == { <<e.kind, e.at>> : e \in Range(entries) }
           kept == { <<k, at[k]>> : k \in { m \in DOMAIN at : at[m] # "bad" } }
<1>1. CASE cfg.wake = "bad" /\ cfg.sleep = "bad"
  <2>1. entries = <<>>
    BY <1>1 DEF Schedule, entry_of
  <2> QED
    BY <1>1, <2>1 DEF Range
<1>2. CASE cfg.wake # "bad" /\ cfg.sleep = "bad"
  <2>1. entries = <<wake>>
    <3>1. entries = <<wake>> \o <<>>
      BY <1>2 DEF Schedule, entry_of
    <3>2. wake \in {wake, sleep} /\ sleep \in {wake, sleep}
      OBVIOUS
    <3> HIDE DEF wake, sleep, entries
    <3> QED
      BY <3>1, <3>2, Joined
  <2>2. Range(entries) = {wake}
    BY <2>1 DEF Range
  <2> QED
    BY <1>2, <2>1, <2>2
<1>3. CASE cfg.wake = "bad" /\ cfg.sleep # "bad"
  <2>1. entries = <<sleep>>
    <3>1. entries = <<>> \o <<sleep>>
      BY <1>3 DEF Schedule, entry_of
    <3>2. wake \in {wake, sleep} /\ sleep \in {wake, sleep}
      OBVIOUS
    <3> HIDE DEF wake, sleep, entries
    <3> QED
      BY <3>1, <3>2, Joined
  <2>2. Range(entries) = {sleep}
    BY <2>1 DEF Range
  <2> QED
    BY <1>3, <2>1, <2>2
<1>4. CASE cfg.wake # "bad" /\ cfg.sleep # "bad"
  <2>1. entries = <<wake, sleep>>
    <3>1. entries = <<wake>> \o <<sleep>>
      BY <1>4 DEF Schedule, entry_of
    <3>2. wake \in {wake, sleep} /\ sleep \in {wake, sleep}
      OBVIOUS
    <3> HIDE DEF wake, sleep, entries
    <3> QED
      BY <3>1, <3>2, Joined
  <2>2. Range(entries) = {wake, sleep}
    BY <2>1 DEF Range
  <2>3. told = {<<"wake", cfg.wake>>, <<"sleep", cfg.sleep>>}
    BY <2>2
  <2>4. { m \in DOMAIN at : at[m] # "bad" } = {"wake", "sleep"}
    BY <1>4
  <2>5. kept = {<<"wake", cfg.wake>>, <<"sleep", cfg.sleep>>}
    BY <2>4
  <2>6. entries[1].kind = "wake"
    BY <2>1
  <2> QED
    BY <2>3, <2>5, <2>6
<1> QED
  BY <1>1, <1>2, <1>3, <1>4

(* The unit is what the first line for it says. *)
LEMMA UnitDecided ==
  ASSUME contents \in Seq(Line)
  PROVE  TempUnit_parse(contents) = "F"
           <=> /\ Of("temperature", Whatever) # {}
               /\ contents[Min(Of("temperature", Whatever))].value \in {"F", "f"}
<1> DEFINE H == Of("temperature", Whatever)
           i == IF H # {} THEN Min(H) ELSE 0
<1>1. H = { k \in 1..Len(contents) : contents[k].key = "temperature" }
  BY DEF Of, Whatever
<1>2. TempUnit_parse(contents) = IF i # 0 /\ contents[i].value \in {"F", "f"} THEN "F" ELSE "C"
  BY <1>1 DEF TempUnit_parse, SelectInSeq
<1>3. H # {} => Min(H) \in H
  <2>1. H \in SUBSET Nat
    BY <1>1
  <2>2. H # {} => \E n \in H : \A m \in H : n <= m
    BY <2>1, LeastElement
  <2> QED
    BY <2>2 DEF Min
<1>4. \A k \in H : k # 0
  BY <1>1
<1>5. CASE H = {}
  BY <1>2, <1>5
<1>6. CASE H # {}
  <2>1. i = Min(H) /\ i # 0
    BY <1>3, <1>4, <1>6
  <2> QED
    BY <1>2, <1>6, <2>1
<1> QED
  BY <1>5, <1>6

ContentsTyped == contents \in Seq(Line)

LEMMA LinesDecide == contents \in Seq(Line) => SameLinesCount
<1> SUFFICES ASSUME contents \in Seq(Line) PROVE SameLinesCount
  OBVIOUS
<1>1. PICK cfg \in RtcRead : /\ RtcSchedule_parse(contents) = Schedule(cfg)
                             /\ cfg.wake = LastOf("wake", Whatever, "bad")
                             /\ cfg.sleep = LastOf("sleep", Whatever, "bad")
  BY RtcDecided
<1> DEFINE rtc  == RtcSchedule_parse(contents)
           oled == OledConfig_parse(contents)
           at == [kind \in {"wake", "sleep"} |-> LastOf(kind, Whatever, "bad")]
<1>2. at = [kind \in {"wake", "sleep"} |-> cfg[kind]]
  BY <1>1
<1>3. rtc.entries = Schedule(cfg).entries
  BY <1>1
<1>4. \A name \in {"switchduration", "screensaver"} : oled[name] = LastOf(name, Good, oled_default[name])
  BY OledDecided
<1>5. oled.screenlist = LastOf("screenlist", Whatever, oled_default.screenlist)
  BY OledDecided
<1> HIDE DEF at
<1>6. /\ { <<e.kind, e.at>> : e \in Range(rtc.entries) }
           = { <<k, at[k]>> : k \in { m \in DOMAIN at : at[m] # "bad" } }
      /\ Len(rtc.entries) = 2 => rtc.entries[1].kind = "wake"
  <2> DEFINE entries == Schedule(cfg).entries
  <2>1. /\ { <<e.kind, e.at>> : e \in Range(entries) }
             = { <<k, at[k]>> : k \in { m \in DOMAIN at : at[m] # "bad" } }
        /\ Len(entries) = 2 => entries[1].kind = "wake"
    <3> HIDE DEF rtc
    <3> QED
      BY <1>2, EntriesDecided
  <2>2. rtc.entries = entries
    BY <1>3
  <2> HIDE DEF rtc, entries
  <2> QED
    BY <2>1, <2>2
<1> QED
  BY <1>4, <1>5, <1>6, SwitchDecided, UnitDecided DEF SameLinesCount, at

-----------------------------------------------------------------------------
(* Settings: the types that the argument needs.                            *)
RowsTyped ==
  /\ main \in Rows /\ wal \in Rows /\ staged \in Rows /\ expected \in Rows
  /\ backup \in Rows \cup {None}
  /\ importing \in [left : Seq(Key), absent : BOOLEAN]
  /\ restoring \in [at : {"idle", "staged", "renamed"}, quiet : BOOLEAN]
  /\ importing.absent => importing.left # <<>>
  /\ excused \subseteq Key

(* What import saw, and has yet to write, still holds, or is excused.      *)
LookedTrue ==
  importing.absent =>
    LET k == Head(importing.left)
    IN  Legacy[k] # None /\ (k \notin excused => expected[k] = None)

(* A restore of a daemon that stays down finds what it put there.          *)
QuietRestore ==
  /\ importing = no_import \/ restoring = no_restore
  /\ restoring # no_restore /\ restoring.quiet => daemon = "down"
  /\ restoring.at = "renamed" => main = expected \/ ~restoring.quiet

SettingsInv == RowsTyped /\ LookedTrue /\ QuietRestore /\ LastWriteCounts

(* What import has left is an end of its list. *)
LeftTyped == importing.left \in Suffixes(Order) /\ daemon \in {"down", "up", "stale"}

LEMMA NothingLeft == ASSUME NEW S, NEW s \in Seq(S), Len(s) = 0 PROVE s = <<>>
OBVIOUS

LEMMA TailIsSuffix ==
  ASSUME NEW S, NEW s \in Seq(S), NEW left \in Suffixes(s), left # <<>>
  PROVE  Tail(left) \in Suffixes(s)
<1>1. PICK l \in 1..Len(s) : left = SubSeq(s, l, Len(s))
  BY DEF Suffixes
<1>2. CASE l = Len(s)
  <2>1. Len(left) = 1 /\ left \in Seq(S)
    BY <1>1, <1>2
  <2>2. Tail(left) \in Seq(S) /\ Len(Tail(left)) = 0
    BY <2>1
  <2>3. Tail(left) = <<>>
    BY <2>2, NothingLeft
  <2> QED
    BY <2>3 DEF Suffixes
<1>3. CASE l < Len(s)
  <2>1. l + 1 \in 1..Len(s)
    BY <1>3
  <2>2. Tail(left) = SubSeq(s, l + 1, Len(s))
    BY <1>1, <1>3
  <2> QED
    BY <2>1, <2>2 DEF Suffixes
<1> QED
  BY <1>1, <1>2, <1>3

LEMMA LeftTypedStep == RowsTyped /\ LeftTyped /\ [SettingsNext]_settings_vars => LeftTyped'
<1> SUFFICES ASSUME RowsTyped, LeftTyped, [SettingsNext]_settings_vars PROVE LeftTyped'
  OBVIOUS
<1>t. Order \in Seq(Key) /\ importing \in [left : Seq(Key), absent : BOOLEAN]
  BY SettingsAssumption DEF RowsTyped
<1>1. daemon' \in {"down", "up", "stale"}
  BY DEF LeftTyped, SettingsNext, settings_vars, log, admin, save, Checkpoint, Stop, StartUp, import_legacy_config,
         setting_exists, set_setting_raw, make_backup, restore, Rename, RemoveSidecars, Killed
<1>2. CASE import_legacy_config
  <2>1. importing'.left = Order
    BY <1>2 DEF import_legacy_config
  <2>2. Order \in Suffixes(Order)
    <3>1. CASE Order = <<>>
      BY <3>1 DEF Suffixes
    <3>2. CASE Order # <<>>
      <4>1. 1 \in 1..Len(Order) /\ Order = SubSeq(Order, 1, Len(Order))
        BY <1>t, <3>2
      <4> QED
        BY <4>1 DEF Suffixes
    <3> QED
      BY <3>1, <3>2
  <2> QED
    BY <1>1, <2>1, <2>2 DEF LeftTyped
<1>3. CASE setting_exists
  <2>1. importing'.left \in {importing.left, Tail(importing.left)} /\ importing.left # <<>>
    BY <1>t, <1>3 DEF setting_exists
  <2> QED
    BY <1>t, <1>1, <2>1, TailIsSuffix DEF LeftTyped
<1>4. CASE set_setting_raw
  <2>1. importing'.left = Tail(importing.left) /\ importing.left # <<>>
    BY <1>4 DEF set_setting_raw, RowsTyped
  <2> QED
    BY <1>t, <1>1, <2>1, TailIsSuffix DEF LeftTyped
<1>5. CASE Killed
  BY <1>1, <1>5 DEF Killed, no_import, LeftTyped, Suffixes
<1>6. CASE UNCHANGED importing
  BY <1>1, <1>6 DEF LeftTyped
<1> QED
  BY <1>2, <1>3, <1>4, <1>5, <1>6
     DEF SettingsNext, settings_vars, log, admin, save, Checkpoint, Stop, StartUp, make_backup, restore, Rename,
         RemoveSidecars

LEMMA LegacyStored == \A k \in Key : Legacy[k] \in Stored
  BY SettingsAssumption DEF Stored, Range

LEMMA HeadIsKey == RowsTyped /\ importing.left # <<>> => Head(importing.left) \in Key /\ Tail(importing.left) \in Seq(Key)
  BY DEF RowsTyped

LEMMA VisibleTyped == RowsTyped => visible \in Rows
  BY DEF RowsTyped, visible, Rows

LEMMA SettingsInvInit == SettingsInit => SettingsInv
<1> SUFFICES ASSUME SettingsInit PROVE SettingsInv
  OBVIOUS
<1>1. Empty \in Rows
  BY DEF Empty, Rows, Stored
<1>2. RowsTyped
  BY <1>1 DEF SettingsInit, RowsTyped, no_import, no_restore
<1>3. LastWriteCounts
  BY DEF SettingsInit, LastWriteCounts, visible, Empty
<1> QED
  BY <1>2, <1>3 DEF SettingsInit, SettingsInv, LookedTrue, QuietRestore, no_import, no_restore

LEMMA SaveKeeps == ASSUME SettingsInv, NEW k \in Key, NEW v \in Edit, save(k, v) PROVE SettingsInv'
<1>0. v \in Stored /\ v # None
  BY SettingsAssumption DEF Stored
<1>t. wal \in Rows /\ expected \in Rows
  BY DEF SettingsInv, RowsTyped
<1>1. /\ expected' = [expected EXCEPT ![k] = v]
      /\ excused' = IF daemon = "stale" \/ Looked(k) THEN excused \cup {k} ELSE excused \ {k}
      /\ UNCHANGED <<main, daemon, importing, restoring, staged, backup>>
      /\ daemon # "down"
      /\ wal' = [wal EXCEPT ![k] = v] \/ (daemon = "stale" /\ wal' = wal)
  BY DEF save, admin
<1>2. RowsTyped'
  BY <1>0, <1>1, <1>t DEF SettingsInv, RowsTyped, Rows
<1>3. LastWriteCounts'
  <2>1. ASSUME NEW j \in Key, j \notin excused' PROVE visible'[j] = expected'[j]
    <3>1. CASE j = k
      BY <1>0, <1>1, <1>t, <2>1, <3>1 DEF visible, Rows
    <3>2. CASE j # k
      <4>1. j \notin excused /\ expected'[j] = expected[j] /\ wal'[j] = wal[j] /\ main'[j] = main[j]
        BY <1>1, <1>t, <2>1, <3>2 DEF Rows
      <4> QED
        BY <4>1 DEF SettingsInv, LastWriteCounts, visible
    <3> QED
      BY <3>1, <3>2
  <2> QED
    BY <2>1 DEF LastWriteCounts
<1>4. LookedTrue'
  BY <1>1, <1>t DEF SettingsInv, LookedTrue, Looked, Rows
<1>5. QuietRestore'
  <2>1. restoring.at = "renamed" => ~restoring.quiet
    BY <1>1 DEF SettingsInv, QuietRestore, no_restore
  <2> QED
    BY <1>1, <2>1 DEF SettingsInv, QuietRestore
<1> QED
  BY <1>2, <1>3, <1>4, <1>5 DEF SettingsInv

LEMMA ImportKeeps ==
  ASSUME SettingsInv, import_legacy_config \/ setting_exists \/ set_setting_raw PROVE SettingsInv'
<1>t. RowsTyped
  BY DEF SettingsInv
<1>1. CASE import_legacy_config
  <2>1. importing' = [left |-> Order, absent |-> FALSE] /\ restoring = no_restore
    BY <1>1 DEF import_legacy_config, idle
  <2>2. RowsTyped'
    BY <1>1, <1>t, <2>1, SettingsAssumption DEF import_legacy_config, log, RowsTyped
  <2> QED
    BY <1>1, <2>1, <2>2 DEF import_legacy_config, log, SettingsInv, LookedTrue, QuietRestore, LastWriteCounts, visible, no_restore
<1>2. CASE setting_exists
  <2> DEFINE k == Head(importing.left)
  <2>1. /\ importing.left # <<>> /\ ~importing.absent
        /\ importing' = IF importable(k) THEN [importing EXCEPT !.absent = TRUE]
                                         ELSE [importing EXCEPT !.left = Tail(importing.left)]
        /\ UNCHANGED <<main, wal, daemon, restoring, staged, backup, expected, excused>>
    BY <1>2 DEF setting_exists, log
  <2>2. k \in Key /\ Tail(importing.left) \in Seq(Key)
    BY <1>t, <2>1, HeadIsKey
  <2> HIDE DEF k
  <2>3. importing' \in [left : Seq(Key), absent : BOOLEAN] /\ (importing'.absent => importing'.left = importing.left /\ importable(k))
    BY <1>t, <2>1, <2>2 DEF RowsTyped
  <2>4. RowsTyped' /\ LastWriteCounts'
    BY <1>t, <2>1, <2>3 DEF RowsTyped, SettingsInv, LastWriteCounts, visible
  <2>5. LookedTrue'
    BY <2>1, <2>2, <2>3 DEF k, SettingsInv, LookedTrue, importable, LastWriteCounts
  <2>6. QuietRestore'
    BY <2>1 DEF SettingsInv, QuietRestore, no_import
  <2> QED
    BY <2>4, <2>5, <2>6 DEF SettingsInv
<1>3. CASE set_setting_raw
  <2> DEFINE k == Head(importing.left)
  <2>1. /\ importing.absent /\ importing' = [left |-> Tail(importing.left), absent |-> FALSE]
        /\ UNCHANGED <<main, daemon, restoring, staged, backup, excused>>
        /\ \/ /\ wal' = [wal EXCEPT ![k] = Legacy[k]]
              /\ expected' = IF expected[k] = None THEN [expected EXCEPT ![k] = Legacy[k]] ELSE expected
           \/ UNCHANGED <<wal, expected>>
    BY <1>3 DEF set_setting_raw, imported
  <2>2. k \in Key /\ Tail(importing.left) \in Seq(Key)
    BY <1>t, <2>1, HeadIsKey DEF RowsTyped
  <2>3. Legacy[k] \in Stored /\ Legacy[k] # None /\ (k \notin excused => expected[k] = None)
    BY <2>1, <2>2, LegacyStored DEF SettingsInv, LookedTrue
  <2> HIDE DEF k
  <2>4. RowsTyped'
    BY <1>t, <2>1, <2>2, <2>3 DEF RowsTyped, Rows
  <2>5. LastWriteCounts'
    <3>1. ASSUME NEW j \in Key, j \notin excused PROVE visible'[j] = expected'[j]
      <4>1. visible[j] = expected[j]
        BY <3>1 DEF SettingsInv, LastWriteCounts
      <4>2. CASE j = k
        BY <1>t, <2>1, <2>2, <2>3, <3>1, <4>1, <4>2 DEF visible, RowsTyped, Rows
      <4>3. CASE j # k
        BY <1>t, <2>1, <2>2, <3>1, <4>1, <4>3 DEF visible, RowsTyped, Rows
      <4> QED
        BY <4>2, <4>3
    <3> QED
      BY <2>1, <3>1 DEF LastWriteCounts
  <2>6. restoring = no_restore
    BY <2>1 DEF SettingsInv, QuietRestore, no_import
  <2> QED
    BY <2>1, <2>4, <2>5, <2>6 DEF SettingsInv, LookedTrue, QuietRestore, no_restore
<1> QED
  BY <1>1, <1>2, <1>3

LEMMA RestoreKeeps == ASSUME SettingsInv, restore \/ Rename \/ RemoveSidecars \/ Killed PROVE SettingsInv'
<1>t. RowsTyped
  BY DEF SettingsInv
<1>1. CASE restore
  <2>1. RowsTyped'
    BY <1>1, <1>t DEF restore, idle, log, RowsTyped
  <2> QED
    BY <1>1, <2>1 DEF restore, idle, log, no_import, no_restore, SettingsInv, LookedTrue, QuietRestore, LastWriteCounts, visible
<1>2. CASE Rename
  <2>1. importing = no_import
    BY <1>2 DEF Rename, SettingsInv, QuietRestore, no_restore
  <2>2. Empty \in Rows
    BY DEF Empty, Rows, Stored
  <2>3. RowsTyped'
    BY <1>2, <1>t, <2>2 DEF Rename, RowsTyped
  <2>4. restoring # no_restore /\ restoring'.quiet = restoring.quiet
    BY <1>2, <1>t DEF Rename, no_restore, RowsTyped
  <2>5. QuietRestore'
    BY <1>2, <2>1, <2>4 DEF Rename, SettingsInv, QuietRestore
  <2> QED
    BY <1>2, <2>1, <2>3, <2>5 DEF Rename, no_import, SettingsInv, LookedTrue, LastWriteCounts
<1>3. CASE RemoveSidecars
  <2>1. importing = no_import
    BY <1>3 DEF RemoveSidecars, SettingsInv, QuietRestore, no_restore
  <2>2. wal' = Empty /\ Empty \in Rows
    BY <1>3 DEF RemoveSidecars, DropLog, Empty, Rows, Stored
  <2>3. RowsTyped'
    BY <1>3, <1>t, <2>2 DEF RemoveSidecars, RowsTyped, no_restore
  <2>4. visible' = main
    BY <1>3, <1>t, <2>2 DEF RemoveSidecars, visible, Empty, RowsTyped, Rows
  <2>5. LastWriteCounts'
    BY <1>3, <2>4 DEF RemoveSidecars, SettingsInv, QuietRestore, LastWriteCounts
  <2> QED
    BY <1>3, <2>1, <2>3, <2>5 DEF RemoveSidecars, no_import, no_restore, SettingsInv, LookedTrue, QuietRestore
<1>4. CASE Killed
  <2>1. RowsTyped'
    BY <1>4, <1>t DEF Killed, log, no_import, no_restore, RowsTyped
  <2> QED
    BY <1>4, <2>1 DEF Killed, log, no_import, no_restore, SettingsInv, LookedTrue, QuietRestore, LastWriteCounts, visible
<1> QED
  BY <1>1, <1>2, <1>3, <1>4

LEMMA SettingsInvStep == SettingsInv /\ [SettingsNext]_settings_vars => SettingsInv'
<1> SUFFICES ASSUME SettingsInv, [SettingsNext]_settings_vars PROVE SettingsInv'
  OBVIOUS
<1>t. RowsTyped
  BY DEF SettingsInv
<1>1. ASSUME NEW k \in Key, NEW v \in Edit, save(k, v) PROVE SettingsInv'
  BY <1>1, SaveKeeps
<1>2. CASE Checkpoint
  <2>1. visible' = visible
    BY <1>2, <1>t DEF Checkpoint, visible, Empty, RowsTyped, Rows
  <2>2. RowsTyped'
    BY <1>2, <1>t, VisibleTyped DEF Checkpoint, admin, RowsTyped, Empty, Rows, Stored
  <2>3. QuietRestore'
    <3>1. restoring.at = "renamed" => ~restoring.quiet
      BY <1>2 DEF Checkpoint, SettingsInv, QuietRestore, no_restore
    <3> QED
      BY <1>2, <3>1 DEF Checkpoint, admin, SettingsInv, QuietRestore
  <2> QED
    BY <1>2, <2>1, <2>2, <2>3 DEF Checkpoint, admin, SettingsInv, LookedTrue, LastWriteCounts
<1>3. CASE Stop
  BY <1>3 DEF Stop, log, admin, SettingsInv, RowsTyped, LookedTrue, QuietRestore, LastWriteCounts, visible
<1>4. CASE StartUp
  <2>1. restoring' \in [at : {"idle", "staged", "renamed"}, quiet : BOOLEAN]
    BY <1>4, <1>t DEF StartUp, RowsTyped
  <2>2. IF restoring = no_restore THEN restoring' = no_restore
        ELSE ~restoring'.quiet
    <3>1. CASE restoring = no_restore
      <4>1. restoring' = [restoring EXCEPT !.quiet = TRUE]
        BY <1>4, <3>1 DEF StartUp
      <4> QED
        BY <3>1, <4>1 DEF no_restore
    <3>2. CASE restoring # no_restore
      <4>1. restoring' = [restoring EXCEPT !.quiet = FALSE]
        BY <1>4, <3>2 DEF StartUp
      <4> QED
        BY <1>t, <3>2, <4>1 DEF RowsTyped
    <3> QED
      BY <3>1, <3>2
  <2>3. RowsTyped'
    BY <1>4, <1>t, <2>1 DEF StartUp, log, RowsTyped
  <2>4. QuietRestore'
    BY <1>4, <2>2 DEF StartUp, no_restore, SettingsInv, QuietRestore
  <2> QED
    BY <1>4, <2>3, <2>4 DEF StartUp, log, SettingsInv, LookedTrue, LastWriteCounts, visible
<1>5. CASE import_legacy_config \/ setting_exists \/ set_setting_raw
  BY <1>5, ImportKeeps
<1>6. CASE make_backup
  BY <1>6, <1>t, VisibleTyped
     DEF make_backup, log, SettingsInv, RowsTyped, LookedTrue, QuietRestore, LastWriteCounts, visible
<1>7. CASE restore \/ Rename \/ RemoveSidecars \/ Killed
  BY <1>7, RestoreKeeps
<1>8. CASE UNCHANGED settings_vars
  BY <1>8 DEF settings_vars, log, admin, SettingsInv, RowsTyped, LookedTrue, QuietRestore, LastWriteCounts, visible
<1> QED
  BY <1>1, <1>2, <1>3, <1>4, <1>5, <1>6, <1>7, <1>8 DEF SettingsNext

LEMMA SettingsAlways == SettingsSpec => [](SettingsInv /\ LeftTyped)
<1>1. SettingsInit => SettingsInv /\ LeftTyped
  BY SettingsInvInit DEF SettingsInit, LeftTyped, no_import, Suffixes
<1>2. SettingsInv => RowsTyped
  BY DEF SettingsInv
<1>3. SettingsInv /\ LeftTyped /\ [SettingsNext]_settings_vars => SettingsInv' /\ LeftTyped'
  BY <1>2, SettingsInvStep, LeftTypedStep
<1> QED
  BY <1>1, <1>3, PTL DEF SettingsSpec

(* A row is what the last write, import or restore that ended made it, but *)
(* for the excused, for any keys, files, edits and order of commands.      *)
THEOREM LastWriteAlwaysCounts == SettingsSpec => []LastWriteCounts
<1>1. SettingsInv => LastWriteCounts
  BY DEF SettingsInv
<1> QED
  BY <1>1, SettingsAlways, PTL

LEMMA SettingsTyped == SettingsSpec => []SettingsTypeOK
<1>1. SettingsInv /\ LeftTyped => SettingsTypeOK
  BY DEF SettingsInv, RowsTyped, LeftTyped, SettingsTypeOK
<1> QED
  BY <1>1, SettingsAlways, PTL

LEMMA ImportStep ==
  SettingsInv /\ [SettingsNext]_settings_vars
    => [ \A k \in FileKey : set_setting_raw /\ k \notin excused => load(k)' = load(k) ]_settings_vars
<1> SUFFICES ASSUME SettingsInv, set_setting_raw, NEW k \in FileKey, k \notin excused PROVE load(k)' = load(k)
  OBVIOUS
<1> DEFINE j == Head(importing.left)
<1>t. RowsTyped /\ k \in Key
  BY SettingsAssumption DEF SettingsInv
<1>1. /\ importing.absent /\ UNCHANGED main
      /\ wal' = [wal EXCEPT ![j] = Legacy[j]] \/ wal' = wal
  BY DEF set_setting_raw, imported
<1>2. j \in Key /\ Legacy[j] # None /\ (j \notin excused => expected[j] = None)
  BY <1>t, <1>1, HeadIsKey DEF RowsTyped, SettingsInv, LookedTrue
<1> HIDE DEF j
<1>3. CASE k = j
  <2>1. visible[k] = None
    BY <1>t, <1>2, <1>3 DEF SettingsInv, LastWriteCounts
  <2>2. visible'[k] \in {None, Legacy[k]}
    BY <1>t, <1>1, <1>3, <2>1 DEF visible, RowsTyped, Rows
  <2> QED
    BY <1>2, <1>3, <2>1, <2>2 DEF load
<1>4. CASE k # j
  <2>1. visible'[k] = visible[k]
    BY <1>t, <1>1, <1>2, <1>4 DEF visible, RowsTyped, Rows
  <2> QED
    BY <2>1 DEF load
<1> QED
  BY <1>3, <1>4

(* An import changes nothing about what a start uses, for any legacy files *)
(* and edits that come before, between and after.                          *)
THEOREM ImportAlwaysKeepsLoad == SettingsSpec => ImportKeepsLoad
<1>1. SettingsInit => SettingsInv
  BY SettingsInvInit
<1>2. SettingsInv /\ [SettingsNext]_settings_vars => SettingsInv'
  BY SettingsInvStep
<1> QED
  BY <1>1, <1>2, ImportStep, PTL DEF SettingsSpec, ImportKeepsLoad

-----------------------------------------------------------------------------
(* Https: the runs of tailscale cert, and the files they write.            *)
WorkTyped ==
  /\ saved \in HttpsConfig
  /\ server \in [mode : {"starting", "off", "tailscale", "acme", "down"}, domain : Domain \cup {None}]
  /\ chain \in Cert \cup {None} /\ key \in Cert \cup {None} /\ served \in Cert \cup {None}
  /\ work \in [Issuer -> Work \cup {None}]
  /\ serial \in 0..MaxSerial
  /\ foreign \in BOOLEAN /\ touched \in BOOLEAN

(* The daemon's own run is for its domain; so are the files from the time  *)
(* it wrote the chain.                                                     *)
OwnDomain ==
  /\ work[Boot] # None => work[Boot].domain = server.domain /\ server.mode \in {"starting", "tailscale"}
  /\ work[Boot] # None /\ work[Boot].at # "issue" => chain # None /\ (~foreign => chain.domain = server.domain)
  /\ \A i \in Issuer : At(i, "issue") \/ At(i, "key") => work[i].domain \in Domain
  /\ server.mode = "tailscale" <=> served # None
  /\ server.mode \in {"starting", "tailscale"} => server.domain \in Domain

(* A renewal that has written nothing starts from files as they are served.*)
Untouched ==
  server.mode = "tailscale" /\ ~touched /\ (work[Boot] = None \/ At(Boot, "issue")) => chain = served /\ key = served

HttpsInv == WorkTyped /\ OwnDomain /\ Untouched /\ ServedIsOwn

LEMMA NoneIsNoWork == None \notin Work /\ None \notin Cert
<1> DEFINE Wide == [domain : Domain, at : {"issue", "key", "reload"}, cert : Cert \cup {None}]
<1>1. [domain : Domain, at : {"issue"}, cert : {None}] \subseteq Wide
  OBVIOUS
<1>2. [domain : Domain, at : {"key", "reload"}, cert : Cert] \subseteq Wide
  OBVIOUS
<1>3. Work \subseteq Wide
  BY <1>1, <1>2 DEF Work
<1>4. None \notin Wide /\ None \notin Cert
  BY HttpsAssumption DEF Cert
<1> QED
  BY <1>3, <1>4

LEMMA HttpsInvInit == HttpsInit => HttpsInv
<1> SUFFICES ASSUME HttpsInit PROVE HttpsInv
  OBVIOUS
<1>1. disabled \in HttpsConfig /\ disabled \in [mode : {"off"}, domain : Domain \cup {None}]
  BY DEF disabled, HttpsConfig
<1>2. server.mode = "off"
  BY DEF HttpsInit, disabled
<1>3. \A i \in Issuer : work[i] = None
  BY DEF HttpsInit
<1>4. WorkTyped
  <2>1. work \in [Issuer -> Work \cup {None}]
    BY DEF HttpsInit
  <2>2. serial \in 0..MaxSerial
    BY HttpsAssumption DEF HttpsInit
  <2>3. server \in [mode : {"starting", "off", "tailscale", "acme", "down"}, domain : Domain \cup {None}]
    BY <1>1 DEF HttpsInit
  <2> QED
    BY <1>1, <2>1, <2>2, <2>3 DEF HttpsInit, WorkTyped
<1>5. Boot \in Issuer
  BY DEF Issuer
<1> QED
  BY <1>2, <1>3, <1>4, <1>5 DEF HttpsInit, HttpsInv, OwnDomain, Untouched, ServedIsOwn, At

(* A run that begins, for the daemon's domain if it is the daemon's.       *)
LEMMA OwnIsWork == \A d \in Domain : own(d) \in Work /\ own(d).domain = d /\ own(d).at = "issue"
  BY DEF own, Work

LEMMA StartKeeps == ASSUME HttpsInv, Start PROVE HttpsInv'
<1> DEFINE c == effective(saved)
<1>1. c \in HttpsConfig /\ (c.mode = "tailscale" => c.domain \in Domain)
  BY DEF effective, valid_https, disabled, HttpsConfig, HttpsInv, WorkTyped
<1>2. /\ server' = IF c.mode = "tailscale" THEN [c EXCEPT !.mode = "starting"] ELSE c
      /\ work' = [i \in Issuer |-> IF i = Boot /\ c.mode = "tailscale" THEN own(c.domain) ELSE None]
      /\ served' = None /\ foreign' = FALSE /\ touched' = FALSE
      /\ UNCHANGED <<saved, chain, key, serial>>
  BY DEF Start, files
<1> HIDE DEF c
<1>3. /\ server'.domain = c.domain /\ server'.mode # "tailscale"
      /\ server' \in [mode : {"starting", "off", "acme"}, domain : Domain \cup {None}]
      /\ c.mode = "tailscale" => server'.mode = "starting"
  BY <1>1, <1>2 DEF HttpsConfig
<1>4. work' \in [Issuer -> Work \cup {None}]
  BY <1>1, <1>2, OwnIsWork
<1>5. \A i \in Issuer : work'[i] # None => i = Boot /\ c.mode = "tailscale" /\ work'[i] = own(c.domain)
  BY <1>2
<1>b. Boot \in Issuer
  BY DEF Issuer
<1>6. WorkTyped'
  BY <1>2, <1>3, <1>4 DEF HttpsInv, WorkTyped
<1>7. OwnDomain'
  <2>1. work'[Boot] # None => /\ work'[Boot].domain = server'.domain /\ server'.mode = "starting"
                             /\ work'[Boot].at = "issue"
    BY <1>1, <1>3, <1>5, <1>b, OwnIsWork
  <2>2. \A i \in Issuer : At(i, "issue")' \/ At(i, "key")' => work'[i].domain \in Domain
    BY <1>1, <1>5, OwnIsWork DEF At
  <2>3. server'.mode \in {"starting", "tailscale"} => server'.domain \in Domain
    BY <1>1, <1>2, <1>3 DEF HttpsConfig
  <2> QED
    BY <1>2, <1>3, <2>1, <2>2, <2>3 DEF OwnDomain
<1> QED
  BY <1>3, <1>6, <1>7 DEF HttpsInv, Untouched, ServedIsOwn

LEMMA BeginKeeps == ASSUME HttpsInv, Renew \/ (\E a \in Admin : reissue_https_cert(a)) PROVE HttpsInv'
<1>t. WorkTyped
  BY DEF HttpsInv
<1>b. Boot \in Issuer /\ Boot \notin Admin /\ Admin \subseteq Issuer
  BY HttpsAssumption DEF Issuer
<1>1. CASE Renew
  <2>1. server.domain \in Domain
    BY <1>1 DEF Renew, HttpsInv, OwnDomain
  <2>2. work' = [work EXCEPT ![Boot] = own(server.domain)]
    BY <1>1 DEF Renew, renewed
  <2> QED
    BY <1>1, <2>1, <2>2, <1>t, <1>b, OwnIsWork, NoneIsNoWork
       DEF Renew, files, HttpsInv, WorkTyped, OwnDomain, Untouched, ServedIsOwn, At
<1>2. ASSUME NEW a \in Admin, reissue_https_cert(a) PROVE HttpsInv'
  <2>1. saved.domain \in Domain
    BY <1>2, <1>t DEF reissue_https_cert, WorkTyped, HttpsConfig
  <2>2. work' = [work EXCEPT ![a] = own(saved.domain)] /\ work'[Boot] = work[Boot]
    BY <1>2, <1>b, <1>t DEF reissue_https_cert, WorkTyped
  <2> QED
    BY <1>2, <2>1, <2>2, <1>t, <1>b, OwnIsWork, NoneIsNoWork
       DEF reissue_https_cert, files, HttpsInv, WorkTyped, OwnDomain, Untouched, ServedIsOwn, At
<1> QED
  BY <1>1, <1>2

(* The files are written, the chain and then the key.                      *)
LEMMA IssueKeeps == ASSUME HttpsInv, NEW i \in Issuer, Issue(i) PROVE HttpsInv'
<1> DEFINE cert == [domain |-> work[i].domain, serial |-> serial']
<1>t. WorkTyped
  BY DEF HttpsInv
<1>1. /\ At(i, "issue")
      /\ serial < MaxSerial /\ serial' = serial + 1
      /\ chain' = cert /\ work' = [work EXCEPT ![i] = [domain |-> cert.domain, at |-> "key", cert |-> cert]]
      /\ foreign' = (foreign \/ (i # Boot /\ work[i].domain # server.domain))
      /\ touched' = (touched \/ i # Boot)
      /\ UNCHANGED <<saved, server, key, served>>
  BY DEF Issue
<1>2. work[i].domain \in Domain /\ work[i] \in Work
  BY <1>1, <1>t DEF At, HttpsInv, OwnDomain, WorkTyped
<1>3. cert \in Cert /\ cert.domain = work[i].domain
  BY <1>1, <1>2, <1>t, HttpsAssumption DEF WorkTyped, Cert
<1> HIDE DEF cert
<1>4. /\ work'[i] \in Work /\ work'[i].domain = work[i].domain /\ work'[i].at = "key"
      /\ \A j \in Issuer \ {i} : work'[j] = work[j]
      /\ work' \in [Issuer -> Work \cup {None}]
  <2> DEFINE w == [domain |-> work[i].domain, at |-> "key", cert |-> cert]
  <2>2. w \in Work
    BY <1>2, <1>3 DEF Work
  <2>3. work' = [work EXCEPT ![i] = w]
    BY <1>1, <1>3
  <2> QED
    BY <1>t, <2>2, <2>3 DEF WorkTyped
<1>b. Boot \in Issuer
  BY DEF Issuer
<1>5. WorkTyped'
  BY <1>1, <1>3, <1>4, <1>t, HttpsAssumption DEF WorkTyped
<1>6. OwnDomain'
  <2>1. ~foreign' => ~foreign /\ chain'.domain = server.domain
    BY <1>1, <1>3, <1>4, <1>b DEF At, HttpsInv, OwnDomain
  <2>2. chain' # None
    BY <1>1, <1>3, NoneIsNoWork
  <2>3. work'[Boot] # None => work[Boot] # None /\ work'[Boot].domain = work[Boot].domain
    BY <1>1, <1>4, <1>b DEF At
  <2>4. \A j \in Issuer : At(j, "issue")' \/ At(j, "key")' => work'[j].domain \in Domain
    BY <1>2, <1>4 DEF At, HttpsInv, OwnDomain
  <2> QED
    BY <1>1, <2>1, <2>2, <2>3, <2>4 DEF HttpsInv, OwnDomain
<1>7. Untouched'
  <2>1. CASE i = Boot
    BY <1>1, <1>4, <2>1, NoneIsNoWork DEF Untouched, At
  <2>2. CASE i # Boot
    BY <1>1, <2>2 DEF Untouched
  <2> QED
    BY <2>1, <2>2
<1>8. ServedIsOwn'
  BY <1>1 DEF HttpsInv, ServedIsOwn
<1> QED
  BY <1>5, <1>6, <1>7, <1>8 DEF HttpsInv

LEMMA WriteKeyKeeps == ASSUME HttpsInv, NEW i \in Issuer, WriteKey(i) PROVE HttpsInv'
<1>t. WorkTyped
  BY DEF HttpsInv
<1>b. Boot \in Issuer
  BY DEF Issuer
<1>1. /\ At(i, "key") /\ key' = work[i].cert /\ work' = Written(i)
      /\ touched' = (touched \/ i # Boot)
      /\ UNCHANGED <<saved, server, chain, served, serial, foreign>>
  BY DEF WriteKey
<1>2. work[i] \in [domain : Domain, at : {"key", "reload"}, cert : Cert]
  BY <1>1, <1>t DEF At, WorkTyped, Work
<1>3. CASE i = Boot
  <2> DEFINE w == [work[Boot] EXCEPT !.at = "reload"]
  <2>1. w \in Work /\ w.at = "reload" /\ w.domain = work[Boot].domain
    BY <1>2, <1>3 DEF Work
  <2>2. work' = [work EXCEPT ![Boot] = w]
    BY <1>1, <1>3 DEF Written
  <2> HIDE DEF w
  <2>3. /\ work' \in [Issuer -> Work \cup {None}] /\ work'[Boot] = w
        /\ \A j \in Issuer \ {Boot} : work'[j] = work[j]
    BY <1>t, <1>b, <2>1, <2>2 DEF WorkTyped
  <2>4. WorkTyped'
    BY <1>1, <1>2, <1>t, <2>3 DEF WorkTyped
  <2>5. OwnDomain'
    BY <1>1, <1>3, <1>b, <2>1, <2>3 DEF At, HttpsInv, OwnDomain
  <2>6. Untouched' /\ ServedIsOwn'
    BY <1>1, <2>1, <2>3, NoneIsNoWork DEF At, HttpsInv, Untouched, ServedIsOwn
  <2> QED
    BY <2>4, <2>5, <2>6 DEF HttpsInv
<1>4. CASE i # Boot
  <2>1. work' = [work EXCEPT ![i] = None] /\ touched'
    BY <1>1, <1>4, <1>t DEF Written, WorkTyped
  <2>2. /\ work' \in [Issuer -> Work \cup {None}] /\ work'[Boot] = work[Boot] /\ work'[i] = None
        /\ \A j \in Issuer \ {i} : work'[j] = work[j]
    BY <1>t, <1>b, <1>4, <2>1 DEF WorkTyped
  <2>3. WorkTyped'
    BY <1>1, <1>2, <1>t, <2>2 DEF WorkTyped
  <2>4. OwnDomain'
    BY <1>1, <2>2 DEF At, HttpsInv, OwnDomain
  <2>5. Untouched' /\ ServedIsOwn'
    BY <1>1, <2>1 DEF HttpsInv, Untouched, ServedIsOwn
  <2> QED
    BY <2>3, <2>4, <2>5 DEF HttpsInv
<1> QED
  BY <1>3, <1>4

LEMMA FailKeeps == ASSUME HttpsInv, NEW i \in Issuer, Fail(i) PROVE HttpsInv'
<1>t. WorkTyped
  BY DEF HttpsInv
<1>b. Boot \in Issuer
  BY DEF Issuer
<1>1. /\ work[i] # None
      /\ work' = [work EXCEPT ![i] = None]
      /\ server' = IF i = Boot /\ server.mode = "starting" THEN [server EXCEPT !.mode = "down"] ELSE server
      /\ touched' = (touched \/ ~At(i, "issue"))
      /\ UNCHANGED <<saved, chain, key, served, serial, foreign>>
  BY DEF Fail, Ended, files
<1>2. /\ work' \in [Issuer -> Work \cup {None}] /\ work'[i] = None
      /\ \A j \in Issuer \ {i} : work'[j] = work[j]
  BY <1>1, <1>t DEF WorkTyped
<1>3. CASE i = Boot /\ server.mode = "starting"
  <2>1. server' = [server EXCEPT !.mode = "down"]
    BY <1>1, <1>3
  <2>2. server'.mode = "down" /\ server' \in [mode : {"down"}, domain : Domain \cup {None}]
    BY <1>t, <2>1 DEF WorkTyped
  <2>3. WorkTyped'
    BY <1>1, <1>2, <1>t, <2>2 DEF WorkTyped
  <2>4. OwnDomain'
    BY <1>1, <1>2, <1>3, <2>2 DEF At, HttpsInv, OwnDomain
  <2> QED
    BY <2>2, <2>3, <2>4 DEF HttpsInv, Untouched, ServedIsOwn
<1>4. CASE ~(i = Boot /\ server.mode = "starting")
  <2>1. server' = server
    BY <1>1, <1>4
  <2>2. WorkTyped'
    BY <1>1, <1>2, <1>t, <2>1 DEF WorkTyped
  <2>3. OwnDomain'
    BY <1>1, <1>2, <1>b, <2>1 DEF At, HttpsInv, OwnDomain
  <2>4. Untouched' /\ ServedIsOwn'
    BY <1>1, <1>2, <1>b, <2>1 DEF At, HttpsInv, Untouched, ServedIsOwn
  <2> QED
    BY <2>2, <2>3, <2>4 DEF HttpsInv
<1> QED
  BY <1>3, <1>4

LEMMA LoadKeeps == ASSUME HttpsInv, Load PROVE HttpsInv'
<1>t. WorkTyped
  BY DEF HttpsInv
<1>b. Boot \in Issuer
  BY DEF Issuer
<1>1. /\ At(Boot, "reload") /\ chain = key /\ served' = chain
      /\ work' = [work EXCEPT ![Boot] = None]
      /\ server' = [server EXCEPT !.mode = "tailscale"]
      /\ touched' = FALSE
      /\ UNCHANGED <<saved, chain, key, serial, foreign>>
  BY DEF Load, files
<1>2. /\ work' \in [Issuer -> Work \cup {None}] /\ work'[Boot] = None
      /\ \A j \in Issuer \ {Boot} : work'[j] = work[j]
  BY <1>1, <1>t, <1>b DEF WorkTyped
<1>3. /\ server'.mode = "tailscale" /\ server'.domain = server.domain
      /\ server' \in [mode : {"tailscale"}, domain : Domain \cup {None}]
  BY <1>1, <1>t DEF WorkTyped
<1>4. ~foreign => chain.domain = server.domain
  BY <1>1, <1>b DEF At, HttpsInv, OwnDomain
<1>5. chain # None /\ server.domain \in Domain
  BY <1>1, <1>b DEF At, HttpsInv, OwnDomain
<1>6. WorkTyped'
  BY <1>1, <1>2, <1>3, <1>t DEF WorkTyped
<1>7. OwnDomain'
  BY <1>1, <1>2, <1>3, <1>5 DEF At, HttpsInv, OwnDomain
<1>8. Untouched' /\ ServedIsOwn'
  BY <1>1, <1>3, <1>4 DEF Untouched, ServedIsOwn
<1> QED
  BY <1>6, <1>7, <1>8 DEF HttpsInv

LEMMA HttpsInvStep == HttpsInv /\ [HttpsNext]_https_vars => HttpsInv'
<1> SUFFICES ASSUME HttpsInv, [HttpsNext]_https_vars PROVE HttpsInv'
  OBVIOUS
<1>1. ASSUME NEW c \in HttpsConfig, put_https(c) \/ Replaced(c) PROVE HttpsInv'
  BY <1>1 DEF put_https, Replaced, files, HttpsInv, WorkTyped, OwnDomain, Untouched, ServedIsOwn, At
<1>2. CASE UNCHANGED https_vars
  BY <1>2 DEF https_vars, files, HttpsInv, WorkTyped, OwnDomain, Untouched, ServedIsOwn, At
<1> QED
  BY <1>1, <1>2, StartKeeps, BeginKeeps, IssueKeeps, WriteKeyKeeps, FailKeeps, LoadKeeps DEF HttpsNext

LEMMA HttpsAlways == HttpsSpec => []HttpsInv
<1>1. HttpsInit => HttpsInv
  BY HttpsInvInit
<1>2. HttpsInv /\ [HttpsNext]_https_vars => HttpsInv'
  BY HttpsInvStep
<1> QED
  BY <1>1, <1>2, PTL DEF HttpsSpec

(* TLS is served for the domain of the start, for any number of requests   *)
(* to re-issue and of renewals, until a request is for another domain.     *)
THEOREM ServedAlwaysOwn == HttpsSpec => []ServedIsOwn
<1>1. HttpsInv => ServedIsOwn
  BY DEF HttpsInv
<1> QED
  BY <1>1, HttpsAlways, PTL

(* What is on disk is what is served, but after a re-issue or a renewal    *)
(* that failed on its way.                                                 *)
THEOREM StatusAlwaysServed == HttpsSpec => []StatusIsServed
<1>1. HttpsInv => StatusIsServed
  BY DEF HttpsInv, Untouched, StatusIsServed
<1> QED
  BY <1>1, HttpsAlways, PTL

LEMMA HttpsTyped == HttpsSpec => []HttpsTypeOK
<1>1. HttpsInv => HttpsTypeOK
  BY DEF HttpsInv, WorkTyped, OwnDomain, HttpsTypeOK
<1> QED
  BY <1>1, HttpsAlways, PTL

-----------------------------------------------------------------------------
(* A behaviour of the product is one of each part: what is proved of the   *)
(* parts holds of all of them together.                                    *)
THEOREM PartsAreIndependent ==
  ProvisioningSpec => HttpsSpec /\ SettingsSpec /\ IrSpec /\ ReadingsSpec
<1>1. ProvisioningInit => HttpsInit /\ SettingsInit /\ IrInit /\ ReadingsInit
  BY DEF ProvisioningInit
<1>2. [ProvisioningNext]_provisioning_vars
        => /\ [HttpsNext]_https_vars /\ [SettingsNext]_settings_vars
           /\ [IrNext]_ir_vars /\ [ReadingsNext]_readings_vars
  BY DEF ProvisioningNext, provisioning_vars, ReadingsNext
<1> QED
  BY <1>1, <1>2, PTL DEF ProvisioningSpec, HttpsSpec, SettingsSpec, IrSpec, ReadingsSpec

(* Every variable of every part has its type. *)
THEOREM ProvisioningTypeCorrect == ProvisioningSpec => []ProvisioningTypeOK
<1>1. HttpsTypeOK /\ SettingsTypeOK /\ IrTypeOK /\ ReadingsTypeOK => ProvisioningTypeOK
  BY DEF ProvisioningTypeOK
<1> QED
  BY <1>1, PartsAreIndependent, HttpsTyped, SettingsTyped, IrTyped, ReadingsTyped, PTL

(* Whatever lines stand in a legacy file, those count that the properties  *)
(* of the three readers say: for files of any length, with any lines.      *)
THEOREM SameLinesAlwaysCount == ProvisioningSpec => []SameLinesCount
<1>1. ProvisioningInit => ContentsTyped
  BY DEF ProvisioningInit, FilesInit, ContentsTyped
<1>2. ContentsTyped /\ [ProvisioningNext]_provisioning_vars => ContentsTyped'
  BY DEF ProvisioningNext, provisioning_vars, AddLine, ContentsTyped
<1>3. ContentsTyped => SameLinesCount
  BY LinesDecide DEF ContentsTyped
<1> QED
  BY <1>1, <1>2, <1>3, PTL DEF ProvisioningSpec

(* However the arrays are listed, each is reported as it is: for any       *)
(* number of arrays, of any names, members and counts.                     *)
THEOREM MdstatAlwaysAsListed == ProvisioningSpec => []MdstatAsListed
<1>1. ReadingsTypeOK => MdstatAsListed
  BY ReportsListed DEF ReadingsTypeOK
<1> QED
  BY <1>1, ReadingsTyped, PartsAreIndependent, PTL

(* What is proved of each part, for all of them together. *)
THEOREM ProvisioningSafe ==
  ProvisioningSpec =>
    /\ [](ServedIsOwn /\ StatusIsServed /\ LastWriteCounts /\ RemoteIsStored /\ RatesAreTraffic)
    /\ ImportKeepsLoad
BY PartsAreIndependent, ServedAlwaysOwn, StatusAlwaysServed, LastWriteAlwaysCounts,
   RemoteAlwaysStored, RatesAlwaysTraffic, ImportAlwaysKeepsLoad, PTL
=============================================================================
