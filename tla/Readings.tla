------------------------------- MODULE Readings -------------------------------
(***************************************************************************)
(* Readings: what the daemon makes of what the kernel prints.  The state   *)
(* of the RAID arrays is parsed from mdstat for the storage page and the   *)
(* alerts.  The load of the processor and the traffic of the interface     *)
(* with the default route are differences of two samples, which every      *)
(* connection to /api/ws takes for itself while counters run, interfaces   *)
(* come back with fresh counters and the route moves.                      *)
(***************************************************************************)
EXTENDS Integers, Sequences, SequencesExt, Absent

CONSTANTS
  Listed,     \* bound: the arrays that mdstat may list
  MaxListed,  \* bound: how many of them at a time
  Interface,
  Counter,    \* bound: bytes that are told apart
  Jiffy       \* bound: times that are told apart

Count == 0..Counter
Member == [name : STRING, mark : {"", "S", "F"}]

(* An array of the kernel: its members, whether it runs and may be written *)
(* to, and [total/working] unless its kind, or its not running, lacks it.  *)
(* Either number fits the u8 that the daemon reads it into.                *)
Counts == { c \in (0..255) \X (0..255) : c[2] <= c[1] }
ASSUME ListedAssumption ==
  /\ Listed \subseteq [name : STRING, runs : BOOLEAN, readonly : BOOLEAN, level : STRING,
                      members : Seq(Member), counts : Counts \cup {None}]
  /\ None \notin Counts
  /\ MaxListed \in Nat /\ Counter \in Nat /\ Jiffy \in Nat \ {0} /\ None \notin Interface

VARIABLES
  mdstat,   \* the arrays the kernel lists
  times,    \* /proc/stat: the busy and the idle time
  cpu,      \* CpuUsage.prev, or None
  percent,  \* what sample_percent returned, or None
  bytes,    \* /proc/net/dev: a counter for each interface
  route,    \* the interface of the default route, or None
  prev,     \* NetUsage.prev: interface and counter, or None
  rates,    \* what sample_rates returned, or None
  crossed   \* history: what went through each interface since prev

traffic       == <<bytes, route, prev, rates, crossed>>
readings_vars == <<mdstat, times, cpu, percent, traffic>>

-----------------------------------------------------------------------------
(* The lines of mdstat: for each array a head with its words, a line with  *)
(* the size and perhaps the counts, and one of another kind.               *)
word(w) == [name |-> w, mark |-> ""]
words(a) ==
  (IF a.readonly THEN <<word("(auto-read-only)")>> ELSE <<>>)
  \o (IF a.runs THEN <<word(a.level)>> ELSE <<>>) \o a.members

line(md, a, counts) ==
  [md |-> md, name |-> a.name, activity |-> IF a.runs THEN "active" ELSE "inactive",
   words |-> words(a), counts |-> counts]
printed(a) == <<line(TRUE, a, None), line(FALSE, a, a.counts), line(FALSE, a, None)>>
printout ==
  [k \in 1..(3 * Len(mdstat)) |-> printed(mdstat[1 + ((k - 1) \div 3)])[1 + ((k - 1) % 3)]]

(* parse_raid_status: the counts stand in the line after the head, or none *)
(* do; the first word after the activity is taken for the level.           *)
mut_detail(lines, i) ==
  LET later == { j \in DOMAIN lines : j > i /\ lines[j].counts # None }
  IN  IF later = {} THEN <<0, 0>> ELSE lines[CHOOSE j \in later : \A k \in later : j <= k].counts
detail(lines, i) ==
  IF i + 1 \in DOMAIN lines /\ lines[i + 1].counts # None THEN lines[i + 1].counts ELSE <<0, 0>>

state(activity, counts) ==
  IF activity = "inactive" THEN "inactive"
  ELSE IF counts[1] > 0 /\ counts[2] < counts[1] THEN "degraded" ELSE "active"

failed_disks(counts) == IF counts[2] > counts[1] THEN 0 ELSE counts[1] - counts[2]

raid_device_role(m) == IF m.mark = "F" THEN "faulty" ELSE IF m.mark = "S" THEN "spare" ELSE "active sync"

RaidArray(lines, i) ==
  LET counts == detail(lines, i)
  IN  [name |-> lines[i].name, state |-> state(lines[i].activity, counts),
       failed |-> failed_disks(counts),
       devices |-> LET members == IF lines[i].words = <<>> THEN <<>> ELSE Tail(lines[i].words)
                   IN  [m \in DOMAIN members |-> [name |-> members[m].name, role |-> raid_device_role(members[m])]]]

parse_raid_status(lines) ==
  LET found[n \in 0..Len(lines)] ==
        IF n = 0 THEN <<>>
        ELSE IF lines[n].md THEN Append(found[n - 1], RaidArray(lines, n)) ELSE found[n - 1]
  IN  found[Len(lines)]

-----------------------------------------------------------------------------
minus(a, b) == IF a > b THEN a - b ELSE 0

(* CpuUsage::sample_percent, a hundred times the busy share of a sample.   *)
total(t) == t.busy + t.idle
sample_percent ==
  /\ cpu' = times
  /\ percent' = IF cpu = None THEN None
                ELSE IF minus(total(times), total(cpu)) = 0 THEN 0
                ELSE 100 - (100 * minus(times.idle, cpu.idle)) \div minus(total(times), total(cpu))

(* NetUsage::sample_rates.  Without a route it fails and remembers nothing;*)
(* two samples are compared if time passed and they are of one interface.  *)
mut_comparable(passed) == prev # None /\ passed
comparable(passed) == prev # None /\ prev.iface = route /\ passed

sample_rates ==
  IF route = None THEN rates' = None /\ UNCHANGED <<prev, crossed>>
  ELSE /\ \E passed \in BOOLEAN :
            rates' = IF comparable(passed)
                     THEN [moved |-> minus(bytes[route], prev.bytes), crossed |-> crossed[route]]
                     ELSE None
       /\ prev' = [iface |-> route, bytes |-> bytes[route]]
       /\ crossed' = [i \in Interface |-> 0]

-----------------------------------------------------------------------------
(* A connection that has just been made.                                   *)
ReadingsInit ==
  /\ mdstat = <<>>
  /\ times = [busy |-> 0, idle |-> 1] /\ cpu = None /\ percent = None
  /\ bytes = [i \in Interface |-> 0] /\ route \in Interface \cup {None}
  /\ prev = None /\ rates = None /\ crossed = [i \in Interface |-> 0]

(* The tick of a connection: either sample may fail to be read.            *)
StatsTick ==
  /\ sample_percent \/ (percent' = None /\ UNCHANGED cpu)
  /\ sample_rates   \/ (rates' = None /\ UNCHANGED <<prev, crossed>>)
  /\ UNCHANGED <<mdstat, times, bytes, route>>

(* The kernel.  The wait for input, which counts as idle, may run back.    *)
Runs ==
  /\ \E busy, idle \in 0..Jiffy : /\ busy >= times.busy /\ idle >= times.idle - 1
                               /\ times' = [busy |-> busy, idle |-> idle]
  /\ UNCHANGED <<mdstat, cpu, percent, traffic>>

Transfer(i) ==
  /\ bytes[i] < Counter /\ crossed[i] < Counter
  /\ bytes' = [bytes EXCEPT ![i] = @ + 1]
  /\ crossed' = [crossed EXCEPT ![i] = @ + 1]
  /\ UNCHANGED <<mdstat, times, cpu, percent, route, prev, rates>>

LinkFlap(i) ==
  /\ bytes' = [bytes EXCEPT ![i] = 0]
  /\ UNCHANGED <<mdstat, times, cpu, percent, route, prev, rates, crossed>>

Reroute ==
  /\ route' \in Interface \cup {None}
  /\ UNCHANGED <<mdstat, times, cpu, percent, bytes, prev, rates, crossed>>

Assemble ==
  /\ Len(mdstat) < MaxListed
  /\ \E a \in Listed : mdstat' = Append(mdstat, a)
  /\ UNCHANGED <<times, cpu, percent, traffic>>

Stats == StatsTick \/ Runs \/ Reroute \/ \E i \in Interface : Transfer(i) \/ LinkFlap(i)

ReadingsNext == Stats \/ Assemble

ReadingsSpec == ReadingsInit /\ [][ReadingsNext]_readings_vars

-----------------------------------------------------------------------------
(* Every variable has its type; above all, the load of the processor is a  *)
(* percentage, also when the time it was idle ran back.                    *)
Times == [busy : 0..Jiffy, idle : 0..Jiffy]

ReadingsTypeOK ==
  /\ mdstat \in Seq(Listed) /\ Len(mdstat) <= MaxListed
  /\ times \in Times /\ cpu \in Times \cup {None}
  /\ percent \in 0..100 \cup {None}
  /\ bytes \in [Interface -> Count] /\ crossed \in [Interface -> Count]
  /\ route \in Interface \cup {None}
  /\ prev \in [iface : Interface, bytes : Count] \cup {None}
  /\ rates \in [moved : Count, crossed : Count] \cup {None}

(* However an array is listed and whatever stands before and after it, the *)
(* storage page and the alerts are told of its own state: degraded and so  *)
(* many disks failed if that is what its counts say, and never what the    *)
(* next array's say.  Its members are all there with their marks if it     *)
(* runs and may be written to: else the first word is no level, and a      *)
(* member or the level is taken for another.                               *)
MdstatAsListed ==
  LET told == parse_raid_status(printout)
  IN  /\ Len(told) = Len(mdstat)
      /\ \A i \in DOMAIN told :
           LET a == mdstat[i]
               lost == IF a.counts = None THEN 0 ELSE a.counts[1] - a.counts[2]
           IN  /\ told[i].name = a.name
               /\ told[i].failed = lost
               /\ told[i].state = IF ~a.runs THEN "inactive" ELSE IF lost > 0 THEN "degraded" ELSE "active"
               /\ a.runs /\ ~a.readonly =>
                    /\ Len(told[i].devices) = Len(a.members)
                    /\ \A m \in DOMAIN a.members :
                         LET device == told[i].devices[m]
                         IN  /\ device.name = a.members[m].name
                             /\ device.role = "faulty" <=> a.members[m].mark = "F"
                             /\ device.role = "active sync" <=> a.members[m].mark = ""

(* No connection is told of more traffic than went through the interface   *)
(* between its two samples, across failed samples, moved routes and        *)
(* interfaces that came back with fresh counters.                          *)
RatesAreTraffic == rates # None => rates.moved <= rates.crossed
=============================================================================
