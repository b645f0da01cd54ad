----------------------------- MODULE Collector -----------------------------
(***************************************************************************)
(* The metrics collector (internal/metrics/collector.go): rates and usage  *)
(* are differences of kernel counters between two readings, in unsigned    *)
(* 64-bit arithmetic.  One disk and one CPU line; network interfaces are   *)
(* treated like disks.  Collect holds the mutex and is one step; what it   *)
(* puts into the snapshot is a function of the state it starts in.         *)
(***************************************************************************)
EXTENDS Integers

CONSTANTS
  Word,      \* 2^64
  MaxClock,  \* bound on time, in tenths of a second
  MaxCount   \* bound on every counter; sums of two stay below Word

ASSUME CollectorAssumption ==
  /\ Word \in Nat /\ MaxClock \in Nat /\ MaxCount \in Nat \ {0}
  /\ 2 * MaxCount < Word

VARIABLES
  clock,
  attached,    \* the disk is in /proc/diskstats and can be statfs'd
  io,          \* its byte counter
  busy, idle,  \* the CPU's ticks
  prevTime, prevDisk, prevCPU,
  since        \* history: what happened since prevDisk and prevCPU were read

kernelVars == <<clock, attached, io, busy, idle>>
collectorVars == <<kernelVars, prevTime, prevDisk, prevCPU, since>>

None == [none |-> TRUE]  \* no earlier reading, no rate

Counts == 0 .. MaxCount

CollectorTypeOK ==
  /\ clock \in 0 .. MaxClock /\ prevTime \in 0 .. clock
  /\ attached \in BOOLEAN
  /\ io \in Counts /\ busy \in Counts /\ idle \in Counts
  /\ prevDisk \in {None} \cup [bytes : Counts]
  /\ prevCPU \in {None} \cup [busy : Counts, idle : Counts]
  /\ since \in [moved : Counts, start : 0 .. clock, missed : BOOLEAN, restarted : BOOLEAN, dipped : BOOLEAN]

Nothing(t) == [moved |-> 0, start |-> t, missed |-> FALSE, restarted |-> FALSE, dipped |-> FALSE]

\* NewCollector reads the CPU once; the reading may fail.
CollectorInit ==
  /\ clock = 0 /\ prevTime = 0
  /\ attached \in BOOLEAN
  /\ io = 0 /\ busy = 0 /\ idle = 1
  /\ prevDisk = None
  /\ prevCPU \in {None, [busy |-> busy, idle |-> idle]}
  /\ since = Nothing(0)

\* Subtraction of uint64.
Minus(a, b) == (a - b + Word) % Word

AtLeast(t) == IF t < 1 THEN 1 ELSE t

\* The usage is 1 - idle / total.
cpuUsagePercent ==
  [idle  |-> Minus(idle, prevCPU.idle),
   total |-> Minus(busy + idle, prevCPU.busy + prevCPU.idle)]

elapsed == AtLeast(clock - prevTime)

\* ReadBytesPS, as bytes over time.
diskRate == [bytes |-> Minus(io, prevDisk.bytes), over |-> elapsed]

collectCPU(readable) ==
  prevCPU' = IF readable THEN [busy |-> busy, idle |-> idle] ELSE prevCPU

collectDisks_NewOnly(readable) ==
  prevDisk' = IF readable /\ attached /\ prevDisk = None THEN [bytes |-> io] ELSE prevDisk
\* A disk that cannot be read, or is not there, keeps its old reading.
collectDisks(readable) ==
  prevDisk' = IF readable /\ attached THEN [bytes |-> io] ELSE prevDisk

\* Every part may fail on its own; the time of the reading moves on all the same.
Collect(cpuReadable, diskReadable) ==
  /\ collectCPU(cpuReadable)
  /\ collectDisks(diskReadable)
  /\ prevTime' = clock
  /\ since' = [(IF diskReadable /\ attached THEN Nothing(clock) ELSE [since EXCEPT !.missed = TRUE])
               EXCEPT !.dipped = since.dipped /\ ~cpuReadable]
  /\ UNCHANGED kernelVars

DiskWorks ==
  \/ /\ attached /\ io < MaxCount /\ io' = io + 1
     /\ since' = [since EXCEPT !.moved = @ + 1]
     /\ UNCHANGED attached
  \* unplugged, or plugged in again with a counter that starts over
  \/ /\ attached' = ~attached
     /\ io' = IF attached THEN io ELSE 0
     /\ since' = [since EXCEPT !.restarted = TRUE, !.moved = IF attached THEN @ ELSE 0]

CpuWorks ==
  \/ busy < MaxCount /\ busy' = busy + 1 /\ UNCHANGED <<idle, since>>
  \/ idle < MaxCount /\ idle' = idle + 1 /\ UNCHANGED <<busy, since>>
  \* iowait, which counts as idle, may decrease.
  \/ idle > 0 /\ idle' = idle - 1 /\ since' = [since EXCEPT !.dipped = TRUE] /\ UNCHANGED busy

Kernel ==
  /\ \/ clock < MaxClock /\ clock' = clock + 1 /\ UNCHANGED <<attached, io, busy, idle, since>>
     \/ DiskWorks /\ UNCHANGED <<clock, busy, idle>>
     \/ CpuWorks /\ UNCHANGED <<clock, attached, io>>
  /\ UNCHANGED <<prevTime, prevDisk, prevCPU>>

CollectorNext == Kernel \/ \E c, d \in BOOLEAN : Collect(c, d)

----------------------------------------------------------------------------
(* Properties *)

\* Unless the disk's counter restarted, the rate counts exactly the bytes moved since the last reading of the disk.  It
\* divides them by the time since then - or, when readings of the disk failed in between, by less.
RateSound ==
  prevDisk # None /\ ~since.restarted =>
    /\ diskRate.bytes = since.moved
    /\ diskRate.over <= AtLeast(clock - since.start)
    /\ ~since.missed => diskRate.over = AtLeast(clock - since.start)

\* Unless idle has gone back, the usage is between 0 and 100 percent.
UsageInRange == prevCPU # None /\ ~since.dipped => cpuUsagePercent.idle <= cpuUsagePercent.total

\* What a snapshot shows is what the kernel counted, as long as its counters only grow.
ReadingsSound == RateSound /\ UsageInRange
=============================================================================
