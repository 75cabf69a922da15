------------------------------- MODULE Profile -------------------------------
(***************************************************************************)
(* What the profiling tools read from a device (ttl/_src): the cycles of   *)
(* zones in profile_log_device.csv (auto_profile.py, signpost_profile.py,  *)
(* perf_summary.py) and the traffic in the NOC trace of a program          *)
(* (perf_summary.py).                                                      *)
(*                                                                         *)
(* The cores of a device run their threads side by side, open and close    *)
(* zones and send transfers; the log has the rows of all of them.          *)
(***************************************************************************)
EXTENDS Integers, Sequences, FiniteSets, SequencesExt, FiniteSetsExt, TLC

CONSTANTS Cores, Zones, Transfers, MaxRows, MaxRuns
VARIABLES log,    \* the rows written so far; a row is stamped with its place
          open,   \* the zones that are open
          closed, \* the zones that were closed, with their cycles
          run     \* the program that runs
profileVars == <<log, open, closed, run>>

ProfileInit == log = <<>> /\ open = {} /\ closed = <<>> /\ run = 0

Now == Len(log) + 1
Row(core, zone, phase) ==
  [core |-> core, thread |-> zone.thread, zone |-> zone.name, phase |-> phase, at |-> Now, run |-> run]

(* A thread closes its zones innermost first, and opens none twice.        *)
Begin(core, zone) ==
  /\ Now <= MaxRows
  /\ ~\E z \in open : z.core = core /\ z.thread = zone.thread /\ z.zone = zone.name
  /\ log' = Append(log, Row(core, zone, "ZONE_START"))
  /\ open' = open \cup {Row(core, zone, "ZONE_START")}
  /\ UNCHANGED <<closed, run>>
End(z) ==
  /\ Now <= MaxRows
  /\ \A y \in open : y.core = z.core /\ y.thread = z.thread => y.at <= z.at
  /\ log' = Append(log, [z EXCEPT !.phase = "ZONE_END", !.at = Now])
  /\ open' = open \ {z}
  /\ closed' = Append(closed, [core |-> z.core, thread |-> z.thread, zone |-> z.zone, run |-> z.run, cycles |-> Now - z.at])
  /\ UNCHANGED run
Transfer(core, t) ==
  /\ Now <= MaxRows
  /\ log' = Append(log, [core |-> core, phase |-> "NOC", at |-> Now, run |-> run] @@ t)
  /\ UNCHANGED <<open, closed, run>>
NextRun ==
  /\ open = {} /\ log # <<>> /\ run < MaxRuns
  /\ run' = run + 1
  /\ UNCHANGED <<log, open, closed>>

ProfileNext ==
  \/ \E core \in Cores : \/ \E zone \in Zones : Begin(core, zone)
                         \/ \E t \in Transfers : Transfer(core, t)
  \/ \E z \in open : End(z)
  \/ NextRun
ProfileSpec == ProfileInit /\ [][ProfileNext]_profileVars

-----------------------------------------------------------------------------
(* The parsers: a start is kept under a key, and an end takes what is kept *)
(* there.                                                                  *)

Measured(row, start) ==
  [core |-> row.core, thread |-> row.thread, zone |-> row.zone, run |-> row.run, cycles |-> row.at - start]
Parsed(rows, fields, forgets) ==
  LET Key(row) == [f \in fields |-> row[f]]
      Read(s, row) ==
        IF row.phase = "ZONE_START" THEN [s EXCEPT !.starts = (Key(row) :> row.at) @@ @]
        ELSE IF row.phase = "ZONE_END" /\ Key(row) \in DOMAIN s.starts
        THEN [starts |-> IF forgets THEN [k \in DOMAIN s.starts \ {Key(row)} |-> s.starts[k]] ELSE s.starts,
              results |-> Append(s.results, Measured(row, s.starts[Key(row)]))]
        ELSE s
  IN  FoldLeft(Read, [starts |-> <<>>, results |-> <<>>], rows).results

IsZone(row) == row.phase # "NOC"
Kind(row) == (CHOOSE z \in Zones : z.thread = row.thread /\ z.name = row.zone).kind

(* parse_device_profile_csv keeps the zones of the compiled lines, and     *)
(* parse_signpost_zones those named by the program; both know a zone by    *)
(* its thread and name alone.                                              *)
ZonesOf(rows, kind) == SelectSeq(rows, LAMBDA r : IsZone(r) /\ Kind(r) = kind)
LineZones(rows) == Parsed(ZonesOf(rows, "line"), {"thread", "zone"}, TRUE)
UserZones(rows) == Parsed(ZonesOf(rows, "user"), {"thread", "zone"}, TRUE)

(* Mutant of CsvKey: a kernel is known by its program and thread.          *)
CsvKeyNoCore == {"run", "thread"}
CsvKey == {"run", "thread", "core"}
(* parse_kernel_durations, from the log of the device, and the zones of    *)
(* parse_noc_trace, from the trace of one program.                         *)
CsvDurations(rows) == Parsed(ZonesOf(rows, "kernel"), CsvKey, TRUE)
TraceDurations(rows) ==
  Parsed(SelectSeq(rows, LAMBDA r : IsZone(r) /\ r.zone \in {"BRISC-KERNEL", "NCRISC-KERNEL"}), {"zone", "core"}, FALSE)

TraceOf(program) == SelectSeq(log, LAMBDA r : r.run = program)
Of(results, program, thread) == SelectSeq(results, LAMBDA r : r.run = program /\ r.thread = thread)

(* run(): the durations of the log where it has any, else the trace's.     *)
Merged(program, thread) ==
  LET csv == Of(CsvDurations(log), program, thread)
  IN  IF csv # <<>> THEN csv ELSE Of(TraceDurations(TraceOf(program)), program, thread)

-----------------------------------------------------------------------------
(* The traffic of a program.  The type of an event is a set of words.      *)

IsNoc(row) == row.phase = "NOC"
Payload(row) == IsNoc(row) /\ {"SEMAPHORE", "BARRIER"} \cap row.type = {}
Unicast(row, word) == Payload(row) /\ ~row.mcast /\ word \in row.type
(* The cores that opened a zone are the compute cores: what goes anywhere  *)
(* else is memory traffic.                                                 *)
ComputeCores(trace) == {trace[i].core : i \in {j \in DOMAIN trace : IsZone(trace[j])}}
ToL1(trace, row) == row.dst \in ComputeCores(trace)
Bytes(trace, Counts(_)) == FoldLeft(LAMBDA n, row : n + (IF Counts(row) THEN row.bytes ELSE 0), 0, trace)

L1Written(trace) == Bytes(trace, LAMBDA r : Unicast(r, "WRITE") /\ ToL1(trace, r))
L1Read(trace) == Bytes(trace, LAMBDA r : Unicast(r, "READ") /\ ToL1(trace, r))
DramRead(trace) == Bytes(trace, LAMBDA r : Unicast(r, "READ") /\ ~ToL1(trace, r))
DramWritten(trace) ==
  Bytes(trace, LAMBDA r : (Unicast(r, "WRITE") \/ (Payload(r) /\ r.mcast)) /\ ~ToL1(trace, r))
Multicast(trace) == Bytes(trace, LAMBDA r : Payload(r) /\ r.mcast /\ ToL1(trace, r))
Barriers(trace, word) ==
  Len(SelectSeq(trace, LAMBDA r : IsNoc(r) /\ {"BARRIER", word, "START"} \subseteq r.type /\ "SEMAPHORE" \notin r.type))
SourceCores(trace) == {trace[i].core : i \in {j \in DOMAIN trace : IsNoc(trace[j])}}

(* The numerator of the effective bandwidth.                               *)
TotalBytes(trace) == DramRead(trace) + DramWritten(trace) + L1Read(trace) + L1Written(trace) + Multicast(trace)

-----------------------------------------------------------------------------
Times(x, s) == Cardinality({i \in DOMAIN s : s[i] = x})
SameZones(s, t) == \A x \in ToSet(s) \cup ToSet(t) : Times(x, s) = Times(x, t)
TrueZones(kind) == SelectSeq(closed, LAMBDA z : Kind(z) = kind)

(* Two cores had this zone open at a time.                                 *)
SharedZone(z) ==
  \E i, j \in DOMAIN log :
    /\ i < j /\ log[i].phase = "ZONE_START" /\ log[j].phase = "ZONE_START"
    /\ \A k \in {i, j} : log[k].thread = z.thread /\ log[k].zone = z.name
    /\ log[i].core # log[j].core
    /\ \A k \in i + 1 .. j - 1 : log[k] # [log[i] EXCEPT !.phase = "ZONE_END", !.at = k]

(* However the cores' rows are mixed, every kernel that ended is reported  *)
(* once, with its own cycles and under its program (perf_summary.py        *)
(* 108-160, 400-440).                                                      *)
KernelDurationsAreTheCores ==
  /\ SameZones(CsvDurations(log), TrueZones("kernel"))
  /\ \A program \in 0..run, z \in Zones :
       z.kind = "kernel" => SameZones(Merged(program, z.thread), Of(TrueZones("kernel"), program, z.thread))

(* The reports of lines and regions, whose keys do not tell cores apart    *)
(* (auto_profile.py 132, signpost_profile.py 60).  A zone that no two      *)
(* cores had open at a time is reported with its cycles, whatever other    *)
(* zones are shared.  Of a shared zone a core may be missing or have the   *)
(* cycles since another core's start: never more reports, and never more   *)
(* cycles in all, than the core's own.                                     *)
ZoneReport(z) == IF z.kind = "line" THEN LineZones(log) ELSE UserZones(log)
InZone(results, z, core) ==
  SelectSeq(results, LAMBDA r : r.thread = z.thread /\ r.zone = z.name /\ r.core = core)
Cycles(results) == FoldLeft(LAMBDA n, r : n + r.cycles, 0, results)
ZonesAreNotOverstated ==
  \A z \in {z \in Zones : z.kind \in {"line", "user"}}, core \in Cores :
    LET reported == InZone(ZoneReport(z), z, core)
        were == InZone(closed, z, core)
    IN  /\ ~SharedZone(z) => SameZones(reported, were)
        /\ Len(reported) <= Len(were) /\ Cycles(reported) <= Cycles(were)

(* Every byte that a transfer carries is counted in one of the summary's   *)
(* totals, whatever runs where (perf_summary.py 196-275).                  *)
BytesAreCountedOnce ==
  \A program \in 0..run :
    LET trace == TraceOf(program)
    IN  TotalBytes(trace) = Bytes(trace, LAMBDA r : IsNoc(r) /\ {"SEMAPHORE", "BARRIER"} \cap r.type = {})
=============================================================================
