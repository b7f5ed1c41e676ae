---------------------------- MODULE BackupDrill ----------------------------
(***************************************************************************)
(* scripts/backup.sh as cron runs it, and scripts/restore-drill.sh beside  *)
(* it, over a database that goes on taking orders.                         *)
(*                                                                         *)
(* What the control sum (the count and the total of orders) tells apart is *)
(* the number of writes orders has seen.  A dump file is a record; a value *)
(* that may be missing is a set with one member or none.                   *)
(***************************************************************************)
EXTENDS Integers, Sequences, SequencesExt

CONSTANTS
  Keep,       \* BACKUP_KEEP
  MaxWrites,  \* bound on writes to orders, for model checking
  MaxRuns     \* bound on runs of backup.sh, for model checking

BoundsAssumption == Keep \in Nat \ {0} /\ MaxWrites \in Nat /\ MaxRuns \in Nat

VARIABLES
  live,       \* the orders table: writes so far
  dumps,      \* backups/marketplace-*.dump with its .checksum, oldest first
  run,        \* the running backup.sh: its step, CONTROL, pg_dump's snapshot
  runs,       \* runs begun: the stamp in the name of the newest dump
  succeeded,  \* some run has printed its dump's name
  drill,      \* the drill: its step, the dump it took, BEFORE, and its verdict
  late        \* history variable: the dumps with a write between sum and snapshot

backupVars == <<live, dumps, run, runs, succeeded, drill, late>>

Writes == 0 .. MaxWrites
Optional(S) == {{}} \cup {{x} : x \in S}
Blank == {-1}  \* what there is to read in a sidecar created and not yet written
NoRun == [step |-> "none", control |-> {}, snapshot |-> {}]
NoDrill == [step |-> "none", stamp |-> 0, before |-> {}]

TypeOK ==
  /\ live \in Writes
  /\ \A i \in DOMAIN dumps : dumps[i] \in [stamp : 1 .. MaxRuns, content : Optional(Writes),
                                           checksum : Optional(Writes) \cup {Blank}]
  /\ Len(dumps) <= MaxRuns
  /\ run \in [step : {"none", "summed", "dumping", "dumped", "sealing", "sealed"},
              control : Optional(Writes), snapshot : Optional(Writes)]
  /\ runs \in 0 .. MaxRuns
  /\ succeeded \in BOOLEAN
  /\ drill \in [step : {"none", "restoring", "match", "mismatch", "exited"},
                stamp : 0 .. MaxRuns, before : Optional(Writes) \cup {Blank}]
  /\ late \subseteq 1 .. MaxRuns

Init ==
  /\ live = 0
  /\ dumps = <<>>
  /\ run = NoRun
  /\ runs = 0
  /\ succeeded = FALSE
  /\ drill = NoDrill
  /\ late = {}

\* A checkout, or any other write of orders.
Write ==
  /\ live < MaxWrites
  /\ live' = live + 1
  /\ late' = IF run.step = "summed" THEN late \cup {runs} ELSE late
  /\ UNCHANGED <<dumps, run, runs, succeeded, drill>>

-----------------------------------------------------------------------------
(* backup.sh.                                                              *)

\* STAMP names the dump; CONTROL="$(orders_checksum psql_live)".
Sum ==
  /\ run.step = "none"
  /\ runs < MaxRuns
  /\ runs' = runs + 1
  /\ run' = [run EXCEPT !.step = "summed", !.control = {live}]
  /\ UNCHANGED <<live, dumps, succeeded, drill, late>>

\* pg_dump creates the file and takes its snapshot of the database.
StartDump ==
  /\ run.step = "summed"
  /\ run' = [run EXCEPT !.step = "dumping", !.snapshot = {live}]
  /\ dumps' = Append(dumps, [stamp |-> runs, content |-> {}, checksum |-> {}])
  /\ UNCHANGED <<live, runs, succeeded, drill, late>>

FinishDump ==
  /\ run.step = "dumping"
  /\ run' = [run EXCEPT !.step = "dumped"]
  /\ dumps' = [dumps EXCEPT ![Len(dumps)].content = run.snapshot]
  /\ UNCHANGED <<live, runs, succeeded, drill, late>>

\* As it would be with the sidecar created beside the dump, not after it.
CreateEarly ==
  /\ run.step \in {"dumping", "dumped"}
  /\ run' = [run EXCEPT !.step = "sealing"]
  /\ dumps' = [dumps EXCEPT ![Len(dumps)].checksum = Blank]
  /\ UNCHANGED <<live, runs, succeeded, drill, late>>

\* The redirection creates the sidecar, ...
CreateSidecar ==
  /\ run.step = "dumped"
  /\ run' = [run EXCEPT !.step = "sealing"]
  /\ dumps' = [dumps EXCEPT ![Len(dumps)].checksum = Blank]
  /\ UNCHANGED <<live, runs, succeeded, drill, late>>

\* ... and printf writes CONTROL to it.
Seal ==
  /\ run.step = "sealing"
  /\ run' = [run EXCEPT !.step = "sealed"]
  /\ dumps' = [dumps EXCEPT ![Len(dumps)].checksum = run.control]
  /\ UNCHANGED <<live, runs, succeeded, drill, late>>

\* ls -1t: the newest Keep files stay, whatever state they are in.
NewestKept == SubSeq(dumps, IF Len(dumps) < Keep THEN 1 ELSE Len(dumps) - Keep + 1, Len(dumps))

Prune ==
  /\ run.step = "sealed"
  /\ run' = NoRun
  /\ dumps' = NewestKept
  /\ succeeded' = TRUE
  /\ UNCHANGED <<live, runs, drill, late>>

\* set -e or a kill: what has been written stays, nothing is pruned.
Abort ==
  /\ run.step # "none"
  /\ run' = NoRun
  /\ UNCHANGED <<live, dumps, runs, succeeded, drill, late>>

-----------------------------------------------------------------------------
(* restore-drill.sh.                                                       *)

\* The newest dump, complete or not; without a sidecar the drill exits, with a
\* blank one it goes on.
Take ==
  /\ drill.step # "restoring"
  /\ drill' = IF dumps = <<>> \/ Last(dumps).checksum = {}
              THEN [NoDrill EXCEPT !.step = "exited"]
              ELSE [step |-> "restoring", stamp |-> Last(dumps).stamp,
                    before |-> Last(dumps).checksum]
  /\ UNCHANGED <<live, dumps, run, runs, succeeded, late>>

\* pg_restore into an empty database, its control sum, the comparison; a dump
\* pruned meanwhile or cut off does not restore.
Restore ==
  /\ drill.step = "restoring"
  /\ LET found == {i \in DOMAIN dumps : /\ dumps[i].stamp = drill.stamp
                                        /\ dumps[i].content # {}}
     IN drill' = [drill EXCEPT !.step =
          IF found = {} THEN "exited"
          ELSE IF \A i \in found : dumps[i].content = drill.before THEN "match"
          ELSE "mismatch"]
  /\ UNCHANGED <<live, dumps, run, runs, succeeded, late>>

-----------------------------------------------------------------------------
Next == \/ Write
        \/ Sum \/ StartDump \/ FinishDump \/ CreateSidecar \/ Seal \/ Prune \/ Abort
        \/ Take \/ Restore

Spec == Init /\ [][Next]_backupVars

-----------------------------------------------------------------------------
(* Properties.                                                             *)

\* Once a night's run has succeeded there is always a dump to restore from,
\* however many runs fail after it and whatever they leave behind; no run leaves
\* a sidecar, the one thing a drill looks at before it restores, beside a dump
\* that was cut off; and a MISMATCH means that orders were written between the
\* control sum and pg_dump's snapshot ("a write after backup must not produce a
\* false MISMATCH"), or that the drill read a sidecar created and not written.
BackupsRestore ==
  /\ succeeded => \E i \in DOMAIN dumps : /\ dumps[i].content # {}
                                          /\ dumps[i].checksum \notin {{}, Blank}
  /\ \A i \in DOMAIN dumps : dumps[i].checksum # {} => dumps[i].content # {}
  /\ drill.step = "mismatch" => drill.stamp \in late \/ drill.before = Blank

=============================================================================
