------------------------------- MODULE MCParts -------------------------------
(***************************************************************************)
(* The parts of the repository that share no state with any other, side by *)
(* side: `part' says which one a behaviour is of, and the variables of the *)
(* others keep their initial values.  So their state spaces add up, and do *)
(* not multiply.                                                           *)
(***************************************************************************)
EXTENDS MCIdempotentOrders

CONSTANTS
  MaxRotations, MaxCuts,                   \* of PasswordRotation
  Walkers, Limits, MaxId,                  \* of CursorPages
  Callers, MaxAttempts, MaxFaults,         \* of SerializationRetry
  Keep, MaxWrites, MaxRuns,                \* of BackupDrill
  Seeds, NUsers, NProducts, NOrders, MaxStarts, MaxDeletes,  \* of Seeding
  Orders, MaxPrograms                      \* of Demos

VARIABLES
  part,
  role, file, userlist, bouncer, server, client, startup, script, made, cuts, outcome,
  next, open, rows, walk, page, before, old,
  balance, version, step, snap, attempt, retries, arrived, wave, commits, faults,
  live, dumps, run, runs, succeeded, drill, late,
  count, short, reached, doing, starts, deletes, overlapped, gone,
  owned, outbox, inbox, broker, held, demo, placed, programs

Rotation == INSTANCE PasswordRotation
Pages == INSTANCE CursorPages
Retry == INSTANCE SerializationRetry
Backup == INSTANCE BackupDrill
Seed == INSTANCE Seeding
Demo == INSTANCE Demos

ASSUME BoundsOfParts ==
  /\ Rotation!BoundsAssumption /\ Retry!BoundsAssumption
  /\ Backup!BoundsAssumption /\ Seed!BoundsAssumption
ASSUME ListsOfParts ==
  /\ Retry!CallersAssumption /\ Pages!LimitsAssumption
  /\ Pages!IdsAssumption /\ Seed!ListsAssumption
  /\ Demo!NamesAssumption

rotationVars == <<role, file, userlist, bouncer, server, client, startup, script, made, cuts, outcome>>
pagesVars == <<next, open, rows, walk, page, before, old>>
retryVars == <<balance, version, step, snap, attempt, retries, arrived, wave, commits, faults>>
backupVars == <<live, dumps, run, runs, succeeded, drill, late>>
seedVars == <<count, short, reached, doing, starts, deletes, overlapped, gone>>
demoVars == <<owned, outbox, inbox, broker, held, demo, placed, programs>>
partsVars == <<part, vars, rotationVars, pagesVars, retryVars, backupVars, seedVars, demoVars>>

\* A walk of a part that is not CursorPages has any limit.
PartsInit ==
  /\ part \in {"keys", "rotation", "pages", "retry", "backup", "seed", "demos"}
  /\ Init /\ Rotation!Init /\ Pages!Init /\ Retry!Init /\ Backup!Init /\ Seed!Init /\ Demo!Init
  /\ part # "pages" => \A w \in Walkers : walk[w].limit = Min(Limits)

PartsNext ==
  \/ /\ part = "keys" /\ Next
     /\ UNCHANGED <<part, rotationVars, pagesVars, retryVars, backupVars, seedVars, demoVars>>
  \/ /\ part = "rotation" /\ Rotation!Next
     /\ UNCHANGED <<part, vars, pagesVars, retryVars, backupVars, seedVars, demoVars>>
  \/ /\ part = "pages" /\ Pages!Next
     /\ UNCHANGED <<part, vars, rotationVars, retryVars, backupVars, seedVars, demoVars>>
  \/ /\ part = "retry" /\ Retry!Next
     /\ UNCHANGED <<part, vars, rotationVars, pagesVars, backupVars, seedVars, demoVars>>
  \/ /\ part = "backup" /\ Backup!Next
     /\ UNCHANGED <<part, vars, rotationVars, pagesVars, retryVars, seedVars, demoVars>>
  \/ /\ part = "seed" /\ Seed!Next
     /\ UNCHANGED <<part, vars, rotationVars, pagesVars, retryVars, backupVars, demoVars>>
  \/ /\ part = "demos" /\ Demo!Next
     /\ UNCHANGED <<part, vars, rotationVars, pagesVars, retryVars, backupVars, seedVars>>

PartsSpec == PartsInit /\ [][PartsNext]_partsVars

-----------------------------------------------------------------------------
(* The properties of the parts, under one name each.                       *)

\* Every variable of the part has its type; those of the others do not change.
TypesOK ==
  /\ part = "keys" => TypeOK
  /\ part = "rotation" => Rotation!TypeOK
  /\ part = "pages" => Pages!TypeOK
  /\ part = "retry" => Retry!TypeOK
  /\ part = "backup" => Backup!TypeOK
  /\ part = "seed" => Seed!TypeOK
  /\ part = "demos" => Demo!TypeOK

\* With no script at work and PgBouncer back, no query fails but through
\* TypeORM, in a process older than the password.
FailsOnlyInRotation == Rotation!FailsOnlyInRotation

\* A walk through GET /orders or GET /products gets no row twice and, when it
\* ends, every row that was there from its beginning.
WalkSeesEachOnce == part = "pages" => Pages!WalkSeesEachOnce

\* No update of demo-retry is lost or made twice.
NoLostUpdate == part = "retry" => Retry!NoLostUpdate

\* There is always a dump to restore from once a backup has succeeded, and a
\* drill's verdict is about that dump.
BackupsRestore == part = "backup" => Backup!BackupsRestore

\* seed.ts run again completes what is missing and repeats nothing.
SeedConverges == part = "seed" => Seed!SeedConverges

\* A demo run to its end shows the counts of README, whatever ran before it,
\* unless its event is marked as processed since an earlier run.
DemosRepeat == part = "demos" => Demo!DemosRepeat

==============================================================================
