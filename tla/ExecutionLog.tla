---------------------------- MODULE ExecutionLog ----------------------------
(***************************************************************************)
(* The deterministic engines (runtime/core/deterministic-engine.ts), the   *)
(* log they append to (runtime/core/execution-log.ts) and the audit trail  *)
(* of the router (runtime/router.ts, observability/audit.ts), in a process *)
(* that crashes and is started again.                                      *)
(*                                                                         *)
(* Engines of one process write one file, each with a size counter of its  *)
(* own.  A line is one unit of size.  Runs of the same inputs have the     *)
(* same run id, and need not have the same output.  A write may fail; it   *)
(* never leaves half a line.                                               *)
(***************************************************************************)
EXTENDS Naturals, Sequences, FiniteSets, SequencesExt

CONSTANTS Engines, Execs, EngineOf, \* EngineOf[x]: the engine that executes x
          RunId, Outputs, Denied,
          RotateAt,                 \* rotateBytes, in lines
          MaxCrashes, MaxReplays    \* bound the faults

ASSUME ExecutionLogAssumption ==
  /\ IsFiniteSet(Engines) /\ EngineOf \in [Execs -> Engines]
  /\ DOMAIN RunId = Execs /\ Denied \notin Outputs
  /\ RotateAt \in Nat /\ RotateAt > 1
  /\ MaxCrashes \in Nat /\ MaxReplays \in Nat

VARIABLES
  up, crashes, replays,
  exec,       \* an execution: its step, and what its receipt says
  entries,    \* of an engine, in memory
  size,       \* currentSizeBytes of an engine
  file,       \* the log
  backups,    \* the lines in rotated files
  latest,     \* the lines in the youngest rotated file
  replaced,   \* history: the lines in rotated files that another one replaced
  overdue,    \* history: the lines of the log that were written in spite of a due rotation
  trail       \* the status of x's line in the audit trail on disk

rotationVars == <<backups, latest, replaced>>
diskVars == <<file, rotationVars, overdue>>
logVars == <<up, crashes, replays, exec, entries, size, diskVars, trail>>

LogInit ==
  /\ up = TRUE /\ crashes = 0 /\ replays = 0
  /\ exec = [x \in Execs |-> [pc |-> "new", out |-> Denied]]
  /\ entries = [e \in Engines |-> <<>>]
  /\ size = [e \in Engines |-> 0]
  /\ file = <<>> /\ overdue = {}
  /\ backups = {} /\ latest = {} /\ replaced = {}
  /\ trail = [x \in Execs |-> "none"]

\* execute(), up to the routing.
Execute(x) ==
  /\ up /\ exec[x].pc = "new"
  /\ exec' = [exec EXCEPT ![x].pc = "routing"]
  /\ UNCHANGED <<up, crashes, replays, entries, size, diskVars, trail>>

RotationDue(e) == size[e] + 1 >= RotateAt /\ file # <<>>

\* The log is renamed to the time: it replaces what was rotated in the same
\* millisecond, by whichever engine.
Rotate ==
  /\ latest' = Range(file)
  /\ \/ backups' = backups \cup latest /\ UNCHANGED replaced
     \/ replaced' = replaced \cup latest /\ UNCHANGED backups

\* append() of the line that says out: it is in memory before it is on disk.
\* A rename that fails is passed over; a write that fails is not.
AppendLine(x, out) ==
  LET e    == EngineOf[x]
      line == [exec |-> x, id |-> RunId[x], out |-> out]
      Write(left, n, counted) ==
        \/ /\ file' = Append(left, line) /\ overdue' = counted
           /\ size' = [size EXCEPT ![e] = n + 1]
           /\ exec' = [exec EXCEPT ![x] = [pc |-> "receipt", out |-> out]]
        \/ /\ file' = left /\ overdue' = counted \cap DOMAIN left
           /\ size' = [size EXCEPT ![e] = n]
           /\ exec' = [exec EXCEPT ![x].pc = "error"]
  IN /\ entries' = [entries EXCEPT ![e] = Append(@, line)]
     /\ \/ RotationDue(e) /\ Rotate /\ Write(<<>>, 0, {})
        \/ /\ Write(file, size[e], IF RotationDue(e) THEN overdue \cup {Len(file) + 1} ELSE overdue)
           /\ UNCHANGED rotationVars

\* log() of the router's audit trail.
Audit(x, status) == trail' = [trail EXCEPT ![x] = status]

\* Mutant of Answer: the success is audited after the receipt was returned.
AnswerBeforeAudit(x) ==
  /\ up /\ exec[x].pc = "routing"
  /\ \E out \in Outputs \cup {Denied} : AppendLine(x, out)
  /\ trail' \in {trail, [trail EXCEPT ![x] = IF exec'[x].out = Denied THEN "failed" ELSE "success"]}
  /\ UNCHANGED <<up, crashes, replays>>

\* The router has an answer, audits it, and the engine logs it.  A success that
\* cannot be audited is reported, and audited, as a failed inference; a failure
\* that cannot be audited ends the call.
Answer(x) ==
  /\ up /\ exec[x].pc = "routing"
  /\ \/ \E out \in Outputs : AppendLine(x, out) /\ Audit(x, "success")
     \/ AppendLine(x, Denied) /\ Audit(x, "failed")
     \/ /\ exec' = [exec EXCEPT ![x].pc = "error"]
        /\ UNCHANGED <<entries, size, diskVars, trail>>
  /\ UNCHANGED <<up, crashes, replays>>

\* The memory is gone, and with it the calls under way.
Crash ==
  /\ up /\ crashes < MaxCrashes
  /\ up' = FALSE /\ crashes' = crashes + 1
  /\ entries' = [e \in Engines |-> <<>>]
  /\ exec' = [x \in Execs |-> IF exec[x].pc = "routing" THEN [exec[x] EXCEPT !.pc = "error"]
                              ELSE exec[x]]
  /\ UNCHANGED <<replays, size, diskVars, trail>>

\* Mutant of Restart: forgets what the file holds already.
RestartFromNothing ==
  /\ ~up /\ up' = TRUE
  /\ size' = [e \in Engines |-> 0]
  /\ UNCHANGED <<crashes, replays, exec, entries, diskVars, trail>>

\* The constructor takes the size of the file.
Restart ==
  /\ ~up /\ up' = TRUE
  /\ size' = [e \in Engines |-> Len(file)]
  /\ UNCHANGED <<crashes, replays, exec, entries, diskVars, trail>>

\* Mutant of Loaded: what was read comes first.
LoadedInFront(e) == file \o entries[e]

Loaded(e) == entries[e] \o file

\* replay() adds what the current file holds, also what is in memory already.
Replay(e) ==
  /\ up /\ replays < MaxReplays
  /\ replays' = replays + 1
  /\ entries' = [entries EXCEPT ![e] = Loaded(e)]
  /\ UNCHANGED <<up, crashes, exec, size, diskVars, trail>>

LogNext ==
  \/ \E x \in Execs : Execute(x) \/ Answer(x)
  \/ Crash \/ Restart
  \/ \E e \in Engines : Replay(e)

-----------------------------------------------------------------------------
(* Properties.                                                             *)

\* Whoever got a receipt finds it on disk, in the log or in a rotated file, unless
\* another log took that file's name (execution-log.ts:90), and in the audit
\* trail, whatever was rotated, failed or crashed since (deterministic-engine.ts:111).
ReceiptsAreOnDisk ==
  \A x \in Execs : exec[x].pc = "receipt" =>
    /\ [exec |-> x, id |-> RunId[x], out |-> exec[x].out]
         \in Range(file) \cup latest \cup backups \cup replaced
    /\ trail[x] = IF exec[x].out = Denied THEN "failed" ELSE "success"

\* Rotation bounds the file, across crashes; but each engine counts its own
\* lines only, so the bound is one rotateBytes for every engine
\* (execution-log.ts:89), and a line more for every time that it was due and failed.
LogIsBounded ==
  Len(file) <= Cardinality(Engines) * (RotateAt - 1) + Cardinality(overdue)

\* verifyOutputIntegrity(): the first entry with the run id decides.
Verifies(e, id, out) ==
  LET Found == {i \in DOMAIN entries[e] : entries[e][i].id = id}
  IN Found # {} /\ entries[e][CHOOSE i \in Found : \A j \in Found : i <= j].out = out

\* What an engine verified once, it verifies until the process ends, whatever
\* is appended or replayed: several entries may have one run id.
VerifiedStaysVerified ==
  [][up' => \A e \in Engines, x \in Execs, out \in Outputs :
       Verifies(e, RunId[x], out) => Verifies(e, RunId[x], out)']_logVars

=============================================================================
