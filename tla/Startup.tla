------------------------------- MODULE Startup -------------------------------
(***************************************************************************)
(* How a service starts: the pool, the migrations, the listener, and how   *)
(* it stops.  Replicas of one service share a database and may start at    *)
(* the same time; no lock is taken, only the primary key of                *)
(* schema_migrations decides who has applied a file.                       *)
(***************************************************************************)
EXTENDS Naturals, Sequences

CONSTANTS
  Replicas,
  Files,            \* the embedded migrations, in the order of their names: 1 .. Files
  MaxStartFaults

ASSUME FilesAssumption == Files \in Nat /\ MaxStartFaults \in Nat

VARIABLES
  schema,        \* the files whose statements are committed, in that order
  recorded,      \* the rows of schema_migrations
  replicas,
  startFaults

startVars == <<schema, recorded, replicas, startFaults>>

StartupTypeOK ==
  /\ schema \in Seq(1 .. Files)
  /\ recorded \subseteq 1 .. Files
  /\ replicas \in [Replicas -> [pc : {"down", "pool", "check", "apply", "serving", "draining"},
                                file : 1 .. Files + 1]]
  /\ startFaults \in 0 .. MaxStartFaults

Down == [pc |-> "down", file |-> 1]

StartupInit ==
  /\ schema = <<>>
  /\ recorded = {}
  /\ replicas = [r \in Replicas |-> Down]
  /\ startFaults = 0

Becomes(r, pc) == replicas' = [replicas EXCEPT ![r].pc = pc]
Exits(r) == replicas' = [replicas EXCEPT ![r] = Down]

(* The process begins, and later the pool's first connection is made; an   *)
(* error anywhere before the listener is up ends the process.              *)
svcRun(r) ==
  /\ \/ replicas[r].pc = "down" /\ Becomes(r, "pool")
     \/ replicas[r].pc = "check" /\ replicas[r].file > Files /\ Becomes(r, "serving")
     \/ replicas[r].pc = "serving" /\ Becomes(r, "draining")
     \/ replicas[r].pc = "draining" /\ Exits(r)
  /\ UNCHANGED <<schema, recorded>>

Pool(r) ==
  /\ replicas[r].pc = "pool"
  /\ Becomes(r, "check")
  /\ UNCHANGED <<schema, recorded>>

(* The file's row exists: a duplicate of the primary key.                  *)
Conflict(name) == name \in recorded

(* The transaction's two statements and its commit: another replica's      *)
(* transaction on the same file is waited for, and its row then refuses    *)
(* this one, which rolls back and ends the start.                          *)
Commit(name) ==
  /\ schema' = Append(schema, name)
  /\ recorded' = recorded \cup {name}

NextFile(r) ==
  replicas' = [replicas EXCEPT ![r] = [pc |-> "check", file |-> @.file + 1]]

Migrate(r) ==
  LET name == replicas[r].file IN
  \/ /\ replicas[r].pc = "check"
     /\ name <= Files
     /\ IF name \in recorded THEN NextFile(r) ELSE Becomes(r, "apply")
     /\ UNCHANGED <<schema, recorded>>
  \/ /\ replicas[r].pc = "apply"
     /\ ~Conflict(name)
     /\ Commit(name)
     /\ NextFile(r)
  \/ /\ replicas[r].pc = "apply"
     /\ Conflict(name)
     /\ Exits(r)
     /\ UNCHANGED <<schema, recorded>>

(* Mutant: the row is not part of the file's transaction. *)
StartFailsRecorded(r) ==
  /\ replicas[r].pc # "down"
  /\ startFaults < MaxStartFaults
  /\ startFaults' = startFaults + 1
  /\ Exits(r)
  /\ UNCHANGED schema
  /\ IF replicas[r].pc = "apply"
     THEN recorded' = recorded \cup {replicas[r].file}
     ELSE UNCHANGED recorded

(* A statement fails or times out, or the process dies: what was not       *)
(* committed is rolled back.  The answer to a commit may be lost too.      *)
StartFails(r) ==
  /\ replicas[r].pc # "down"
  /\ startFaults < MaxStartFaults
  /\ startFaults' = startFaults + 1
  /\ Exits(r)
  /\ \/ UNCHANGED <<schema, recorded>>
     \/ /\ replicas[r].pc = "apply"
        /\ ~Conflict(replicas[r].file)
        /\ Commit(replicas[r].file)

StartupNext ==
  \E r \in Replicas :
    \/ (svcRun(r) \/ Pool(r) \/ Migrate(r)) /\ UNCHANGED startFaults
    \/ StartFails(r)

StartupSpec == StartupInit /\ [][StartupNext]_startVars

-----------------------------------------------------------------------------
(* Whichever replicas start together, fail and start again: a file is      *)
(* committed after all those before it, one that failed is never marked    *)
(* applied (db.go:53-54), and no replica serves before the whole schema is *)
(* there.                                                                  *)
CommittedFiles == {schema[i] : i \in DOMAIN schema}

SchemaBeforeService ==
  /\ \A i \in DOMAIN schema : \A f \in 1 .. schema[i] - 1 : \E j \in 1 .. i - 1 : schema[j] = f
  /\ recorded \subseteq CommittedFiles
  /\ \A r \in Replicas : replicas[r].pc \in {"serving", "draining"} => 1 .. Files \subseteq CommittedFiles

=============================================================================
