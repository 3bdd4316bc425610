---------------------------- MODULE ProcessBoot ----------------------------
(***************************************************************************)
(* What a process does before its first hook: it reads its configuration,  *)
(* opens the database and, if so configured, applies the embedded          *)
(* migration, while other replicas and the migrate command may do the same *)
(* on the same database.                                                   *)
(*                                                                         *)
(* golang-migrate holds an advisory lock of the database, marks the        *)
(* version dirty, runs the SQL and clears the mark.  The lock goes with    *)
(* the connection of a process that dies; the mark does not.  A failure    *)
(* ends the process; whoever runs it may start it again.                   *)
(***************************************************************************)
EXTENDS ProcessLifecycle

CONSTANT BootFaults   \* subset of BootFaultKinds

\* config: a variable of the environment does not parse; database: it cannot be
\* reached; statement: the SQL fails; version: an unknown version is configured;
\* kill: a signal, which nobody handles before the hooks.
BootFaultKinds == {"config", "database", "statement", "version", "kill"}

ASSUME BootAssumption == BootFaults \subseteq BootFaultKinds

VARIABLES
  migrate,   \* POSTGRES_MIGRATE
  boot,      \* how far this process is
  schema,    \* absent, dirty or ready, as the version table has it
  lock       \* who holds the advisory lock: nobody, this process or another

bootVars == <<migrate, boot, schema, lock>>
allVars == <<vars, bootVars>>

Booting == {"configure", "open", "migrate", "applying"}
Failed == {"no_config", "no_database", "dirty", "no_statement", "no_version", "no_lock", "killed"}

BootInit ==
  /\ Init
  /\ migrate \in BOOLEAN
  /\ boot = "configure"
  /\ schema = "absent"
  /\ lock = "free"

-----------------------------------------------------------------------------
(* This process. *)

\* GetConfig panics on what it cannot parse.
Configure ==
  /\ boot = "configure"
  /\ \/ boot' = "open"
     \/ "config" \in BootFaults /\ boot' = "no_config"
  /\ UNCHANGED <<migrate, schema, lock>>

\* Mutant: nobody waits for the migration.
OpenInBackground ==
  /\ boot = "open"
  /\ boot' = "built"
  /\ UNCHANGED <<migrate, schema, lock>>

\* gorm.Open pings.
Open ==
  /\ boot = "open"
  /\ \/ boot' = IF migrate THEN "migrate" ELSE "built"
     \/ "database" \in BootFaults /\ boot' = "no_database"
  /\ UNCHANGED <<migrate, schema, lock>>

\* Mutant: a dirty version counts as no change.
DirtyIsNoChange ==
  /\ schema = "dirty"
  /\ boot' = "built"
  /\ UNCHANGED <<migrate, schema, lock>>

\* Mutant: a dirty version is read again until it is clean.
RetryDirty ==
  /\ schema = "dirty"
  /\ UNCHANGED bootVars

\* A dirty version is an error.
RefuseDirty ==
  /\ schema = "dirty"
  /\ boot' = "dirty"
  /\ UNCHANGED <<migrate, schema, lock>>

\* It waits for the lock, of which another process has the connection.
Turn ==
  /\ boot = "migrate"
  /\ lock = "free"

RefuseVersion ==
  /\ schema # "dirty"
  /\ "version" \in BootFaults
  /\ boot' = "no_version"
  /\ UNCHANGED <<migrate, schema, lock>>

\* ErrNoChange is success.
NoChange ==
  /\ schema = "ready"
  /\ boot' = "built"
  /\ UNCHANGED <<migrate, schema, lock>>

Mark ==
  /\ schema = "absent"
  /\ boot' = "applying"
  /\ schema' = "dirty"
  /\ lock' = "self"
  /\ UNCHANGED migrate

Migrate == Turn /\ (RefuseDirty \/ RefuseVersion \/ NoChange \/ Mark)

\* golang-migrate gives up on the lock after a while.
LockTimeout ==
  /\ boot = "migrate"
  /\ lock = "other"
  /\ boot' = "no_lock"
  /\ UNCHANGED <<migrate, schema, lock>>

\* Mutant: a failure keeps the lock.
ApplyKeepsLock ==
  /\ boot = "applying"
  /\ \/ boot' = "built" /\ schema' = "ready" /\ lock' = "free"
     \/ "statement" \in BootFaults /\ boot' = "no_statement" /\ UNCHANGED <<schema, lock>>
  /\ UNCHANGED migrate

\* The SQL has run or has failed; the lock is given back either way.
Apply ==
  /\ boot = "applying"
  /\ \/ boot' = "built" /\ schema' = "ready"
     \/ "statement" \in BootFaults /\ boot' = "no_statement" /\ UNCHANGED schema
  /\ lock' = "free"
  /\ UNCHANGED migrate

Killed ==
  /\ "kill" \in BootFaults
  /\ boot \in Booting
  /\ boot' = "killed"
  /\ lock' = IF boot = "applying" THEN "free" ELSE lock
  /\ UNCHANGED <<migrate, schema>>

Restart ==
  /\ boot \in Failed
  /\ boot' = "configure"
  /\ UNCHANGED <<migrate, schema, lock>>
-----------------------------------------------------------------------------
(* Other replicas and the migrate command, followed until this process runs: a *)
(* bound, for afterwards it never looks at the version again.                  *)

OtherMarks ==
  /\ migrate /\ boot # "built"
  /\ lock = "free" /\ schema = "absent"
  /\ lock' = "other" /\ schema' = "dirty"
  /\ UNCHANGED <<migrate, boot>>

\* It applies the SQL, or the SQL fails, or it dies.
OtherEnds ==
  /\ lock = "other"
  /\ lock' = "free"
  /\ \/ schema' = "ready"
     \/ BootFaults \cap {"statement", "kill"} # {} /\ UNCHANGED schema
  /\ UNCHANGED <<migrate, boot>>
-----------------------------------------------------------------------------
BootStep ==
  \/ Configure \/ Open \/ Migrate \/ LockTimeout \/ Apply \/ Killed \/ Restart
  \/ OtherMarks \/ OtherEnds

Built(A) == boot = "built" /\ A /\ UNCHANGED bootVars

BootNext ==
  \/ BootStep /\ UNCHANGED vars
  \/ boot = "built" /\ Next /\ UNCHANGED bootVars

BootSpec == BootInit /\ [][BootNext]_allVars

\* The code runs on, another process applies or dies; nobody need restart it.  fx goes
\* on and handlers return; watchers and background work may take as long as they like,
\* and no deadline need ever pass.
FairSpec ==
  /\ BootSpec
  /\ WF_allVars((Configure \/ Open \/ Migrate \/ Apply) /\ UNCHANGED vars)
  /\ WF_allVars(OtherEnds /\ UNCHANGED vars)
  /\ WF_allVars(Built(StartHook)) /\ WF_allVars(Built(Started))
  /\ WF_allVars(Built(Drain)) /\ WF_allVars(Built(StopServer))
  /\ WF_allVars(Built(StopOther)) /\ WF_allVars(Built(Exit))
  /\ \A c \in Calls : WF_allVars(Built(Handle(c)))
-----------------------------------------------------------------------------
(* Properties. *)

BootTypeOK ==
  /\ migrate \in BOOLEAN
  /\ boot \in Booting \cup {"built"} \cup Failed
  /\ schema \in {"absent", "dirty", "ready"}
  /\ lock \in {"free", "self", "other"}

\* The inductive invariant: who holds the lock is in the middle of the migration, no
\* hook has run before the database is built, and a process that was to migrate has
\* found or made the schema.
BootInv ==
  /\ BootTypeOK
  /\ lock = "self" <=> boot = "applying"
  /\ lock # "free" => schema = "dirty"
  /\ boot # "built" => started = 0 /\ \A c \in Calls : call[c].step = "none"
  /\ boot = "built" /\ migrate => schema = "ready"

\* However many processes boot on one database, and wherever one is killed, nobody is
\* served by a process that was to migrate and stands on a schema half made: what
\* RunMigrations promises to NewGormDB.
ServesMigrated ==
  migrate /\ (phase = "serving" \/ \E c \in Calls : call[c].step # "none")
    => schema = "ready"

\* A process that dies in the middle leaves a mark no restart and no other replica
\* clears: every boot that migrates fails until somebody repairs the version by hand.
MarkStays ==
  [][schema = "dirty" /\ lock = "free" => schema' = "dirty" /\ ~(migrate /\ boot' = "built")]_allVars

\* A boot ends, in a process that runs or in an error: no process waits for ever for
\* the migration of another.
BootEnds == boot = "configure" ~> boot = "built" \/ boot \in Failed
=============================================================================
