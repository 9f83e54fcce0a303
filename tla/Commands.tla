------------------------------- MODULE Commands -------------------------------
(***************************************************************************)
(* The commands of the llmap program (src/src/main.rs) as processes that   *)
(* share the database, the authority's files and a backup destination:     *)
(* serve, ca init, migrate claudeproxy-env and backup create.              *)
(*                                                                         *)
(* Each process runs one command.  A step is one SQLite statement or       *)
(* transaction, or one system call on a file; between two of them other    *)
(* processes run, and the process may crash.  A statement that fails       *)
(* (another process holds the lock for too long) ends the command with an  *)
(* error, which leaves the database as a crash at that point would; only   *)
(* generate_ca and backup_to clean up after a failure.  Reading the        *)
(* configuration changes nothing and is left out: a command whose          *)
(* configuration is invalid does not start.                                *)
(***************************************************************************)
EXTENDS LegacyImport, AuthorityFiles

CONSTANTS
    MaxRunning,     \* how many commands run at the same time
    Files,          \* environment files an operator may import
    Found,          \* the accounts a database may hold at the outset
    Administered,   \* ids an administrator writes, pauses and deletes
    AccountInput,   \* accounts an administrator may submit
    MaxId,          \* bound on the administrator's writes
    MaxDeletes      \* and deletes

VARIABLES
    legacy,     \* rows whose egress list is in account_json, in clear
    backup,     \* the destination of the backup command
    command,    \* what each process was started as
    pc,         \* how far it is
    local,      \* what it holds in memory
    deleted     \* auxiliary: the accounts an administrator has deleted

commandVars == <<storeVars, caVars, legacy, backup, command, pc, local,
                 deleted>>

ASSUME CommandsAssumption ==
    /\ Administered \subseteq Account
    /\ MaxRunning \in Nat
    /\ MaxId \in Nat
    /\ MaxDeletes \in Nat

Command == {"serve", "ca_init", "migrate", "backup"}

Over == {"idle", "ok", "failed"}

Running == {p \in Process : pc[p] \notin Over}

\* lines, replace: the file of an import, and whether --replace was given;
\* todo: the legacy rows an open has read and not yet converted; accounts:
\* what an import has left to write; existing: the ids it found in the store;
\* read: the account a pause or resume has read and not yet written back;
\* before: auxiliary, the ids in the store when the process started.
NoLocal == [lines |-> <<>>, replace |-> FALSE, todo |-> Empty,
            accounts |-> <<>>, existing |-> {}, read |-> Empty,
            before |-> {}]

\* Process p goes on with what it holds, until it is over; of an import that
\* succeeded the file is remembered.
GoWith(p, next, held) ==
    /\ pc' = [pc EXCEPT ![p] = next]
    /\ local' = [local EXCEPT ![p] =
            CASE next = "failed" -> NoLocal
              [] next = "ok" -> [NoLocal EXCEPT !.lines = held.lines]
              [] OTHER -> held]

Go(p, next) == GoWith(p, next, local[p])

\* account_storage_values succeeds: every endpoint of the list parses.
ValidEgress(list) == \A i \in DOMAIN list : list[i] # "invalid"

NoFile == [owner |-> 0, is |-> "absent", rows |-> Empty, legacy |-> {}]

\* The rows were written by an earlier version, which kept their lists in clear
\* and accepted some that no longer parse, or by this one.
CommandInit ==
    /\ \E found \in Found :
        StoreOpen(found, [a \in DOMAIN found |->
                            [form |-> "raw", expires_at |-> NoExpiry]])
    /\ \/ legacy = DOMAIN rows
       \/ legacy = {} /\ \A a \in DOMAIN rows : ValidEgress(rows[a].egress)
    /\ CaInit
    /\ backup = NoFile
    /\ command = [p \in Process |-> "none"]
    /\ pc = [p \in Process |-> "idle"]
    /\ local = [p \in Process |-> NoLocal]
    /\ deleted = {}

MayStart(p) ==
    /\ command[p] = "none"
    /\ Cardinality(Running) < MaxRunning

Started == [NoLocal EXCEPT !.before = DOMAIN rows]

Start(p, c) ==
    /\ MayStart(p)
    /\ command' = [command EXCEPT ![p] = c]
    /\ GoWith(p, IF c = "ca_init" THEN "authority" ELSE "open", Started)
    /\ UNCHANGED <<storeVars, caVars, legacy, backup, deleted>>

Parsed == [lines \in Files |-> parse_claudeproxy_env(lines)]

\* An import parses the whole file before it opens the database.
StartMigrate(p, lines, replace) ==
    /\ MayStart(p)
    /\ command' = [command EXCEPT ![p] = "migrate"]
    /\ \/ \E parsed \in Parsed[lines] :
            GoWith(p, "open", [Started EXCEPT !.lines = lines,
                                              !.replace = replace,
                                              !.accounts = parsed])
       \/ Parsed[lines] = {} /\ Go(p, "failed")
    /\ UNCHANGED <<storeVars, caVars, legacy, backup, deleted>>
-----------------------------------------------------------------------------
(***************************************************************************)
(* SqliteStore::open.  Creating tables and columns that exist already      *)
(* changes nothing; encrypt_legacy_egress_metadata reads the rows that     *)
(* have no encrypted list, then converts them one statement at a time.     *)
(***************************************************************************)
\* Mutant: only enabled accounts are converted.
LegacyRowsEnabled ==
    [a \in {b \in legacy : rows[b].enabled} |-> PublicPart(rows[a])]

LegacyRows == [a \in legacy |-> PublicPart(rows[a])]

OpenRead(p) ==
    /\ pc[p] = "open"
    /\ GoWith(p, "convert", [local[p] EXCEPT !.todo = LegacyRows])
    /\ UNCHANGED <<storeVars, caVars, legacy, backup, command, deleted>>

\* Mutant: the row is written whether or not it is still to be converted.
StillLegacyUnchecked(a) == a \in DOMAIN rows

\* The WHERE clause of the UPDATE.
StillLegacy(a) == a \in legacy

ConvertRow(p, a) ==
    /\ pc[p] = "convert"
    /\ a \in DOMAIN local[p].todo
    /\ LET account == local[p].todo[a]
       IN  IF ValidEgress(account.egress)
           THEN /\ GoWith(p, "convert",
                         [local[p] EXCEPT !.todo = Without(@, a)])
                /\ IF StillLegacy(a)
                   THEN /\ rows' = [rows EXCEPT ![a] = Row(account, @.cred)]
                        /\ legacy' = legacy \ {a}
                   ELSE UNCHANGED <<rows, legacy>>
           ELSE Go(p, "failed") /\ UNCHANGED <<rows, legacy>>
    /\ UNCHANGED <<history, next_id, submitted, caVars, backup, command,
                   deleted>>

Opened(p) ==
    /\ pc[p] = "convert"
    /\ local[p].todo = Empty
    /\ Go(p, CASE command[p] = "serve" -> "start"
               [] command[p] = "migrate" -> "list"
               [] command[p] = "backup" -> "create")
    /\ UNCHANGED <<storeVars, caVars, legacy, backup, command, deleted>>
-----------------------------------------------------------------------------
(***************************************************************************)
(* import_claudeproxy_env.                                                 *)
(***************************************************************************)
ListAccounts(p) ==
    /\ pc[p] = "list"
    /\ GoWith(p, "import", [local[p] EXCEPT !.existing = DOMAIN rows])
    /\ UNCHANGED <<storeVars, caVars, legacy, backup, command, deleted>>

\* Mutant: what exists is replaced whether or not that was asked for.
SkipsNone(p, id) == FALSE

Skips(p, id) == id \in local[p].existing /\ ~ local[p].replace

ImportAccount(p) ==
    /\ pc[p] = "import"
    /\ local[p].accounts # <<>>
    /\ LET imported == Head(local[p].accounts)
           rest == [local[p] EXCEPT !.accounts = Tail(@)]
       IN  IF Skips(p, imported.id)
           THEN GoWith(p, "import", rest) /\ UNCHANGED <<storeVars, legacy>>
           ELSE IF ValidEgress(imported.account.egress)
           THEN /\ upsert_account(imported.id, imported.account,
                                  imported.secret)
                /\ legacy' = legacy \ {imported.id}
                /\ GoWith(p, "import", rest)
           ELSE Go(p, "failed") /\ UNCHANGED <<storeVars, legacy>>
    /\ UNCHANGED <<caVars, backup, command, deleted>>

\* Mutant: the last account is not waited for.
ImportedEarly(p) ==
    /\ pc[p] = "import"
    /\ Len(local[p].accounts) <= 1
    /\ Go(p, "ok")
    /\ UNCHANGED <<storeVars, caVars, legacy, backup, command, deleted>>

Imported(p) ==
    /\ pc[p] = "import"
    /\ local[p].accounts = <<>>
    /\ Go(p, "ok")
    /\ UNCHANGED <<storeVars, caVars, legacy, backup, command, deleted>>
-----------------------------------------------------------------------------
(***************************************************************************)
(* backup_to.                                                              *)
(***************************************************************************)
\* Mutant: an existing destination is truncated.
CreateDestinationOver(p) ==
    /\ pc[p] = "create"
    /\ backup' = [NoFile EXCEPT !.owner = p, !.is = "partial"]
    /\ Go(p, "copy")
    /\ UNCHANGED <<storeVars, caVars, legacy, command, deleted>>

CreateDestination(p) ==
    /\ pc[p] = "create"
    /\ \/ /\ backup = NoFile
          /\ backup' = [NoFile EXCEPT !.owner = p, !.is = "partial"]
          /\ Go(p, "copy")
       \/ Go(p, "failed") /\ UNCHANGED backup
    /\ UNCHANGED <<storeVars, caVars, legacy, command, deleted>>

\* SQLite starts a copy over when another connection has written meanwhile:
\* the pages are those of the database when the last of them is copied.
run_to_completion(p) ==
    backup' = [owner |-> p, is |-> "whole", rows |-> rows, legacy |-> legacy]

CopyDatabase(p) ==
    /\ pc[p] = "copy"
    /\ \/ run_to_completion(p) /\ Go(p, "verify")
       \/ Go(p, "remove") /\ UNCHANGED backup
    /\ UNCHANGED <<storeVars, caVars, legacy, command, deleted>>

IntegrityCheck(p) ==
    /\ pc[p] = "verify"
    /\ Go(p, "ok") \/ Go(p, "remove")
    /\ UNCHANGED <<storeVars, caVars, legacy, backup, command, deleted>>

\* Whatever is at the path is removed, or cannot be.
RemoveDestination(p) ==
    /\ pc[p] = "remove"
    /\ backup' \in {NoFile, backup}
    /\ Go(p, "failed")
    /\ UNCHANGED <<storeVars, caVars, legacy, command, deleted>>
-----------------------------------------------------------------------------
(***************************************************************************)
(* serve: the router is built from the store, then the forward proxy, if   *)
(* it is enabled, loads its authority.  While it serves, an administrator  *)
(* writes, pauses, resumes and deletes accounts (the whole of that is      *)
(* ControlPlane's).                                                        *)
(***************************************************************************)
BuildRouter(p) ==
    /\ pc[p] = "start"
    /\ Go(p, "authority") \/ Go(p, "serving")
    /\ UNCHANGED <<storeVars, caVars, legacy, backup, command, deleted>>

\* Mutants: files that exist are not looked for; the forward proxy starts
\* with a key it has generated.
AuthorityStepUnchecked(p) ==
    \/ generate_ca(p) /\ command[p] = "ca_init"
    \/ load_ca(p) /\ command[p] = "serve"
    \/ /\ command[p] = "ca_init" /\ stage[p] = "idle" /\ Step(p, "key")
       /\ UNCHANGED <<cert, key>>

AuthorityStepUnread(p) ==
    \/ generate_ca(p) /\ command[p] = "ca_init"
    \/ ReadCert(p) /\ command[p] = "serve"
    \/ /\ stage[p] = "loading" /\ cert_pem[p].is = "whole"
       /\ stage' = [stage EXCEPT ![p] = "loaded"]
       /\ key_pem' = [key_pem EXCEPT ![p] = Written(p)]
       /\ UNCHANGED <<cert, key, cert_pem>>

AuthorityStep(p) ==
    \/ generate_ca(p) /\ command[p] = "ca_init"
    \/ load_ca(p) /\ command[p] = "serve"

UseAuthority(p) ==
    /\ pc[p] = "authority"
    /\ AuthorityStep(p)
    /\ Go(p, CASE stage'[p] \in {"ok", "failed"} -> stage'[p]
               [] stage'[p] = "loaded" -> "serving"
               [] OTHER -> "authority")
    /\ UNCHANGED <<storeVars, legacy, backup, command, deleted>>

\* The administrator's listener does not wait for the forward proxy.
Serves(p) == pc[p] = "serving" \/ (pc[p] = "authority" /\ command[p] = "serve")

AdminWrite(p, a, account) ==
    /\ Serves(p)
    /\ next_id < MaxId
    /\ upsert_account(a, account, [form |-> "raw", expires_at |-> NoExpiry])
    /\ legacy' = legacy \ {a}
    /\ UNCHANGED <<caVars, backup, command, pc, local, deleted>>

\* set_account_enabled reads the account in one critical section and writes
\* it back in another; one such call at a time is modelled.
AdminPauseRead(p, a) ==
    /\ Serves(p)
    /\ local[p].read = Empty
    /\ a \in DOMAIN rows
    /\ local' = [local EXCEPT ![p].read = [b \in {a} |-> PublicPart(rows[a])]]
    /\ UNCHANGED <<storeVars, caVars, legacy, backup, command, pc, deleted>>

AdminPauseWrite(p, a, enabled) ==
    /\ Serves(p)
    /\ a \in DOMAIN local[p].read
    /\ write_account_json(a, local[p].read[a], enabled)
    /\ local' = [local EXCEPT ![p].read = Empty]
    /\ UNCHANGED <<caVars, legacy, backup, command, pc, deleted>>

AdminDelete(p, a) ==
    /\ Serves(p)
    /\ Cardinality(deleted) < MaxDeletes
    /\ delete_account(a)
    /\ legacy' = legacy \ {a}
    /\ deleted' = deleted \cup {a}
    /\ UNCHANGED <<caVars, backup, command, pc, local>>

Shutdown(p) ==
    /\ pc[p] = "serving"
    /\ Go(p, "ok")
    /\ UNCHANGED <<storeVars, caVars, legacy, backup, command, deleted>>
-----------------------------------------------------------------------------
\* The process dies, or a statement on the database fails.
Crash(p) ==
    /\ p \in Running
    /\ Go(p, "failed")
    /\ IF stage[p] \in {"idle", "loaded"} THEN UNCHANGED caVars ELSE CaCrash(p)
    /\ UNCHANGED <<storeVars, legacy, backup, command, deleted>>

CommandNext ==
    \E p \in Process :
        \/ \E c \in Command \ {"migrate"} : Start(p, c)
        \/ \E lines \in Files, replace \in BOOLEAN :
            StartMigrate(p, lines, replace)
        \/ OpenRead(p)
        \/ \E a \in Account : ConvertRow(p, a)
        \/ Opened(p)
        \/ ListAccounts(p)
        \/ ImportAccount(p)
        \/ Imported(p)
        \/ CreateDestination(p)
        \/ CopyDatabase(p)
        \/ IntegrityCheck(p)
        \/ RemoveDestination(p)
        \/ BuildRouter(p)
        \/ UseAuthority(p)
        \/ \E a \in Administered, account \in AccountInput :
            AdminWrite(p, a, account)
        \/ \E a \in Administered : AdminPauseRead(p, a)
        \/ \E a \in Administered, enabled \in BOOLEAN :
            AdminPauseWrite(p, a, enabled)
        \/ \E a \in Administered : AdminDelete(p, a)
        \/ Shutdown(p)
        \/ Crash(p)

CommandSpec == CommandInit /\ [][CommandNext]_commandVars
-----------------------------------------------------------------------------
\* Opening the database never alters an account: whatever two processes that
\* open it at the same time read before the other wrote, and whatever an
\* administrator or an import has written since, a conversion leaves every
\* account as it is (storage.rs:465-490: the list is written only where none
\* has been yet).
OpenKeepsAccounts ==
    [][\A p \in Process : pc[p] = "convert" /\ local'[p] # local[p] =>
        rows' = rows]_commandVars

\* A process that has opened the database finds no egress list in clear in
\* it, now or later, whoever else crashed or failed while converting
\* (storage.rs:143-151, 465-490).
OpenedIsEncrypted ==
    (\E p \in Process : pc[p] \in {"start", "list", "import", "create", "copy",
                                   "verify", "serving"}) => legacy = {}

\* A backup that was reported stays as it is: whole, without lists in clear,
\* and neither replaced nor removed by another run that fails (storage.rs:
\* 501-537; docs/operations.md: the command refuses to overwrite an existing
\* destination).
BackupKept ==
    \A p \in Process :
        command[p] = "backup" /\ pc[p] = "ok" =>
            backup.owner = p /\ backup.is = "whole" /\ backup.legacy = {}

\* An import without --replace leaves alone every account that was there when
\* it began (migration.rs:175-195; docs/migration.md:35 "Existing IDs are
\* skipped.").  Accounts created while it runs are not covered.
ExistingSkipped ==
    [][\A p \in Process :
        pc[p] = "import" /\ local'[p] # local[p] /\ ~ local[p].replace =>
            \A a \in local[p].before \cap DOMAIN rows \cap DOMAIN rows' :
                a \notin deleted => rows'[a] = rows[a]]_commandVars

\* The accounts a file gives a credential for; lines of index 0 are about none.
Submitted(lines) ==
    {l.index : l \in {m \in Range(lines) : m.index # 0
                                          /\ m.part = "credential"}}

ImportedAccount == [id : Nat, account : ProviderAccount, secret : Secret]

\* A file that parses gives each of the accounts it submits once or more, as
\* a sequence (migration.rs:93-164).
ParsesWhole ==
    \A lines \in Files : \A parsed \in parse_claudeproxy_env(lines) :
        /\ parsed \in Seq(ImportedAccount)
        /\ Submitted(lines) \subseteq {parsed[i].id : i \in DOMAIN parsed}

\* An import that reported success has left every account of its file in the
\* store, also when an earlier run of it crashed or failed half way, unless
\* an administrator deleted it (migration.rs:175-195).
ImportComplete ==
    \A p \in Process :
        command[p] = "migrate" /\ pc[p] = "ok" =>
            Submitted(local[p].lines) \subseteq DOMAIN rows \cup deleted

\* An account of a file is enabled only if none of its lines is commented out
\* and its credential is not paused, in whatever order the lines come
\* (migration.rs:136-160, 238; docs/migration.md:28 "preserves
\* commented/paused accounts as disabled").
PausesKept ==
    \A p \in Process : \A imported \in Range(local[p].accounts) :
        LET lines == {l \in Range(local[p].lines) : l.index = imported.id}
        IN  imported.account.enabled =>
                /\ \A l \in lines : l.active
                /\ \E l \in lines : l.part = "credential"
                                    /\ ~ l.credential.paused

\* The commands together use the authority's files as AuthorityFiles says, so
\* what is proved there of any number of processes holds of them.
ImplementsAuthorityFiles == CaSpec
=============================================================================
