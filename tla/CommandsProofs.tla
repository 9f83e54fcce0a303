---------------------------- MODULE CommandsProofs ----------------------------
(***************************************************************************)
(* Proofs about the commands that share the database, the authority's      *)
(* files and a backup destination, for any number of processes, accounts   *)
(* and environment files, and crashes at any step.                         *)
(***************************************************************************)
EXTENDS Commands, TLAPS

-----------------------------------------------------------------------------
(***************************************************************************)
(* The authority's files: what generate_ca reported as created stays, and  *)
(* load_ca never mixes two pairs of runs that did not fail.                *)
(***************************************************************************)
\* Creating the key file is a claim that its creator holds until it removes
\* the key itself, or for ever: nobody else gets to create the certificate.
KeyClaimed ==
    \A p \in Process :
        /\ stage[p] = "writekey" => key = Created(p)
        /\ stage[p] \in {"cert", "writecert", "remove", "ok"} =>
                key = Written(p)

\* The certificate is its creator's.
CertClaimed ==
    \A p \in Process :
        /\ stage[p] = "writecert" => cert = Created(p)
        /\ stage[p] = "ok" => cert = Written(p)

\* The run a certificate c belongs to has passed its checks; until it fails
\* its key is in place.
Accompanied(c) ==
    /\ c.owner \in Process
    /\ stage[c.owner] \in
            {"writecert", "remove", "ok", "failed", "crashed"}
    /\ stage[c.owner] # "failed" => key = Written(c.owner)

CertAccompanied == cert # Absent => Accompanied(cert)

ReadAccompanied ==
    \A p \in Process : stage[p] = "loading" => Accompanied(cert_pem[p])

\* LoadedPairMatches, with what makes it inductive: the owner of a loaded
\* certificate is a process.
LoadedOwner ==
    \A p \in Process : stage[p] = "loaded" => cert_pem[p].owner \in Process

FilesInv ==
    /\ FilesTypeOK
    /\ KeyClaimed
    /\ CertClaimed
    /\ CertAccompanied
    /\ ReadAccompanied
    /\ LoadedOwner
    /\ LoadedPairMatches

\* What tells files apart.
LEMMA FileFacts ==
    \A p, q \in Process :
        /\ Created(p) # Absent /\ Written(p) # Absent
        /\ Created(p) # Written(q)
        /\ Created(p).owner = p /\ Written(p).owner = p
        /\ Created(p) = Created(q) => p = q
        /\ Written(p) = Written(q) => p = q
        /\ Created(p) \in File /\ Written(p) \in File /\ Absent \in File
<1> SUFFICES ASSUME NEW p \in Process, NEW q \in Process
             PROVE  /\ Created(p) # Absent /\ Written(p) # Absent
                    /\ Created(p) # Written(q)
                    /\ Created(p).owner = p /\ Written(p).owner = p
                    /\ Created(p) = Created(q) => p = q
                    /\ Written(p) = Written(q) => p = q
                    /\ Created(p) \in File /\ Written(p) \in File
                    /\ Absent \in File
  OBVIOUS
<1>1. Created(p).owner = p /\ Written(p).owner = p /\ Written(q).owner = q
      /\ Created(q).owner = q
  BY DEF Created, Written
<1>2. /\ Created(p).is = "partial" /\ Written(p).is = "whole"
      /\ Written(q).is = "whole" /\ Absent.is = "absent"
  BY DEF Created, Written, Absent
<1>3. /\ Created(p) # Absent /\ Written(p) # Absent
      /\ Created(p) # Written(q)
  BY <1>2
<1>4. Created(p) \in File /\ Written(p) \in File /\ Absent \in File
  BY DEF File
<1> QED
  BY <1>1, <1>3, <1>4

LEMMA FilesInitInv == CaInit => FilesInv
BY DEF CaInit, FilesInv, FilesTypeOK, KeyClaimed, CertClaimed, CertAccompanied,
       ReadAccompanied, LoadedOwner, LoadedPairMatches, Stage, File

LEMMA CertExistsInv ==
    ASSUME FilesInv, NEW p \in Process, CertExists(p)
    PROVE  FilesInv'
BY FileFacts, SMTT(30)
   DEF FilesInv, FilesTypeOK, KeyClaimed, CertClaimed, CertAccompanied,
       Accompanied, ReadAccompanied, LoadedOwner, LoadedPairMatches, Stage,
       Step, CertExists

LEMMA KeyExistsInv ==
    ASSUME FilesInv, NEW p \in Process, KeyExists(p)
    PROVE  FilesInv'
BY FileFacts, SMTT(30)
   DEF FilesInv, FilesTypeOK, KeyClaimed, CertClaimed, CertAccompanied,
       Accompanied, ReadAccompanied, LoadedOwner, LoadedPairMatches, Stage,
       Step, KeyExists

LEMMA CreateKeyInv ==
    ASSUME FilesInv, NEW p \in Process, CreateKey(p)
    PROVE  FilesInv'
BY FileFacts, SMTT(30)
   DEF FilesInv, FilesTypeOK, KeyClaimed, CertClaimed, CertAccompanied,
       Accompanied, ReadAccompanied, LoadedOwner, LoadedPairMatches, Stage,
       Step, CreateKey

LEMMA WriteKeyInv ==
    ASSUME FilesInv, NEW p \in Process, WriteKey(p)
    PROVE  FilesInv'
BY FileFacts, SMTT(30)
   DEF FilesInv, FilesTypeOK, KeyClaimed, CertClaimed, CertAccompanied,
       Accompanied, ReadAccompanied, LoadedOwner, LoadedPairMatches, Stage,
       Step, WriteKey

LEMMA CreateCertInv ==
    ASSUME FilesInv, NEW p \in Process, CreateCert(p)
    PROVE  FilesInv'
BY FileFacts, SMTT(30)
   DEF FilesInv, FilesTypeOK, KeyClaimed, CertClaimed, CertAccompanied,
       Accompanied, ReadAccompanied, LoadedOwner, LoadedPairMatches, Stage,
       Step, CreateCert

LEMMA WriteCertInv ==
    ASSUME FilesInv, NEW p \in Process, WriteCert(p)
    PROVE  FilesInv'
BY FileFacts, SMTT(30)
   DEF FilesInv, FilesTypeOK, KeyClaimed, CertClaimed, CertAccompanied,
       Accompanied, ReadAccompanied, LoadedOwner, LoadedPairMatches, Stage,
       Step, WriteCert

LEMMA RemoveKeyInv ==
    ASSUME FilesInv, NEW p \in Process, RemoveKey(p)
    PROVE  FilesInv'
BY FileFacts, SMTT(30)
   DEF FilesInv, FilesTypeOK, KeyClaimed, CertClaimed, CertAccompanied,
       Accompanied, ReadAccompanied, LoadedOwner, LoadedPairMatches, Stage,
       Step, RemoveKey

LEMMA ReadCertInv ==
    ASSUME FilesInv, NEW p \in Process, ReadCert(p)
    PROVE  FilesInv'
BY FileFacts, SMTT(30)
   DEF FilesInv, FilesTypeOK, KeyClaimed, CertClaimed, CertAccompanied,
       Accompanied, ReadAccompanied, LoadedOwner, LoadedPairMatches, Stage,
       Step, ReadCert

LEMMA ReadKeyInv ==
    ASSUME FilesInv, NEW p \in Process, ReadKey(p)
    PROVE  FilesInv'
BY FileFacts, SMTT(30)
   DEF FilesInv, FilesTypeOK, KeyClaimed, CertClaimed, CertAccompanied,
       Accompanied, ReadAccompanied, LoadedOwner, LoadedPairMatches, Stage,
       Step, ReadKey

LEMMA CaCrashInv ==
    ASSUME FilesInv, NEW p \in Process, CaCrash(p)
    PROVE  FilesInv'
BY FileFacts, SMTT(30)
   DEF FilesInv, FilesTypeOK, KeyClaimed, CertClaimed, CertAccompanied,
       Accompanied, ReadAccompanied, LoadedOwner, LoadedPairMatches, Stage,
       Step, CaCrash

LEMMA FilesNextInv == FilesInv /\ [CaNext]_caVars => FilesInv'
<1>1. FilesInv /\ UNCHANGED caVars => FilesInv'
  BY DEF caVars, FilesInv, FilesTypeOK, KeyClaimed, CertClaimed,
         CertAccompanied,
         Accompanied, ReadAccompanied, LoadedOwner, LoadedPairMatches
<1> QED
  BY <1>1, CertExistsInv, KeyExistsInv, CreateKeyInv, WriteKeyInv,
     CreateCertInv, WriteCertInv, RemoveKeyInv, ReadCertInv, ReadKeyInv,
     CaCrashInv DEF CaNext, generate_ca, load_ca

\* For any number of runs of `llmap ca init` and `llmap serve`, crashes and
\* write failures: a pair reported as created stays in place, whole.
THEOREM CreatedPairIsKept == CaSpec => []CreatedPairStays
<1>1. FilesInv => CreatedPairStays
  BY DEF FilesInv, KeyClaimed, CertClaimed, CreatedPairStays
<1> QED
  BY <1>1, FilesInitInv, FilesNextInv, PTL DEF CaSpec

\* For any number of them: a loaded certificate and key belong together unless
\* the run that wrote the certificate failed.
THEOREM LoadedPairIsOne == CaSpec => []LoadedPairMatches
BY FilesInitInv, FilesNextInv, PTL DEF CaSpec, FilesInv
-----------------------------------------------------------------------------
(***************************************************************************)
(* The commands use the authority's files as AuthorityFiles says.          *)
(***************************************************************************)
LEMMA AuthorityUse == [CommandNext]_commandVars => [CaNext]_caVars
<1> SUFFICES ASSUME [CommandNext]_commandVars PROVE [CaNext]_caVars
    OBVIOUS
<1>1. CASE UNCHANGED commandVars
    BY <1>1 DEF commandVars
<1>2. ASSUME NEW p \in Process, UseAuthority(p) PROVE CaNext
    BY <1>2 DEF UseAuthority, AuthorityStep, CaNext
<1>3. ASSUME NEW p \in Process, Crash(p) PROVE [CaNext]_caVars
    BY <1>3 DEF Crash, CaNext
<1>4. ASSUME NEW p \in Process, ~ UseAuthority(p), ~ Crash(p),
             \/ \E c \in Command \ {"migrate"} : Start(p, c)
             \/ \E lines \in Files, replace \in BOOLEAN :
                    StartMigrate(p, lines, replace)
             \/ OpenRead(p) \/ Opened(p)
             \/ \E a \in Account : ConvertRow(p, a)
             \/ ListAccounts(p) \/ ImportAccount(p) \/ Imported(p)
             \/ CreateDestination(p) \/ CopyDatabase(p)
             \/ IntegrityCheck(p) \/ RemoveDestination(p)
             \/ BuildRouter(p) \/ Shutdown(p)
             \/ \E a \in Administered, account \in AccountInput :
                    AdminWrite(p, a, account)
             \/ \E a \in Administered : AdminPauseRead(p, a)
             \/ \E a \in Administered, enabled \in BOOLEAN :
                    AdminPauseWrite(p, a, enabled)
             \/ \E a \in Administered : AdminDelete(p, a)
      PROVE  UNCHANGED caVars
    BY <1>4, Zenon DEF Start, StartMigrate, OpenRead, ConvertRow, Opened,
            ListAccounts, ImportAccount, Imported, CreateDestination,
            CopyDatabase, IntegrityCheck, RemoveDestination, BuildRouter,
            AdminWrite, AdminPauseRead, AdminPauseWrite, AdminDelete,
            Shutdown
<1> QED BY <1>1, <1>2, <1>3, <1>4 DEF CommandNext

\* Whatever else the commands do to the database and the backup, they use the
\* authority's files as AuthorityFiles says: every step of theirs is one of
\* its steps or leaves the files alone (forward_proxy.rs:148-193).
THEOREM CommandsUseAuthority == CommandSpec => ImplementsAuthorityFiles
<1>1. CommandInit => CaInit
    BY DEF CommandInit
<1> QED BY <1>1, AuthorityUse, PTL
        DEF CommandSpec, ImplementsAuthorityFiles, CaSpec

\* So a pair that a run of `llmap ca init` reported stays, whatever commands
\* run beside it (forward_proxy.rs:148-179).
THEOREM CommandsKeepPair == CommandSpec => []CreatedPairStays
BY CommandsUseAuthority, CreatedPairIsKept, PTL DEF ImplementsAuthorityFiles

\* And a server that runs beside any commands loads a pair that belongs
\* together, unless the run that wrote the certificate failed
\* (forward_proxy.rs:169-193).
THEOREM ServersLoadOnePair == CommandSpec => []LoadedPairMatches
BY CommandsUseAuthority, LoadedPairIsOne, PTL DEF ImplementsAuthorityFiles
-----------------------------------------------------------------------------
(***************************************************************************)
(* The inductive invariant of the database and the backup: where each      *)
(* command may be, what an open has still to convert, what an import knows *)
(* of the store, and who owns the destination.                             *)
(***************************************************************************)
Fields ==
    {"lines", "replace", "todo", "accounts", "existing", "read", "before"}

Places ==
    /\ DOMAIN pc = Process /\ DOMAIN local = Process /\ DOMAIN command = Process
    /\ \A p \in Process :
        /\ DOMAIN local[p] = Fields
        /\ pc[p] \in {"open", "convert"} =>
                command[p] \in {"serve", "migrate", "backup"}
        /\ pc[p] \in {"list", "import"} => command[p] = "migrate"
        /\ pc[p] \in {"create", "copy", "verify", "remove"} =>
                command[p] = "backup"
        /\ pc[p] \in {"start", "serving"} => command[p] = "serve"
        /\ pc[p] = "authority" => command[p] \in {"serve", "ca_init"}

StoredRow(r) == r = Row(r, r.cred)

Rows ==
    /\ rows = [a \in DOMAIN rows |-> rows[a]]
    /\ legacy \subseteq DOMAIN rows
    /\ \A a \in DOMAIN rows : StoredRow(rows[a])

\* Past the conversion.
HasOpened(p) ==
    \/ pc[p] \in {"start", "list", "import", "create", "copy", "verify",
                  "serving"}
    \/ pc[p] = "authority" /\ command[p] = "serve"

\* What an open read is still right where it will be used.
Converts(p) ==
    /\ pc[p] = "convert" =>
        /\ legacy \subseteq DOMAIN local[p].todo
        /\ \A a \in legacy : local[p].todo[a] = PublicPart(rows[a])
    /\ HasOpened(p) => legacy = {}

\* What an import took for existing, exists; what was there before is in it.
Knows(p) ==
    /\ pc[p] \in {"open", "convert", "list"} =>
            local[p].before \subseteq DOMAIN rows \cup deleted
    /\ pc[p] = "import" =>
        /\ local[p].before \subseteq local[p].existing \cup deleted
        /\ local[p].existing \subseteq DOMAIN rows \cup deleted

BackedUp(p) == command[p] = "backup" /\ pc[p] = "ok"

Owns(p) ==
    /\ pc[p] \in {"copy", "verify", "remove"} \/ BackedUp(p) =>
            backup.owner = p
    /\ pc[p] = "verify" \/ BackedUp(p) =>
            backup.is = "whole" /\ backup.legacy = {}

CommandInv ==
    /\ Places
    /\ Rows
    /\ \A p \in Process : Converts(p) /\ Knows(p) /\ Owns(p)

\* An import still holds, or has stored, every account its file submits.
Ids(imported) == {imported[i].id : i \in DOMAIN imported}

Imports(p) ==
    LET held == local[p]
    IN  /\ pc[p] \in {"open", "convert", "list"} /\ command[p] = "migrate" =>
            Submitted(held.lines) \subseteq Ids(held.accounts)
        /\ pc[p] \in {"open", "convert", "list", "import"}
           /\ command[p] = "migrate" => held.accounts \in Seq(ImportedAccount)
        /\ pc[p] = "import" =>
            Submitted(held.lines)
                \subseteq Ids(held.accounts) \cup DOMAIN rows \cup deleted
        /\ pc[p] = "ok" /\ command[p] = "migrate" =>
            Submitted(held.lines) \subseteq DOMAIN rows \cup deleted

ImportInv == \A p \in Process : Imports(p)

LEMMA RowFacts ==
    ASSUME NEW account, NEW cred
    PROVE  /\ StoredRow(Row(account, cred))
           /\ Row(account, cred).cred = cred
BY DEF StoredRow, Row

LEMMA PublicRow ==
    ASSUME NEW r, StoredRow(r)
    PROVE  Row(PublicPart(r), r.cred) = r
<1>1. Row(PublicPart(r), r.cred) = Row(r, r.cred)
    BY DEF Row, PublicPart
<1> QED BY <1>1 DEF StoredRow

\* Where a step of p leaves each process.
LEMMA Went ==
    ASSUME Places, NEW p \in Process, NEW next, NEW held,
           DOMAIN held = Fields, GoWith(p, next, held)
    PROVE  /\ DOMAIN pc' = Process /\ DOMAIN local' = Process
           /\ pc'[p] = next /\ DOMAIN local'[p] = Fields
           /\ next \notin {"ok", "failed"} => local'[p] = held
           /\ next = "ok" => local'[p].lines = held.lines
           /\ \A q \in Process : q # p =>
                pc'[q] = pc[q] /\ local'[q] = local[q]
<1> DEFINE kept == CASE next = "failed" -> NoLocal
                     [] next = "ok" -> [NoLocal EXCEPT !.lines = held.lines]
                     [] OTHER -> held
<1>1. DOMAIN NoLocal = Fields
    BY DEF NoLocal, Fields
<1>2. /\ pc' = [pc EXCEPT ![p] = next]
      /\ local' = [local EXCEPT ![p] = kept]
    BY DEF GoWith
<1>3. /\ next \notin {"ok", "failed"} => kept = held
      /\ next = "failed" => kept = NoLocal
      /\ next = "ok" => kept = [NoLocal EXCEPT !.lines = held.lines]
    OBVIOUS
<1>4. next = "ok" => DOMAIN kept = Fields /\ kept.lines = held.lines
    BY <1>3 DEF NoLocal, Fields
<1> HIDE DEF kept
<1>5. DOMAIN kept = Fields
    BY <1>1, <1>3, <1>4
<1> QED BY <1>2, <1>3, <1>4, <1>5 DEF Places

\* The steps that leave rows, legacy rows and deletes in a good relation to
\* what a process knows of them.
Frame ==
    /\ legacy' \subseteq legacy
    /\ \A a \in legacy' : rows'[a] = rows[a]
    /\ DOMAIN rows \subseteq DOMAIN rows' \cup deleted'
    /\ deleted \subseteq deleted'

Same(q) == UNCHANGED <<pc[q], local[q], command[q]>>

LEMMA OtherKnows ==
    ASSUME Frame, NEW q \in Process, Same(q), Converts(q), Knows(q)
    PROVE  Converts(q)' /\ Knows(q)'
<1>1. Converts(q)'
    BY DEF Frame, Same, Converts, HasOpened, PublicPart
<1>2. Knows(q)'
    BY DEF Frame, Same, Knows
<1> QED BY <1>1, <1>2

\* A step of p that leaves the destination alone, or to p alone.
LEMMA OtherOwns ==
    ASSUME NEW p \in Process, NEW q \in Process, q # p, Same(q), Owns(q),
           \/ UNCHANGED backup
           \/ backup.owner = p \/ backup.owner = 0
    PROVE  Owns(q)'
BY ProcessAssumption DEF Same, Owns, BackedUp

LEMMA ProcessStep ==
    ASSUME CommandInv, NEW p \in Process, Frame, Places', Rows',
           \A q \in Process : q # p => Same(q),
           UNCHANGED backup \/ backup.owner = p \/ backup.owner = 0,
           Converts(p)', Knows(p)', Owns(p)'
    PROVE  CommandInv'
<1>1. ASSUME NEW q \in Process, q # p
      PROVE  Converts(q)' /\ Knows(q)' /\ Owns(q)'
    BY <1>1, OtherKnows, OtherOwns DEF CommandInv
<1> QED BY <1>1 DEF CommandInv

PlaceOK(c, next) ==
    /\ next \in {"open", "convert"} => c \in {"serve", "migrate", "backup"}
    /\ next \in {"list", "import"} => c = "migrate"
    /\ next \in {"create", "copy", "verify", "remove"} => c = "backup"
    /\ next \in {"start", "serving"} => c = "serve"
    /\ next = "authority" => c \in {"serve", "ca_init"}

LEMMA WentPlace ==
    ASSUME Places, NEW p \in Process, NEW next, NEW held,
           DOMAIN held = Fields, GoWith(p, next, held),
           DOMAIN command' = Process,
           \A q \in Process : q # p => command'[q] = command[q],
           PlaceOK(command'[p], next)
    PROVE  Places' /\ \A q \in Process : q # p => Same(q)
<1>1. \A q \in Process : q # p => Same(q)
    BY Went DEF Same
<1>2. /\ DOMAIN pc' = Process /\ DOMAIN local' = Process
      /\ pc'[p] = next /\ DOMAIN local'[p] = Fields
    BY Went
<1>3. ASSUME NEW q \in Process
      PROVE  DOMAIN local'[q] = Fields /\ PlaceOK(command'[q], pc'[q])
    BY <1>1, <1>2 DEF Same, Places, PlaceOK
<1>4. Places'
    BY <1>2, <1>3 DEF Places, PlaceOK
<1> QED BY <1>1, <1>4

\* A step of p that leaves the store alone.
LEMMA QuietStep ==
    ASSUME CommandInv, NEW p \in Process, NEW next, NEW held,
           DOMAIN held = Fields, GoWith(p, next, held),
           UNCHANGED <<rows, legacy, deleted>>,
           UNCHANGED backup \/ backup.owner = p \/ backup.owner = 0,
           DOMAIN command' = Process,
           \A q \in Process : q # p => command'[q] = command[q],
           PlaceOK(command'[p], next),
           Converts(p)', Knows(p)', Owns(p)'
    PROVE  CommandInv'
<1>1. Places' /\ \A q \in Process : q # p => Same(q)
    BY WentPlace DEF CommandInv
<1>2. Frame /\ Rows'
    BY DEF Frame, Rows, CommandInv
<1> QED BY <1>1, <1>2, ProcessStep

\* A step that ends a command other than a backup that succeeds.
LEMMA LastStep ==
    ASSUME CommandInv, NEW p \in Process, NEW next \in {"ok", "failed"},
           Go(p, next), UNCHANGED <<rows, legacy, deleted, command>>,
           UNCHANGED backup \/ backup.owner = p \/ backup.owner = 0,
           next = "ok" => command[p] # "backup"
    PROVE  CommandInv'
<1>1. DOMAIN local[p] = Fields /\ DOMAIN command = Process /\ Places
    BY DEF CommandInv, Places
<1>2. pc'[p] = next
    BY <1>1, Went DEF Go
<1>3. Converts(p)' /\ Knows(p)' /\ Owns(p)'
    BY <1>2 DEF Converts, HasOpened, Knows, Owns, BackedUp
<1>4. PlaceOK(command'[p], next) /\ GoWith(p, next, local[p])
    BY DEF PlaceOK, Go
<1> QED BY <1>1, <1>3, <1>4, QuietStep

LEMMA StartedFacts ==
    /\ DOMAIN Started = Fields
    /\ Started.before = DOMAIN rows
BY DEF Started, NoLocal, Fields

LEMMA BeginInv ==
    ASSUME CommandInv, NEW p \in Process, NEW c, NEW next, NEW held,
           \/ c = "ca_init" /\ next = "authority"
           \/ c \in {"serve", "backup", "migrate"} /\ next = "open",
           command' = [command EXCEPT ![p] = c],
           DOMAIN held = Fields, held.before = DOMAIN rows,
           GoWith(p, next, held),
           UNCHANGED <<rows, legacy, deleted, backup>>
    PROVE  CommandInv'
<1>1. Places
    BY DEF CommandInv
<1>2. /\ DOMAIN command' = Process /\ command'[p] = c
      /\ \A q \in Process : q # p => command'[q] = command[q]
    BY <1>1 DEF Places
<1>3. pc'[p] = next /\ local'[p] = held
    <2>1. next \notin {"ok", "failed"}
        OBVIOUS
    <2>2. pc'[p] = next /\ (next \notin {"ok", "failed"} => local'[p] = held)
        BY <1>1, Went
    <2> QED BY <2>1, <2>2
<1>4. PlaceOK(command'[p], next)
    BY <1>2 DEF PlaceOK
<1>5. Converts(p)' /\ Knows(p)' /\ Owns(p)'
    BY <1>2, <1>3 DEF Converts, HasOpened, Knows, Owns, BackedUp
<1> QED BY <1>2, <1>4, <1>5, QuietStep

LEMMA StartInv ==
    ASSUME CommandInv, NEW p \in Process,
           \/ \E c \in Command \ {"migrate"} : Start(p, c)
           \/ \E lines \in Files, replace \in BOOLEAN :
                StartMigrate(p, lines, replace)
    PROVE  CommandInv'
<1>1. ASSUME NEW c \in Command \ {"migrate"}, Start(p, c) PROVE CommandInv'
    <2>1. UNCHANGED <<rows, legacy, deleted, backup>>
        BY <1>1 DEF Start, storeVars
    <2>2. command' = [command EXCEPT ![p] = c]
        BY <1>1 DEF Start
    <2>3. CASE c = "ca_init"
        <3>1. GoWith(p, "authority", Started)
            BY <1>1, <2>3 DEF Start
        <3> QED BY <2>1, <2>2, <2>3, <3>1, StartedFacts, BeginInv, Zenon
    <2>4. CASE c \in {"serve", "backup"}
        <3>1. GoWith(p, "open", Started)
            BY <1>1, <2>4 DEF Start
        <3> QED BY <2>1, <2>2, <2>4, <3>1, StartedFacts, BeginInv, Zenon
    <2> QED BY <2>3, <2>4 DEF Command
<1>2. ASSUME NEW lines \in Files, NEW replace \in BOOLEAN,
             StartMigrate(p, lines, replace)
      PROVE  CommandInv'
    <2>1. /\ UNCHANGED <<rows, legacy, deleted, backup>>
          /\ command' = [command EXCEPT ![p] = "migrate"]
        BY <1>2, Zenon DEF StartMigrate, storeVars
    <2>2. ASSUME NEW parsed,
                 GoWith(p, "open", [Started EXCEPT !.lines = lines,
                                                   !.replace = replace,
                                                   !.accounts = parsed])
          PROVE  CommandInv'
        <3> DEFINE held == [Started EXCEPT !.lines = lines,
                                           !.replace = replace,
                                           !.accounts = parsed]
        <3>1. DOMAIN held = Fields /\ held.before = DOMAIN rows
            BY DEF Started, NoLocal, Fields
        <3> HIDE DEF held
        <3>2. GoWith(p, "open", held)
            BY <2>2 DEF held
        <3> QED BY <2>1, <3>1, <3>2, BeginInv, Zenon
    <2>3. ASSUME Go(p, "failed") PROVE CommandInv'
        <3>1. Places /\ DOMAIN local[p] = Fields
            BY DEF CommandInv, Places
        <3>2. pc'[p] = "failed"
            BY <2>3, <3>1, Went DEF Go
        <3>3. Converts(p)' /\ Knows(p)' /\ Owns(p)'
            BY <3>2 DEF Converts, HasOpened, Knows, Owns, BackedUp
        <3>4. /\ DOMAIN command' = Process
              /\ \A q \in Process : q # p => command'[q] = command[q]
              /\ PlaceOK(command'[p], "failed")
            BY <2>1, <3>1 DEF Places, PlaceOK
        <3> QED BY <2>1, <2>3, <3>1, <3>3, <3>4, QuietStep DEF Go
    <2> QED BY <1>2, <2>2, <2>3, Zenon DEF StartMigrate
<1> QED BY <1>1, <1>2

\* Where p is after a step within its command, and what it holds.
LEMMA Moved ==
    ASSUME CommandInv, NEW p \in Process, NEW next, NEW held,
           DOMAIN held = Fields, GoWith(p, next, held),
           next \notin {"ok", "failed"}
    PROVE  pc'[p] = next /\ local'[p] = held
BY Went DEF CommandInv

LEMMA HoldsFields ==
    ASSUME CommandInv, NEW p \in Process
    PROVE  DOMAIN local[p] = Fields /\ DOMAIN command = Process
BY DEF CommandInv, Places

\* A step of p within its command that leaves the store alone.
LEMMA MoveInv ==
    ASSUME CommandInv, NEW p \in Process, NEW next, NEW held,
           DOMAIN held = Fields, GoWith(p, next, held),
           UNCHANGED <<rows, legacy, deleted, command>>,
           UNCHANGED backup \/ backup.owner = p \/ backup.owner = 0,
           PlaceOK(command[p], next),
           Converts(p)', Knows(p)', Owns(p)'
    PROVE  CommandInv'
BY HoldsFields, QuietStep

LEMMA OpenReadInv ==
    ASSUME CommandInv, NEW p \in Process, OpenRead(p) PROVE CommandInv'
<1> DEFINE held == [local[p] EXCEPT !.todo = LegacyRows]
<1>1. DOMAIN local[p] = Fields
    BY HoldsFields
<1>2. DOMAIN held = Fields /\ held.todo = LegacyRows
      /\ held.before = local[p].before
    BY <1>1 DEF Fields
<1> HIDE DEF held
<1>3. /\ pc[p] = "open" /\ GoWith(p, "convert", held)
      /\ UNCHANGED <<rows, legacy, deleted, command, backup>>
    BY DEF OpenRead, storeVars, held
<1>4. pc'[p] = "convert" /\ local'[p] = held
    BY <1>2, <1>3, Moved
<1>5. DOMAIN held.todo = legacy
      /\ \A a \in legacy : held.todo[a] = PublicPart(rows[a])
    BY <1>2 DEF LegacyRows
<1>6. Converts(p)'
    BY <1>3, <1>4, <1>5 DEF Converts, HasOpened, PublicPart
<1>7. Knows(p)'
    BY <1>2, <1>3, <1>4 DEF CommandInv, Knows
<1>8. Owns(p)' /\ PlaceOK(command[p], "convert")
    BY <1>3, <1>4 DEF CommandInv, Places, Owns, BackedUp, PlaceOK
<1> QED BY <1>2, <1>3, <1>6, <1>7, <1>8, MoveInv

LEMMA ConvertRowInv ==
    ASSUME CommandInv, NEW p \in Process, NEW a \in Account, ConvertRow(p, a)
    PROVE  CommandInv' /\ UNCHANGED rows
<1> DEFINE held == [local[p] EXCEPT !.todo = Without(@, a)]
           account == local[p].todo[a]
<1>1. /\ pc[p] = "convert" /\ a \in DOMAIN local[p].todo
      /\ UNCHANGED <<backup, command, deleted>>
    BY DEF ConvertRow
<1>2. CASE ~ ValidEgress(account.egress)
    <2>1. Go(p, "failed") /\ UNCHANGED <<rows, legacy>>
        BY <1>2 DEF ConvertRow
    <2> QED BY <1>1, <2>1, LastStep
<1>3. CASE ValidEgress(account.egress)
    <2>1. DOMAIN local[p] = Fields /\ DOMAIN command = Process
        BY HoldsFields
    <2>2. /\ DOMAIN held = Fields /\ held.before = local[p].before
          /\ held.todo = Without(local[p].todo, a)
        BY <2>1 DEF Fields
    <2>3. /\ DOMAIN held.todo = DOMAIN local[p].todo \ {a}
          /\ \A b \in DOMAIN held.todo : held.todo[b] = local[p].todo[b]
        BY <2>2 DEF Without, Restrict
    <2>4. GoWith(p, "convert", held)
        BY <1>3 DEF ConvertRow
    <2> HIDE DEF held
    <2>5. legacy' = legacy \ {a} /\ UNCHANGED rows
        <3>1. CASE a \in legacy
            <4>1. /\ a \in DOMAIN rows /\ StoredRow(rows[a])
                  /\ account = PublicPart(rows[a])
                BY <1>1, <3>1 DEF CommandInv, Rows, Converts
            <4>2. /\ rows' = [rows EXCEPT ![a] = Row(account, rows[a].cred)]
                  /\ legacy' = legacy \ {a}
                BY <1>3, <3>1 DEF ConvertRow, StillLegacy
            <4>3. Row(account, rows[a].cred) = rows[a]
                BY <4>1, PublicRow
            <4>4. rows = [b \in DOMAIN rows |-> rows[b]]
                BY DEF CommandInv, Rows
            <4> QED BY <4>1, <4>2, <4>3, <4>4
        <3>2. CASE a \notin legacy
            <4>1. UNCHANGED <<rows, legacy>>
                BY <1>3, <3>2 DEF ConvertRow, StillLegacy
            <4> QED BY <3>2, <4>1
        <3> QED BY <3>1, <3>2
    <2>6. pc'[p] = "convert" /\ local'[p] = held
        BY <2>2, <2>4, Moved
    <2>7. Converts(p)'
        BY <1>1, <2>3, <2>5, <2>6
        DEF CommandInv, Converts, HasOpened, PublicPart
    <2>8. Knows(p)' /\ Owns(p)'
        BY <1>1, <2>2, <2>5, <2>6 DEF CommandInv, Knows, Owns, BackedUp
    <2>9. Frame /\ Rows'
        BY <1>1, <2>5 DEF CommandInv, Frame, Rows
    <2>10. PlaceOK(command'[p], "convert")
        BY <1>1 DEF CommandInv, Places, PlaceOK
    <2>11. Places' /\ \A q \in Process : q # p => Same(q)
        BY <1>1, <2>1, <2>2, <2>4, <2>10, WentPlace DEF CommandInv
    <2> QED BY <1>1, <2>5, <2>7, <2>8, <2>9, <2>11, ProcessStep
<1> QED BY <1>2, <1>3

LEMMA OpenedInv ==
    ASSUME CommandInv, NEW p \in Process, Opened(p) PROVE CommandInv'
<1>1. /\ pc[p] = "convert" /\ local[p].todo = Empty
      /\ UNCHANGED <<rows, legacy, deleted, command, backup>>
    BY DEF Opened, storeVars
<1>2. DOMAIN local[p] = Fields /\ legacy = {}
    BY <1>1 DEF CommandInv, Places, Converts, Empty
<1>3. PICK next :
        /\ \/ next = "start" /\ command[p] = "serve"
           \/ next = "list" /\ command[p] = "migrate"
           \/ next = "create" /\ command[p] = "backup"
        /\ GoWith(p, next, local[p])
    BY <1>1 DEF CommandInv, Places, Opened, Go
<1>4. next \in {"start", "list", "create"} /\ PlaceOK(command[p], next)
    BY <1>3 DEF PlaceOK
<1>5. pc'[p] = next /\ local'[p] = local[p]
    BY <1>2, <1>3, <1>4, Moved
<1>6. Converts(p)' /\ Knows(p)' /\ Owns(p)'
    BY <1>1, <1>2, <1>4, <1>5
    DEF CommandInv, Converts, Knows, Owns, BackedUp
<1> QED BY <1>1, <1>2, <1>3, <1>4, <1>6, MoveInv

LEMMA ListAccountsInv ==
    ASSUME CommandInv, NEW p \in Process, ListAccounts(p) PROVE CommandInv'
<1> DEFINE held == [local[p] EXCEPT !.existing = DOMAIN rows]
<1>1. DOMAIN local[p] = Fields
    BY HoldsFields
<1>2. DOMAIN held = Fields /\ held.existing = DOMAIN rows
      /\ held.before = local[p].before
    BY <1>1 DEF Fields
<1> HIDE DEF held
<1>3. /\ pc[p] = "list" /\ GoWith(p, "import", held)
      /\ UNCHANGED <<rows, legacy, deleted, command, backup>>
    BY DEF ListAccounts, storeVars, held
<1>4. pc'[p] = "import" /\ local'[p] = held
    BY <1>2, <1>3, Moved
<1>5. Converts(p)'
    BY <1>3, <1>4 DEF CommandInv, Converts, HasOpened
<1>6. Knows(p)'
    BY <1>2, <1>3, <1>4 DEF CommandInv, Knows
<1>7. Owns(p)' /\ PlaceOK(command[p], "import")
    BY <1>3, <1>4 DEF CommandInv, Places, Owns, BackedUp, PlaceOK
<1> QED BY <1>2, <1>3, <1>5, <1>6, <1>7, MoveInv

\* A write or a delete takes its row off the legacy ones.
LEMMA UpsertFrame ==
    ASSUME CommandInv, NEW a, NEW account, NEW secret,
           upsert_account(a, account, secret), legacy' = legacy \ {a},
           UNCHANGED deleted
    PROVE  /\ Frame /\ Rows'
           /\ \A b \in DOMAIN rows : b # a => rows'[b] = rows[b]
           /\ DOMAIN rows' = DOMAIN rows \cup {a}
<1> DEFINE row == Row(account, encrypt(secret, next_id))
<1>1. rows' = With(rows, a, row)
    BY DEF upsert_account
<1>2. StoredRow(row)
    BY RowFacts
<1> HIDE DEF row
<1>3. /\ DOMAIN rows' = DOMAIN rows \cup {a} /\ rows'[a] = row
      /\ \A b \in DOMAIN rows : b # a => rows'[b] = rows[b]
      /\ rows' = [b \in DOMAIN rows' |-> rows'[b]]
    BY <1>1 DEF With
<1>4. Frame /\ Rows'
    BY <1>2, <1>3 DEF CommandInv, Frame, Rows
<1> QED BY <1>3, <1>4

LEMMA DeleteFrame ==
    ASSUME CommandInv, NEW a, delete_account(a), legacy' = legacy \ {a},
           deleted' = deleted \cup {a}
    PROVE  Frame /\ Rows' /\ \A b \in DOMAIN rows' : rows'[b] = rows[b]
<1>1. /\ DOMAIN rows' = DOMAIN rows \ {a}
      /\ \A b \in DOMAIN rows' : rows'[b] = rows[b]
      /\ rows' = [b \in DOMAIN rows' |-> rows'[b]]
    BY DEF delete_account, Without, Restrict
<1> QED BY <1>1 DEF CommandInv, Frame, Rows

LEMMA WriteKeepsRows ==
    ASSUME Rows, UNCHANGED legacy, NEW a, NEW read, NEW enabled,
           write_account_json(a, read, enabled)
    PROVE  Rows' /\ DOMAIN rows' = DOMAIN rows
<1>1. CASE a \notin DOMAIN rows
    BY <1>1 DEF write_account_json, Rows
<1>2. CASE a \in DOMAIN rows
    <2> DEFINE account == [kind |-> read.kind, enabled |-> enabled,
                           models |-> read.models, egress |-> rows[a].egress]
               row == Row(account, rows[a].cred)
    <2>1. row = [kind |-> read.kind, enabled |-> enabled,
                 models |-> read.models, egress |-> rows[a].egress,
                 cred |-> rows[a].cred]
        BY DEF Row
    <2>2. rows' = With(rows, a, row)
        BY <1>2, <2>1 DEF write_account_json
    <2>3. StoredRow(row)
        BY RowFacts
    <2> HIDE DEF row
    <2>4. /\ DOMAIN rows' = DOMAIN rows /\ rows'[a] = row
          /\ \A b \in DOMAIN rows : b # a => rows'[b] = rows[b]
          /\ rows' = [b \in DOMAIN rows' |-> rows'[b]]
        BY <1>2, <2>2 DEF With
    <2> QED BY <2>3, <2>4 DEF Rows
<1> QED BY <1>1, <1>2

LEMMA ImportAccountInv ==
    ASSUME CommandInv, NEW p \in Process, ImportAccount(p) PROVE CommandInv'
<1> DEFINE imported == Head(local[p].accounts)
           rest == [local[p] EXCEPT !.accounts = Tail(@)]
<1>1. pc[p] = "import" /\ UNCHANGED <<backup, command, deleted>>
    BY DEF ImportAccount
<1>2. DOMAIN local[p] = Fields /\ DOMAIN command = Process
    BY HoldsFields
<1>3. /\ DOMAIN rest = Fields /\ rest.before = local[p].before
      /\ rest.existing = local[p].existing
    BY <1>2 DEF Fields
<1>4. \/ GoWith(p, "import", rest) /\ UNCHANGED <<rows, legacy>>
      \/ /\ upsert_account(imported.id, imported.account, imported.secret)
         /\ legacy' = legacy \ {imported.id}
         /\ GoWith(p, "import", rest)
      \/ Go(p, "failed") /\ UNCHANGED <<rows, legacy>>
    BY DEF ImportAccount, storeVars
<1> HIDE DEF imported, rest
<1>5. PlaceOK(command[p], "import")
    BY <1>1 DEF CommandInv, Places, PlaceOK
<1>6. ASSUME GoWith(p, "import", rest), Frame, Rows' PROVE CommandInv'
    <2>1. pc'[p] = "import" /\ local'[p] = rest
        BY <1>3, <1>6, Moved
    <2>2. Converts(p)'
        BY <1>1, <1>6, <2>1 DEF CommandInv, Converts, HasOpened, Frame
    <2>3. Knows(p)' /\ Owns(p)'
        BY <1>1, <1>3, <1>6, <2>1
        DEF CommandInv, Knows, Owns, BackedUp, Frame
    <2>4. Places' /\ \A q \in Process : q # p => Same(q)
        BY <1>1, <1>2, <1>3, <1>5, <1>6, WentPlace DEF CommandInv
    <2> QED BY <1>1, <1>6, <2>2, <2>3, <2>4, ProcessStep
<1>7. CASE GoWith(p, "import", rest) /\ UNCHANGED <<rows, legacy>>
    <2>1. Frame /\ Rows'
        BY <1>1, <1>7 DEF CommandInv, Frame, Rows
    <2> QED BY <1>6, <1>7, <2>1
<1>8. CASE /\ upsert_account(imported.id, imported.account, imported.secret)
           /\ legacy' = legacy \ {imported.id}
           /\ GoWith(p, "import", rest)
    <2>1. Frame /\ Rows'
        BY <1>1, <1>8, UpsertFrame, Zenon
    <2> QED BY <1>6, <1>8, <2>1
<1>9. CASE Go(p, "failed") /\ UNCHANGED <<rows, legacy>>
    BY <1>1, <1>9, LastStep
<1> QED BY <1>4, <1>7, <1>8, <1>9

LEMMA AdminInv ==
    ASSUME CommandInv, NEW p \in Process,
           \/ \E a \in Administered, account \in AccountInput :
                AdminWrite(p, a, account)
           \/ \E a \in Administered : AdminDelete(p, a)
    PROVE  CommandInv'
<1>1. UNCHANGED <<backup, command, pc, local>>
    BY DEF AdminWrite, AdminDelete
<1>2. Frame /\ Rows'
    <2>1. ASSUME NEW a \in Administered, NEW account \in AccountInput,
                 AdminWrite(p, a, account)
          PROVE  Frame /\ Rows'
        BY <2>1, UpsertFrame, Zenon DEF AdminWrite
    <2>2. ASSUME NEW a \in Administered, AdminDelete(p, a) PROVE Frame /\ Rows'
        BY <2>2, DeleteFrame DEF AdminDelete
    <2> QED BY <2>1, <2>2
<1>3. Places' /\ \A q \in Process : Same(q)
    BY <1>1 DEF CommandInv, Places, Same
<1>4. Converts(p)' /\ Knows(p)'
    BY <1>2, <1>3, OtherKnows DEF CommandInv
<1>5. Owns(p)'
    BY <1>1 DEF CommandInv, Owns, BackedUp
<1> QED BY <1>1, <1>2, <1>3, <1>4, <1>5, ProcessStep

\* A pause or resume reads and writes in a process that has opened the
\* database: no row is a legacy one any more, and none comes or goes.
LEMMA PauseFrame ==
    ASSUME CommandInv, NEW p \in Process,
           \/ \E a \in Administered : AdminPauseRead(p, a)
           \/ \E a \in Administered, enabled \in BOOLEAN :
                AdminPauseWrite(p, a, enabled)
    PROVE  /\ pc[p] \in {"serving", "authority"} /\ legacy = {}
           /\ Rows' /\ DOMAIN rows' = DOMAIN rows
           /\ UNCHANGED <<legacy, backup, command, pc, deleted>>
           /\ DOMAIN local' = Process /\ DOMAIN local'[p] = Fields
           /\ \A q \in Process : q # p => local'[q] = local[q]
<1>1. ASSUME Serves(p) PROVE pc[p] \in {"serving", "authority"} /\ legacy = {}
    BY <1>1 DEF CommandInv, Converts, HasOpened, Serves
<1>2. DOMAIN local = Process /\ DOMAIN local[p] = Fields
    BY DEF CommandInv, Places
<1>3. ASSUME NEW held, local' = [local EXCEPT ![p].read = held]
      PROVE  /\ DOMAIN local' = Process /\ DOMAIN local'[p] = Fields
             /\ \A q \in Process : q # p => local'[q] = local[q]
    BY <1>2, <1>3
<1>4. CASE \E a \in Administered : AdminPauseRead(p, a)
    <2>1. PICK a \in Administered : AdminPauseRead(p, a)
        BY <1>4
    <2>2. /\ Serves(p) /\ UNCHANGED <<rows, legacy>>
          /\ UNCHANGED <<backup, command, pc, deleted>>
          /\ local' = [local EXCEPT ![p].read =
                            [b \in {a} |-> PublicPart(rows[a])]]
        BY <2>1 DEF AdminPauseRead, storeVars
    <2>3. Rows'
        BY <2>2 DEF CommandInv, Rows
    <2> QED BY <1>1, <1>3, <2>2, <2>3, Zenon
<1>5. CASE \E a \in Administered, enabled \in BOOLEAN :
                AdminPauseWrite(p, a, enabled)
    <2>1. PICK a \in Administered, enabled \in BOOLEAN :
                AdminPauseWrite(p, a, enabled)
        BY <1>5
    <2>2. /\ Serves(p) /\ UNCHANGED <<legacy, backup, command, pc, deleted>>
          /\ local' = [local EXCEPT ![p].read = Empty]
          /\ write_account_json(a, local[p].read[a], enabled)
        BY <2>1 DEF AdminPauseWrite
    <2>3. Rows' /\ DOMAIN rows' = DOMAIN rows
        BY <2>2, WriteKeepsRows DEF CommandInv
    <2> QED BY <1>1, <1>3, <2>2, <2>3, Zenon
<1> QED BY <1>4, <1>5

LEMMA PauseInv ==
    ASSUME CommandInv, NEW p \in Process,
           \/ \E a \in Administered : AdminPauseRead(p, a)
           \/ \E a \in Administered, enabled \in BOOLEAN :
                AdminPauseWrite(p, a, enabled)
    PROVE  CommandInv'
<1>1. /\ pc[p] \in {"serving", "authority"} /\ legacy = {}
      /\ Rows' /\ DOMAIN rows' = DOMAIN rows
      /\ UNCHANGED <<legacy, backup, command, pc, deleted>>
      /\ DOMAIN local' = Process /\ DOMAIN local'[p] = Fields
      /\ \A q \in Process : q # p => local'[q] = local[q]
    BY PauseFrame
<1>2. Frame /\ \A q \in Process : q # p => Same(q)
    BY <1>1 DEF Frame, Same
<1>3. Places'
    BY <1>1 DEF CommandInv, Places
<1>4. Converts(p)' /\ Knows(p)' /\ Owns(p)'
    BY <1>1 DEF CommandInv, Converts, Knows, Owns, BackedUp
<1> QED BY <1>1, <1>2, <1>3, <1>4, ProcessStep

\* A step of a backup, which owns the destination after it.
LEMMA BackupStep ==
    ASSUME CommandInv, NEW p \in Process,
           NEW next \in {"copy", "verify", "remove", "ok"},
           Go(p, next), HasOpened(p) \/ next = "remove", command[p] = "backup",
           UNCHANGED <<rows, legacy, deleted, command>>,
           UNCHANGED backup \/ backup.owner = p \/ backup.owner = 0,
           backup'.owner = p,
           next \in {"verify", "ok"} =>
                backup'.is = "whole" /\ backup'.legacy = {}
    PROVE  CommandInv'
<1>1. DOMAIN local[p] = Fields /\ DOMAIN command = Process /\ Places
    BY DEF CommandInv, Places
<1>2. GoWith(p, next, local[p])
    BY DEF Go
<1>3. pc'[p] = next
    BY <1>1, <1>2, Went
<1>4. Converts(p)'
    BY <1>3 DEF CommandInv, Converts, HasOpened
<1>5. Knows(p)'
    BY <1>3 DEF Knows
<1>6. Owns(p)' /\ PlaceOK(command[p], next)
    BY <1>3 DEF Owns, BackedUp, PlaceOK
<1> QED BY <1>1, <1>2, <1>4, <1>5, <1>6, MoveInv

LEMMA CreateDestinationInv ==
    ASSUME CommandInv, NEW p \in Process, CreateDestination(p)
    PROVE  CommandInv'
<1>1. /\ pc[p] = "create" /\ UNCHANGED <<rows, legacy, deleted, command>>
    BY DEF CreateDestination, storeVars
<1>2. HasOpened(p) /\ command[p] = "backup"
    BY <1>1 DEF CommandInv, Places, HasOpened
<1>3. CASE Go(p, "failed") /\ UNCHANGED backup
    BY <1>1, <1>3, LastStep
<1>4. CASE /\ backup = NoFile /\ Go(p, "copy")
           /\ backup' = [NoFile EXCEPT !.owner = p, !.is = "partial"]
    <2>1. backup.owner = 0 /\ backup'.owner = p
        BY <1>4 DEF NoFile
    <2> QED BY <1>1, <1>2, <1>4, <2>1, BackupStep
<1> QED BY <1>3, <1>4 DEF CreateDestination

LEMMA CopyDatabaseInv ==
    ASSUME CommandInv, NEW p \in Process, CopyDatabase(p)
    PROVE  CommandInv'
<1>1. /\ pc[p] = "copy" /\ UNCHANGED <<rows, legacy, deleted, command>>
    BY DEF CopyDatabase, storeVars
<1>2. /\ HasOpened(p) /\ command[p] = "backup"
      /\ backup.owner = p /\ legacy = {}
    BY <1>1 DEF CommandInv, Places, HasOpened, Owns, Converts
<1>3. CASE Go(p, "remove") /\ UNCHANGED backup
    BY <1>1, <1>2, <1>3, BackupStep
<1>4. CASE run_to_completion(p) /\ Go(p, "verify")
    <2>1. backup'.owner = p /\ backup'.is = "whole" /\ backup'.legacy = {}
        BY <1>2, <1>4 DEF run_to_completion
    <2> QED BY <1>1, <1>2, <1>4, <2>1, BackupStep
<1> QED BY <1>3, <1>4 DEF CopyDatabase

LEMMA IntegrityCheckInv ==
    ASSUME CommandInv, NEW p \in Process, IntegrityCheck(p)
    PROVE  CommandInv'
<1>1. /\ pc[p] = "verify"
      /\ UNCHANGED <<rows, legacy, deleted, command, backup>>
    BY DEF IntegrityCheck, storeVars
<1>2. /\ HasOpened(p) /\ command[p] = "backup"
      /\ backup.owner = p /\ backup.is = "whole" /\ backup.legacy = {}
    BY <1>1 DEF CommandInv, Places, HasOpened, Owns
<1> QED BY <1>1, <1>2, BackupStep DEF IntegrityCheck

LEMMA RemoveDestinationInv ==
    ASSUME CommandInv, NEW p \in Process, RemoveDestination(p)
    PROVE  CommandInv'
<1>1. /\ pc[p] = "remove" /\ Go(p, "failed")
      /\ UNCHANGED <<rows, legacy, deleted, command>>
    BY DEF RemoveDestination, storeVars
<1>2. backup.owner = p
    BY <1>1 DEF CommandInv, Owns
<1> QED BY <1>1, <1>2, LastStep

\* A step of a server that stays past the conversion, or of ca init.
LEMMA ServeStep ==
    ASSUME CommandInv, NEW p \in Process,
           NEW next \in {"authority", "serving"}, Go(p, next),
           HasOpened(p) \/ (next = "authority" /\ command[p] = "ca_init"),
           command[p] = "serve"
                \/ (next = "authority" /\ command[p] = "ca_init"),
           UNCHANGED <<rows, legacy, deleted, command, backup>>
    PROVE  CommandInv'
<1>1. DOMAIN local[p] = Fields /\ DOMAIN command = Process /\ Places
    BY DEF CommandInv, Places
<1>2. GoWith(p, next, local[p])
    BY DEF Go
<1>3. pc'[p] = next
    BY <1>1, <1>2, Went
<1>4. Converts(p)'
    BY <1>3 DEF CommandInv, Converts, HasOpened
<1>5. Knows(p)'
    BY <1>3 DEF Knows
<1>6. Owns(p)' /\ PlaceOK(command[p], next)
    BY <1>3 DEF Owns, BackedUp, PlaceOK
<1> QED BY <1>1, <1>2, <1>4, <1>5, <1>6, MoveInv

LEMMA BuildRouterInv ==
    ASSUME CommandInv, NEW p \in Process, BuildRouter(p) PROVE CommandInv'
<1>1. pc[p] = "start" /\ UNCHANGED <<rows, legacy, deleted, command, backup>>
    BY DEF BuildRouter, storeVars
<1>2. HasOpened(p) /\ command[p] = "serve"
    BY <1>1 DEF CommandInv, Places, HasOpened
<1> QED BY <1>1, <1>2, ServeStep DEF BuildRouter

\* Only load_ca leads to a loaded pair.
LEMMA LoadedByServe ==
    ASSUME FilesInv, NEW p \in Process, AuthorityStep(p),
           stage'[p] = "loaded"
    PROVE  command[p] = "serve"
<1>1. DOMAIN stage = Process
    BY DEF FilesInv, FilesTypeOK
<1>2. ASSUME generate_ca(p) PROVE stage'[p] # "loaded"
    BY <1>1, <1>2 DEF generate_ca, CertExists, KeyExists, CreateKey, WriteKey,
                      CreateCert, WriteCert, RemoveKey, Step
<1> QED BY <1>2 DEF AuthorityStep

LEMMA UseAuthorityInv ==
    ASSUME CommandInv, FilesInv, NEW p \in Process, UseAuthority(p)
    PROVE  CommandInv'
<1>1. /\ pc[p] = "authority" /\ AuthorityStep(p)
      /\ UNCHANGED <<rows, legacy, deleted, command, backup>>
    BY DEF UseAuthority, storeVars
<1>2. /\ command[p] \in {"serve", "ca_init"}
      /\ command[p] = "serve" => HasOpened(p)
    BY <1>1 DEF CommandInv, Places, HasOpened
<1>3. CASE stage'[p] \in {"ok", "failed"}
    <2>1. Go(p, stage'[p])
        BY <1>3 DEF UseAuthority
    <2> QED BY <1>1, <1>2, <1>3, <2>1, LastStep
<1>4. CASE stage'[p] = "loaded"
    <2>1. Go(p, "serving")
        BY <1>4 DEF UseAuthority
    <2>2. command[p] = "serve"
        BY <1>1, <1>4, LoadedByServe
    <2> QED BY <1>1, <1>2, <2>1, <2>2, ServeStep
<1>5. CASE stage'[p] \notin {"ok", "failed", "loaded"}
    <2>1. Go(p, "authority")
        BY <1>5 DEF UseAuthority
    <2> QED BY <1>1, <1>2, <2>1, ServeStep
<1> QED BY <1>3, <1>4, <1>5

LEMMA OverInv ==
    ASSUME CommandInv, NEW p \in Process, Imported(p) \/ Shutdown(p) \/ Crash(p)
    PROVE  CommandInv'
<1>1. UNCHANGED <<rows, legacy, deleted, command, backup>>
    BY Zenon DEF Imported, Shutdown, Crash, storeVars
<1>2. CASE Imported(p) \/ Shutdown(p)
    <2>1. Go(p, "ok") /\ command[p] # "backup"
        BY <1>2 DEF Imported, Shutdown, CommandInv, Places
    <2> QED BY <1>1, <2>1, LastStep
<1>3. CASE Crash(p)
    <2>1. Go(p, "failed")
        BY <1>3 DEF Crash
    <2> QED BY <1>1, <2>1, LastStep
<1> QED BY <1>2, <1>3
-----------------------------------------------------------------------------
(***************************************************************************)
(* The invariant holds, and the theorems it gives.                         *)
(***************************************************************************)
LEMMA CommandInitInv == CommandInit => CommandInv
<1> SUFFICES ASSUME CommandInit PROVE CommandInv
    OBVIOUS
<1>1. PICK found \in Found :
        StoreOpen(found, [a \in DOMAIN found |->
                            [form |-> "raw", expires_at |-> NoExpiry]])
    BY Zenon DEF CommandInit
<1>2. /\ rows = [a \in DOMAIN rows |-> rows[a]]
      /\ \A a \in DOMAIN rows : StoredRow(rows[a])
    <2> DEFINE secrets == [a \in DOMAIN found |->
                            [form |-> "raw", expires_at |-> NoExpiry]]
               cred(a) == [id |-> a, form |-> secrets[a].form,
                           expires_at |-> secrets[a].expires_at, origin |-> a]
    <2>1. StoreOpen(found, secrets)
        BY <1>1
    <2> HIDE DEF secrets
    <2>2. rows = [a \in DOMAIN found |-> Row(found[a], cred(a))]
        BY <2>1 DEF StoreOpen
    <2> HIDE DEF cred
    <2> QED BY <2>2, RowFacts
<1>3. legacy \subseteq DOMAIN rows
    BY DEF CommandInit
<1>4. /\ DOMAIN pc = Process /\ DOMAIN local = Process
      /\ DOMAIN command = Process
      /\ \A p \in Process : /\ pc[p] = "idle" /\ command[p] = "none"
                            /\ DOMAIN local[p] = Fields
    BY DEF CommandInit, NoLocal, Fields
<1>5. Places /\ \A p \in Process : Converts(p) /\ Knows(p) /\ Owns(p)
    BY <1>4 DEF Places, Converts, HasOpened, Knows, Owns, BackedUp
<1> QED BY <1>2, <1>3, <1>5 DEF CommandInv, Rows

LEMMA CommandNextInv ==
    ASSUME CommandInv, FilesInv, [CommandNext]_commandVars PROVE CommandInv'
<1>1. CASE UNCHANGED commandVars
    BY <1>1 DEF commandVars, storeVars, CommandInv, Places, Rows, Converts,
                HasOpened, Knows, Owns, BackedUp, PublicPart
<1> QED BY <1>1, StartInv, OpenReadInv, ConvertRowInv, OpenedInv,
           ListAccountsInv, ImportAccountInv, AdminInv, PauseInv,
           CreateDestinationInv, CopyDatabaseInv, IntegrityCheckInv, RemoveDestinationInv,
           BuildRouterInv, UseAuthorityInv, OverInv
        DEF CommandNext

LEMMA FilesAlways == CommandSpec => []FilesInv
<1>1. CommandInit => FilesInv
    BY FilesInitInv DEF CommandInit
<1>2. FilesInv /\ [CommandNext]_commandVars => FilesInv'
    BY FilesNextInv, AuthorityUse
<1> QED BY <1>1, <1>2, PTL DEF CommandSpec

LEMMA CommandInvAlways == CommandSpec => []CommandInv
<1>1. CommandInv /\ FilesInv /\ [CommandNext]_commandVars => CommandInv'
    BY CommandNextInv
<1> QED BY <1>1, CommandInitInv, FilesAlways, PTL DEF CommandSpec

\* However many processes open, write and crash: once one of them has opened
\* the database no list is left in clear (storage.rs:143-151, 465-490).
THEOREM OpenedAlwaysEncrypted == CommandSpec => []OpenedIsEncrypted
<1>1. CommandInv => OpenedIsEncrypted
    BY DEF CommandInv, Converts, HasOpened, OpenedIsEncrypted
<1> QED BY <1>1, CommandInvAlways, PTL

\* However many backups run to the same destination and whichever of them
\* fail: one that was reported stays, whole and without lists in clear
\* (storage.rs:501-537).
THEOREM BackupAlwaysKept == CommandSpec => []BackupKept
<1>1. CommandInv => BackupKept
    BY DEF CommandInv, Owns, BackedUp, BackupKept
<1> QED BY <1>1, CommandInvAlways, PTL

\* The steps that do not write rows.
LEMMA RowsKept ==
    ASSUME CommandInv, NEW p \in Process,
           \/ \E c \in Command \ {"migrate"} : Start(p, c)
           \/ \E lines \in Files, replace \in BOOLEAN :
                StartMigrate(p, lines, replace)
           \/ OpenRead(p) \/ Opened(p)
           \/ \E a \in Account : ConvertRow(p, a)
           \/ ListAccounts(p) \/ Imported(p)
           \/ CreateDestination(p) \/ CopyDatabase(p)
           \/ IntegrityCheck(p) \/ RemoveDestination(p)
           \/ BuildRouter(p) \/ UseAuthority(p) \/ Shutdown(p) \/ Crash(p)
    PROVE  UNCHANGED rows
<1>1. ASSUME NEW a \in Account, ConvertRow(p, a) PROVE UNCHANGED rows
    BY <1>1, ConvertRowInv
<1> QED BY <1>1, Zenon DEF Start, StartMigrate, OpenRead, Opened, ListAccounts,
           Imported, CreateDestination, CopyDatabase, IntegrityCheck,
           RemoveDestination, BuildRouter, UseAuthority, Shutdown, Crash,
           storeVars

\* An import's step leaves the store alone or writes one account it does not
\* skip.
LEMMA ImportWrites ==
    ASSUME CommandInv, NEW p \in Process, ImportAccount(p)
    PROVE  \/ UNCHANGED rows
           \/ \E a : /\ ~ Skips(p, a)
                     /\ DOMAIN rows' = DOMAIN rows \cup {a}
                     /\ \A b \in DOMAIN rows : b # a => rows'[b] = rows[b]
<1> DEFINE imported == Head(local[p].accounts)
<1>1. CASE /\ ~ Skips(p, imported.id)
           /\ ValidEgress(imported.account.egress)
    <2>1. /\ upsert_account(imported.id, imported.account, imported.secret)
          /\ legacy' = legacy \ {imported.id} /\ UNCHANGED deleted
        BY <1>1 DEF ImportAccount
    <2> HIDE DEF imported
    <2>2. /\ DOMAIN rows' = DOMAIN rows \cup {imported.id}
          /\ \A b \in DOMAIN rows : b # imported.id => rows'[b] = rows[b]
        BY <2>1, UpsertFrame, Zenon
    <2> QED BY <1>1, <2>2
<1>2. CASE ~ (/\ ~ Skips(p, imported.id)
              /\ ValidEgress(imported.account.egress))
    BY <1>2 DEF ImportAccount, storeVars
<1> QED BY <1>1, <1>2, Zenon

\* A step of another process does not change what p holds.
LEMMA OwnLocal ==
    ASSUME CommandInv, NEW p \in Process, NEW q \in Process, q # p,
           NEW next, NEW held, GoWith(q, next, held)
    PROVE  local'[p] = local[p]
BY DEF GoWith, CommandInv, Places

\* Whatever several processes that open the database at the same time read
\* before the others wrote, and whatever administrators and imports have
\* written since, none of them alters an account by opening it
\* (storage.rs:465-490).
THEOREM OpeningKeepsAccounts == CommandSpec => OpenKeepsAccounts
<1>1. CommandInv /\ [CommandNext]_commandVars =>
        \A p \in Process :
            pc[p] = "convert" /\ local'[p] # local[p] => rows' = rows
    <2> SUFFICES ASSUME CommandInv, [CommandNext]_commandVars,
                        NEW p \in Process, pc[p] = "convert",
                        local'[p] # local[p]
                 PROVE  rows' = rows
        OBVIOUS
    <2>1. ASSUME NEW q \in Process, ImportAccount(q) PROVE FALSE
        BY <2>1, OwnLocal DEF ImportAccount, Go
    <2>2. ASSUME NEW q \in Process,
                 \/ \E a \in Administered, account \in AccountInput :
                        AdminWrite(q, a, account)
                 \/ \E a \in Administered : AdminDelete(q, a)
          PROVE  FALSE
        BY <2>2, Zenon DEF AdminWrite, AdminDelete
    <2>3. ASSUME NEW q \in Process,
                 \/ \E a \in Administered : AdminPauseRead(q, a)
                 \/ \E a \in Administered, enabled \in BOOLEAN :
                        AdminPauseWrite(q, a, enabled)
          PROVE  FALSE
        BY <2>3, PauseFrame
    <2>4. ~ UNCHANGED commandVars
        BY DEF commandVars
    <2> QED BY <2>1, <2>2, <2>3, <2>4, RowsKept, Zenon DEF CommandNext
<1> QED BY <1>1, CommandInvAlways, PTL DEF CommandSpec, OpenKeepsAccounts

\* Without --replace no import touches an account that was in the store when
\* it began and that no administrator deleted, whatever runs beside it
\* (migration.rs:175-195).
THEOREM ExistingAlwaysSkipped == CommandSpec => ExistingSkipped
<1>1. CommandInv /\ [CommandNext]_commandVars =>
        \A p \in Process :
            pc[p] = "import" /\ local'[p] # local[p] /\ ~ local[p].replace =>
                \A a \in local[p].before \cap DOMAIN rows \cap DOMAIN rows' :
                    a \notin deleted => rows'[a] = rows[a]
    <2> SUFFICES ASSUME CommandInv, [CommandNext]_commandVars,
                        NEW p \in Process, pc[p] = "import",
                        local'[p] # local[p], ~ local[p].replace,
                        NEW a \in local[p].before \cap DOMAIN rows
                                                  \cap DOMAIN rows',
                        a \notin deleted
                 PROVE  rows'[a] = rows[a]
        BY Zenon
    <2>1. Skips(p, a)
        BY DEF CommandInv, Knows, Skips
    <2>2. ASSUME ImportAccount(p) PROVE rows'[a] = rows[a]
        BY <2>1, <2>2, ImportWrites, Zenon
    <2>3. ASSUME NEW q \in Process, ImportAccount(q), q # p PROVE FALSE
        BY <2>3, OwnLocal DEF ImportAccount, Go
    <2>4. ASSUME NEW q \in Process,
                 \/ \E b \in Administered, account \in AccountInput :
                        AdminWrite(q, b, account)
                 \/ \E b \in Administered : AdminDelete(q, b)
          PROVE  FALSE
        BY <2>4, Zenon DEF AdminWrite, AdminDelete
    <2>5. ~ UNCHANGED commandVars
        BY DEF commandVars
    <2>6. ASSUME NEW q \in Process,
                 \/ \E b \in Administered : AdminPauseRead(q, b)
                 \/ \E b \in Administered, enabled \in BOOLEAN :
                        AdminPauseWrite(q, b, enabled)
          PROVE  FALSE
        BY <2>6, PauseFrame
    <2> QED BY <2>2, <2>3, <2>4, <2>5, <2>6, RowsKept, Zenon DEF CommandNext
<1> QED BY <1>1, CommandInvAlways, PTL DEF CommandSpec, ExistingSkipped
-----------------------------------------------------------------------------
(***************************************************************************)
(* Imports that are complete, given that the parser gives every account    *)
(* the file submits.                                                       *)
(***************************************************************************)
Grows == DOMAIN rows \cup deleted \subseteq DOMAIN rows' \cup deleted'

LEMMA ImportsKept ==
    ASSUME Grows, NEW q \in Process, Same(q), Imports(q)
    PROVE  Imports(q)'
<1>1. pc'[q] = pc[q] /\ local'[q] = local[q] /\ command'[q] = command[q]
    BY DEF Same
<1> QED BY <1>1 DEF Imports, Grows

\* A step of p within a command, or into one.
LEMMA ImportStep ==
    ASSUME CommandInv, ImportInv, NEW p \in Process, NEW next, NEW held,
           DOMAIN held = Fields, GoWith(p, next, held), Grows,
           \A q \in Process : q # p => command'[q] = command[q],
           Imports(p)'
    PROVE  ImportInv'
<1>1. ASSUME NEW q \in Process, q # p PROVE Imports(q)'
    <2>1. Same(q)
        BY <1>1, Went DEF Same, CommandInv
    <2> QED BY <2>1, ImportsKept DEF ImportInv
<1> QED BY <1>1 DEF ImportInv

\* A step of a command that is no import, and steps that fail.
LEMMA NoImportStep ==
    ASSUME CommandInv, ImportInv, NEW p \in Process, NEW next,
           Go(p, next), Grows, UNCHANGED command, next # "import",
           command[p] # "migrate" \/ next = "failed"
    PROVE  ImportInv'
<1>1. DOMAIN local[p] = Fields /\ GoWith(p, next, local[p])
    BY HoldsFields DEF Go
<1>2. pc'[p] = next
    BY <1>1, Went DEF CommandInv
<1>3. Imports(p)'
    BY <1>2 DEF Imports
<1> QED BY <1>1, <1>3, ImportStep

\* Steps of p that keep the file and the accounts it holds.
LEMMA OpenStep ==
    ASSUME CommandInv, ImportInv, NEW p \in Process, NEW next, NEW held,
           DOMAIN held = Fields, GoWith(p, next, held), Grows,
           UNCHANGED command, pc[p] \in {"open", "convert", "list"},
           held.lines = local[p].lines, held.accounts = local[p].accounts,
           \/ next \in {"convert", "start", "list", "create"}
           \/ next = "import" /\ pc[p] = "list"
    PROVE  ImportInv'
<1>1. pc'[p] = next /\ local'[p] = held
    BY Moved
<1>2. Imports(p) /\ (pc[p] = "list" => command[p] = "migrate")
    BY DEF CommandInv, Places, ImportInv
<1>3. Imports(p)'
    BY <1>1, <1>2, Zenon DEF Imports
<1> QED BY <1>3, ImportStep

LEMMA HeadTail ==
    ASSUME NEW S, NEW s \in Seq(S), s # <<>>
    PROVE  Tail(s) \in Seq(S) /\ Ids(s) \subseteq {Head(s).id} \cup Ids(Tail(s))
<1>1. Tail(s) \in Seq(S) /\ Len(Tail(s)) = Len(s) - 1 /\ Len(s) \in Nat \ {0}
    OBVIOUS
<1>2. DOMAIN s = 1 .. Len(s) /\ DOMAIN Tail(s) = 1 .. Len(s) - 1
    BY <1>1
<1>3. ASSUME NEW i \in 2 .. Len(s)
      PROVE  i - 1 \in DOMAIN Tail(s) /\ Tail(s)[i - 1] = s[i]
    BY <1>1, <1>2
<1>4. Head(s) = s[1]
    OBVIOUS
<1>5. ASSUME NEW i \in DOMAIN s
      PROVE  s[i].id \in {Head(s).id} \cup Ids(Tail(s))
    <2>1. CASE i = 1
        BY <1>4, <2>1
    <2>2. CASE i \in 2 .. Len(s)
        BY <1>3, <2>2, Zenon DEF Ids
    <2> QED BY <1>1, <1>2, <2>1, <2>2
<1> QED BY <1>1, <1>5 DEF Ids

LEMMA StartImports ==
    ASSUME ParsesWhole, CommandInv, ImportInv, NEW p \in Process,
           \/ \E c \in Command \ {"migrate"} : Start(p, c)
           \/ \E lines \in Files, replace \in BOOLEAN :
                StartMigrate(p, lines, replace)
    PROVE  ImportInv'
<1>1. Grows /\ DOMAIN command = Process
    BY HoldsFields, Zenon DEF Start, StartMigrate, storeVars, Grows
<1>2. ASSUME NEW c \in Command \ {"migrate"}, Start(p, c) PROVE ImportInv'
    <2>1. PICK next \in {"authority", "open"} : GoWith(p, next, Started)
        BY <1>2 DEF Start
    <2>2. /\ command'[p] # "migrate"
          /\ \A q \in Process : q # p => command'[q] = command[q]
        BY <1>1, <1>2 DEF Start
    <2>3. pc'[p] = next
        BY <2>1, StartedFacts, Moved
    <2>4. Imports(p)'
        BY <2>2, <2>3 DEF Imports
    <2> QED BY <1>1, <2>1, <2>2, <2>4, StartedFacts, ImportStep
<1>3. ASSUME NEW lines \in Files, NEW replace \in BOOLEAN,
             StartMigrate(p, lines, replace)
      PROVE  ImportInv'
    <2>1. \A q \in Process : q # p => command'[q] = command[q]
        BY <1>1, <1>3, Zenon DEF StartMigrate
    <2>2. ASSUME NEW parsed \in parse_claudeproxy_env(lines),
                 GoWith(p, "open", [Started EXCEPT !.lines = lines,
                                                   !.replace = replace,
                                                   !.accounts = parsed])
          PROVE  ImportInv'
        <3> DEFINE held == [Started EXCEPT !.lines = lines,
                                           !.replace = replace,
                                           !.accounts = parsed]
        <3>1. DOMAIN held = Fields /\ held.lines = lines
              /\ held.accounts = parsed
            BY DEF Started, NoLocal, Fields
        <3> HIDE DEF held
        <3>2. GoWith(p, "open", held)
            BY <2>2 DEF held
        <3>3. pc'[p] = "open" /\ local'[p] = held
            BY <3>1, <3>2, Moved
        <3>4. /\ parsed \in Seq(ImportedAccount)
              /\ Submitted(lines) \subseteq Ids(parsed)
            BY DEF ParsesWhole, Ids
        <3>5. Imports(p)'
            BY <3>1, <3>3, <3>4, Zenon DEF Imports
        <3> QED BY <1>1, <2>1, <3>1, <3>2, <3>5, ImportStep
    <2>3. ASSUME Go(p, "failed") PROVE ImportInv'
        <3>1. DOMAIN local[p] = Fields /\ GoWith(p, "failed", local[p])
            BY <2>3, HoldsFields DEF Go
        <3>2. pc'[p] = "failed"
            BY <3>1, Went, Zenon DEF CommandInv
        <3>3. Imports(p)'
            BY <3>2, Zenon DEF Imports
        <3> QED BY <1>1, <2>1, <3>1, <3>3, ImportStep, Zenon
    <2> QED BY <1>3, <2>2, <2>3, Zenon DEF StartMigrate, Parsed
<1> QED BY <1>2, <1>3

LEMMA OpenImports ==
    ASSUME CommandInv, ImportInv, NEW p \in Process,
           \/ OpenRead(p) \/ Opened(p) \/ ListAccounts(p)
           \/ \E a \in Account : ConvertRow(p, a)
    PROVE  ImportInv'
<1>1. Grows /\ UNCHANGED command
    BY ConvertRowInv, Zenon
    DEF OpenRead, Opened, ListAccounts, ConvertRow, storeVars, Grows
<1>2. DOMAIN local[p] = Fields
    BY HoldsFields
<1>3. CASE OpenRead(p)
    <2> DEFINE held == [local[p] EXCEPT !.todo = LegacyRows]
    <2>1. /\ DOMAIN held = Fields /\ held.lines = local[p].lines
          /\ held.accounts = local[p].accounts
        BY <1>2 DEF Fields
    <2> HIDE DEF held
    <2>2. pc[p] = "open" /\ GoWith(p, "convert", held)
        BY <1>3 DEF OpenRead, held
    <2> QED BY <1>1, <2>1, <2>2, OpenStep, Zenon
<1>4. ASSUME NEW a \in Account, ConvertRow(p, a) PROVE ImportInv'
    <2> DEFINE held == [local[p] EXCEPT !.todo = Without(@, a)]
    <2>1. /\ DOMAIN held = Fields /\ held.lines = local[p].lines
          /\ held.accounts = local[p].accounts
        BY <1>2 DEF Fields
    <2> HIDE DEF held
    <2>2. pc[p] = "convert" /\ (GoWith(p, "convert", held) \/ Go(p, "failed"))
        BY <1>4 DEF ConvertRow, held
    <2>3. CASE GoWith(p, "convert", held)
        BY <1>1, <2>1, <2>2, <2>3, OpenStep, Zenon
    <2>4. CASE Go(p, "failed")
        BY <1>1, <2>4, NoImportStep
    <2> QED BY <2>2, <2>3, <2>4
<1>5. CASE Opened(p)
    <2>1. pc[p] = "convert" /\ command[p] \in {"serve", "migrate", "backup"}
        BY <1>5 DEF Opened, CommandInv, Places
    <2>2. PICK next \in {"start", "list", "create"} :
            GoWith(p, next, local[p])
        BY <1>5, <2>1 DEF Opened, Go
    <2> QED BY <1>1, <1>2, <2>1, <2>2, OpenStep
<1>6. CASE ListAccounts(p)
    <2> DEFINE held == [local[p] EXCEPT !.existing = DOMAIN rows]
    <2>1. /\ DOMAIN held = Fields /\ held.lines = local[p].lines
          /\ held.accounts = local[p].accounts
        BY <1>2 DEF Fields
    <2> HIDE DEF held
    <2>2. pc[p] = "list" /\ GoWith(p, "import", held)
        BY <1>6 DEF ListAccounts, held
    <2> QED BY <1>1, <2>1, <2>2, OpenStep
<1> QED BY <1>3, <1>4, <1>5, <1>6

LEMMA AccountImports ==
    ASSUME CommandInv, ImportInv, NEW p \in Process, ImportAccount(p)
    PROVE  ImportInv'
<1> DEFINE imported == Head(local[p].accounts)
           rest == [local[p] EXCEPT !.accounts = Tail(@)]
<1>1. /\ pc[p] = "import" /\ UNCHANGED <<command, deleted>>
      /\ local[p].accounts # <<>>
    BY DEF ImportAccount
<1>2. DOMAIN local[p] = Fields /\ command[p] = "migrate"
    BY <1>1 DEF CommandInv, Places
<1>3. /\ DOMAIN rest = Fields /\ rest.lines = local[p].lines
      /\ rest.accounts = Tail(local[p].accounts)
    BY <1>2 DEF Fields
<1>4. \/ /\ GoWith(p, "import", rest) /\ UNCHANGED rows
         /\ imported.id \in local[p].existing
      \/ /\ upsert_account(imported.id, imported.account, imported.secret)
         /\ legacy' = legacy \ {imported.id}
         /\ GoWith(p, "import", rest)
      \/ Go(p, "failed") /\ UNCHANGED rows
    BY DEF ImportAccount, Skips, storeVars
<1> HIDE DEF rest, imported
<1>5. ASSUME GoWith(p, "import", rest), Grows,
             imported.id \in DOMAIN rows' \cup deleted'
      PROVE  ImportInv'
    <2>1. pc'[p] = "import" /\ local'[p] = rest
        BY <1>3, <1>5, Moved
    <2>2. Imports(p)
        BY DEF ImportInv
    <2>3. /\ local[p].accounts \in Seq(ImportedAccount)
          /\ Submitted(local[p].lines)
                \subseteq Ids(local[p].accounts) \cup DOMAIN rows \cup deleted
        BY <1>1, <1>2, <2>2 DEF Imports
    <2>4. /\ rest.accounts \in Seq(ImportedAccount)
          /\ Ids(local[p].accounts) \subseteq {imported.id} \cup Ids(rest.accounts)
        BY <1>1, <1>3, <2>3, HeadTail DEF imported
    <2>5. Imports(p)'
        BY <1>3, <1>5, <2>1, <2>3, <2>4, Zenon DEF Imports, Grows
    <2> QED BY <1>1, <1>3, <1>5, <2>5, ImportStep
<1>6. CASE /\ GoWith(p, "import", rest) /\ UNCHANGED rows
           /\ imported.id \in local[p].existing
    <2>1. Grows /\ local[p].existing \subseteq DOMAIN rows \cup deleted
        BY <1>1, <1>6 DEF Grows, CommandInv, Knows
    <2> QED BY <1>1, <1>5, <1>6, <2>1
<1>7. CASE /\ upsert_account(imported.id, imported.account, imported.secret)
           /\ legacy' = legacy \ {imported.id}
           /\ GoWith(p, "import", rest)
    <2>1. DOMAIN rows' = DOMAIN rows \cup {imported.id}
        BY <1>1, <1>7, UpsertFrame, Zenon
    <2> QED BY <1>1, <1>5, <1>7, <2>1 DEF Grows
<1>8. CASE Go(p, "failed") /\ UNCHANGED rows
    <2>1. Grows
        BY <1>1, <1>8 DEF Grows
    <2> QED BY <1>1, <1>8, <2>1, NoImportStep
<1> QED BY <1>4, <1>6, <1>7, <1>8

LEMMA ImportedImports ==
    ASSUME CommandInv, ImportInv, NEW p \in Process, Imported(p)
    PROVE  ImportInv'
<1>1. /\ pc[p] = "import" /\ local[p].accounts = <<>>
      /\ Go(p, "ok") /\ UNCHANGED <<rows, deleted, command>>
    BY DEF Imported, storeVars
<1>2. DOMAIN local[p] = Fields /\ GoWith(p, "ok", local[p])
    BY <1>1, HoldsFields DEF Go
<1>3. pc'[p] = "ok" /\ local'[p].lines = local[p].lines
    BY <1>2, Went DEF CommandInv
<1>4. Ids(local[p].accounts) = {}
    BY <1>1 DEF Ids
<1>5. Submitted(local[p].lines) \subseteq DOMAIN rows \cup deleted
    BY <1>1, <1>4 DEF ImportInv, Imports
<1>6. Imports(p)'
    BY <1>1, <1>3, <1>5 DEF Imports
<1>7. Grows
    BY <1>1 DEF Grows
<1> QED BY <1>1, <1>2, <1>6, <1>7, ImportStep

LEMMA OtherImports ==
    ASSUME CommandInv, ImportInv, NEW p \in Process,
           \/ CreateDestination(p) \/ CopyDatabase(p)
           \/ IntegrityCheck(p) \/ RemoveDestination(p)
           \/ BuildRouter(p) \/ UseAuthority(p) \/ Shutdown(p) \/ Crash(p)
    PROVE  ImportInv'
<1>1. Grows /\ UNCHANGED command
    BY DEF CreateDestination, CopyDatabase, IntegrityCheck, RemoveDestination,
           BuildRouter, UseAuthority, Shutdown, Crash, storeVars, Grows
<1>2. PICK next : /\ Go(p, next) /\ next # "import"
                  /\ next # "failed" => command[p] # "migrate"
    <2>1. CASE CreateDestination(p) \/ CopyDatabase(p) \/ IntegrityCheck(p)
               \/ RemoveDestination(p)
        <3>1. command[p] # "migrate"
            BY <2>1 DEF CreateDestination, CopyDatabase, IntegrityCheck,
                    RemoveDestination, CommandInv, Places
        <3> QED BY <2>1, <3>1
                DEF CreateDestination, CopyDatabase, IntegrityCheck,
                    RemoveDestination
    <2>2. CASE BuildRouter(p) \/ UseAuthority(p) \/ Shutdown(p)
        <3>1. command[p] # "migrate"
            BY <2>2 DEF BuildRouter, UseAuthority, Shutdown, CommandInv, Places
        <3>2. PICK next : Go(p, next) /\ next # "import"
            BY <2>2 DEF BuildRouter, UseAuthority, Shutdown
        <3> QED BY <3>1, <3>2
    <2>3. CASE Crash(p)
        BY <2>3 DEF Crash
    <2> QED BY <2>1, <2>2, <2>3
<1> QED BY <1>1, <1>2, NoImportStep

LEMMA AdminImports ==
    ASSUME CommandInv, ImportInv, NEW p \in Process,
           \/ \E a \in Administered, account \in AccountInput :
                AdminWrite(p, a, account)
           \/ \E a \in Administered : AdminDelete(p, a)
    PROVE  ImportInv'
<1>1. \A q \in Process : Same(q)
    BY DEF AdminWrite, AdminDelete, Same
<1>2. Grows
    <2>1. ASSUME NEW a \in Administered, NEW account \in AccountInput,
                 AdminWrite(p, a, account)
          PROVE  Frame
        BY <2>1, UpsertFrame, Zenon DEF AdminWrite
    <2>2. ASSUME NEW a \in Administered, AdminDelete(p, a) PROVE Frame
        BY <2>2, DeleteFrame DEF AdminDelete
    <2> QED BY <2>1, <2>2 DEF Frame, Grows
<1> QED BY <1>1, <1>2, ImportsKept DEF ImportInv

LEMMA PauseImports ==
    ASSUME CommandInv, ImportInv, NEW p \in Process,
           \/ \E a \in Administered : AdminPauseRead(p, a)
           \/ \E a \in Administered, enabled \in BOOLEAN :
                AdminPauseWrite(p, a, enabled)
    PROVE  ImportInv'
<1>1. /\ pc[p] \in {"serving", "authority"} /\ DOMAIN rows' = DOMAIN rows
      /\ UNCHANGED <<command, pc, deleted>>
      /\ \A q \in Process : q # p => local'[q] = local[q]
    BY PauseFrame
<1>2. Grows /\ \A q \in Process : q # p => Same(q)
    BY <1>1 DEF Grows, Same
<1>3. Imports(p)'
    BY <1>1 DEF Imports
<1> QED BY <1>2, <1>3, ImportsKept DEF ImportInv

LEMMA ImportNextInv ==
    ASSUME ParsesWhole, CommandInv, ImportInv, [CommandNext]_commandVars
    PROVE  ImportInv'
<1>1. CASE UNCHANGED commandVars
    <2>1. Grows /\ \A q \in Process : Same(q)
        BY <1>1, Zenon DEF commandVars, storeVars, Grows, Same
    <2> QED BY <2>1, ImportsKept DEF ImportInv
<1> QED BY <1>1, StartImports, OpenImports, AccountImports, ImportedImports,
           OtherImports, AdminImports, PauseImports
        DEF CommandNext

\* An import that reported success has left every account its file submits in
\* the store, whatever other commands and earlier runs did and however they
\* crashed, unless an administrator deleted it (migration.rs:175-195).
THEOREM ImportAlwaysComplete ==
    ASSUME ParsesWhole PROVE CommandSpec => []ImportComplete
<1>1. CommandInit => ImportInv
    BY DEF CommandInit, ImportInv, Imports
<1>2. CommandInv /\ ImportInv /\ [CommandNext]_commandVars => ImportInv'
    BY ImportNextInv
<1>3. ImportInv => ImportComplete
    BY DEF ImportInv, Imports, ImportComplete
<1> QED BY <1>1, <1>2, <1>3, CommandInvAlways, PTL DEF CommandSpec
=============================================================================
