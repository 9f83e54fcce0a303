---------------------------- MODULE AuthorityFiles ----------------------------
(***************************************************************************)
(* The certificate and key files of the forward proxy's authority:         *)
(* generate_ca and write_new, run by `llmap ca init`, and load_ca, run by  *)
(* `llmap serve` (src/src/forward_proxy.rs).                               *)
(*                                                                         *)
(* Several processes may do this at once.  A step is one system call, or   *)
(* the write and sync of a file that has been created.  A process may      *)
(* crash at any step; a file may fail to be created, to be written in full *)
(* or to be synced, and then keeps what has reached it.                    *)
(***************************************************************************)
EXTENDS Naturals

CONSTANT Process    \* one for each time a command is run

VARIABLES
    cert, key,             \* the two files
    stage,                 \* what each process is doing with them
    cert_pem, key_pem      \* what it has read of them

caVars == <<cert, key, stage, cert_pem, key_pem>>

\* The contents of a file: whose pair it belongs to, and how much is there.
Absent == [owner |-> 0, is |-> "absent"]

Created(p) == [owner |-> p, is |-> "partial"]

Written(p) == [owner |-> p, is |-> "whole"]

File == {Absent} \cup {Created(p) : p \in Process}
                 \cup {Written(p) : p \in Process}

ASSUME ProcessAssumption == 0 \notin Process

Step(p, next) ==
    /\ stage' = [stage EXCEPT ![p] = next]
    /\ UNCHANGED <<cert_pem, key_pem>>

CaInit ==
    /\ cert = Absent
    /\ key = Absent
    /\ stage = [p \in Process |-> "idle"]
    /\ cert_pem = [p \in Process |-> Absent]
    /\ key_pem = [p \in Process |-> Absent]
-----------------------------------------------------------------------------
(***************************************************************************)
(* generate_ca.                                                            *)
(***************************************************************************)
CertExists(p) ==
    /\ stage[p] = "idle"
    /\ Step(p, IF cert # Absent THEN "failed" ELSE "check")
    /\ UNCHANGED <<cert, key>>

KeyExists(p) ==
    /\ stage[p] = "check"
    /\ Step(p, IF key # Absent THEN "failed" ELSE "key")
    /\ UNCHANGED <<cert, key>>

\* Mutant: the file is created whether or not there is one.
CreateKeyOver(p) ==
    /\ stage[p] = "key"
    /\ key' = Created(p) /\ Step(p, "writekey")
    /\ UNCHANGED cert

CreateKey(p) ==
    /\ stage[p] = "key"
    /\ \/ key = Absent /\ key' = Created(p) /\ Step(p, "writekey")
       \/ UNCHANGED key /\ Step(p, "failed")
    /\ UNCHANGED cert

\* A key that cannot be written or synced is left behind.
WriteKey(p) ==
    /\ stage[p] = "writekey"
    /\ \/ key' = Written(p) /\ Step(p, "cert")
       \/ key' \in {key, Written(p)} /\ Step(p, "failed")
    /\ UNCHANGED cert

CreateCert(p) ==
    /\ stage[p] = "cert"
    /\ \/ cert = Absent /\ cert' = Created(p) /\ Step(p, "writecert")
       \/ UNCHANGED cert /\ Step(p, "remove")
    /\ UNCHANGED key

WriteCert(p) ==
    /\ stage[p] = "writecert"
    /\ \/ cert' = Written(p) /\ Step(p, "ok")
       \/ cert' \in {cert, Written(p)} /\ Step(p, "remove")
    /\ UNCHANGED key

\* The key is removed by its path; whether that works is not looked at.
RemoveKey(p) ==
    /\ stage[p] = "remove"
    /\ key' \in {Absent, key}
    /\ Step(p, "failed")
    /\ UNCHANGED cert

generate_ca(p) ==
    \/ CertExists(p) \/ KeyExists(p)
    \/ CreateKey(p) \/ WriteKey(p)
    \/ CreateCert(p) \/ WriteCert(p)
    \/ RemoveKey(p)
-----------------------------------------------------------------------------
(***************************************************************************)
(* load_ca: the certificate is read, then the key, then both are parsed.   *)
(***************************************************************************)
ReadCert(p) ==
    /\ stage[p] = "idle"
    /\ stage' = [stage EXCEPT ![p] =
                    IF cert = Absent THEN "failed" ELSE "loading"]
    /\ cert_pem' = [cert_pem EXCEPT ![p] = cert]
    /\ UNCHANGED <<cert, key, key_pem>>

\* Both files parse if they have been read whole.
ReadKey(p) ==
    /\ stage[p] = "loading"
    /\ stage' = [stage EXCEPT ![p] =
                    IF key.is = "whole" /\ cert_pem[p].is = "whole"
                    THEN "loaded" ELSE "failed"]
    /\ key_pem' = [key_pem EXCEPT ![p] = key]
    /\ UNCHANGED <<cert, key, cert_pem>>

load_ca(p) == ReadCert(p) \/ ReadKey(p)

CaCrash(p) ==
    /\ stage[p] \notin {"idle", "ok", "failed", "loaded", "crashed"}
    /\ Step(p, "crashed")
    /\ UNCHANGED <<cert, key>>

CaNext == \E p \in Process : generate_ca(p) \/ load_ca(p) \/ CaCrash(p)

CaSpec == CaInit /\ [][CaNext]_caVars
-----------------------------------------------------------------------------
Stage ==
    {"idle", "check", "key", "writekey", "cert", "writecert", "remove",
     "ok", "loading", "loaded", "failed", "crashed"}

\* Type invariant of the authority files.
FilesTypeOK ==
    /\ cert \in File
    /\ key \in File
    /\ stage \in [Process -> Stage]
    /\ cert_pem \in [Process -> File]
    /\ key_pem \in [Process -> File]

\* A pair that `llmap ca init` reported as created stays in place, whole: no
\* other run overwrites either file, and none removes them when it cleans up
\* after itself (forward_proxy.rs:148-179; docs/forward-proxy.md:15 "The
\* command refuses to overwrite either file").
CreatedPairStays ==
    \A p \in Process :
        stage[p] = "ok" => cert = Written(p) /\ key = Written(p)

\* The certificate and key that a server has loaded belong together, unless
\* the run that wrote the certificate reported failure: reading two files
\* while another process writes, removes or crashes between them never mixes
\* two pairs otherwise (forward_proxy.rs:169-193).
LoadedPairMatches ==
    \A p \in Process :
        LET owner == cert_pem[p].owner
        IN  stage[p] = "loaded" =>
                stage[owner] = "failed" \/ key_pem[p].owner = owner
=============================================================================
