-------------------------------- MODULE Startup --------------------------------
(***************************************************************************)
(* The life of the Fabrixe process (cmd/fabrixe/main.go): what it reads    *)
(* and writes on its way to serving, and what is on disk when it dies      *)
(* between two of the writes and is started again.  The installer runs it  *)
(* with -init, which creates the administrator, and then as a service.     *)
(***************************************************************************)
EXTENDS Naturals, FiniteSets

CONSTANTS
  Secrets,      (* random keys that sign tokens                              *)
  Pairs,        (* a private key and the certificate made with it            *)
  Settings,     (* the keys of the default settings                          *)
  User,         (* the user each process runs as                             *)
  None,         (* no file, no row                                           *)
  Empty,        (* a file created and not yet filled                         *)
  MaxCrashes    (* bound: crashes in one behaviour                           *)

ASSUME StartupAssumption ==
  /\ None \notin Secrets \cup Pairs /\ Empty \notin Secrets \cup Pairs
  /\ None # Empty /\ MaxCrashes \in Nat

Procs == {"setup", "service"}      \* main with -init, and without

Steps == {"down", "secret", "create_secret", "fill_secret", "migrate", "count_users",
          "insert_admin", "insert_settings", "stat_cert", "create_cert",
          "fill_cert", "create_key", "fill_key", "listen", "serving"}

VARIABLES
  pc,           (* the step each process has come to                         *)
  failed,       (* whether its last exit was a failure                       *)
  secret,       (* cfg.JWT.Secret of each process                            *)
  pair,         (* the pair GenerateSelfSigned has made in it                *)
  installer,    (* the step install.sh has come to                           *)
  secretFile,   (* .jwt_secret                                               *)
  certFile,     (* fabrixe.crt                                               *)
  keyFile,      (* fabrixe.key, and its owner                                *)
  admin,        (* whether table users has the administrator                 *)
  settings,     (* the keys in table settings                                *)
  signed,       (* history: the keys tokens have been signed with            *)
  unsaved,      (* history: a write of .jwt_secret has failed                *)
  cutShort,     (* history: Bootstrap was cut off after the administrator    *)
  crashes       (* how many crashes there have been                          *)

procVars == <<pc, failed, secret, pair>>
tables == <<admin, settings>>
certFiles == <<certFile, keyFile>>
history == <<signed, unsaved, cutShort, crashes>>
vars == <<procVars, installer, secretFile, certFiles, tables, history>>

TypeOK ==
  /\ pc \in [Procs -> Steps] /\ failed \in [Procs -> BOOLEAN]
  /\ secret \in [Procs -> Secrets \cup {None}]
  /\ pair \in [Procs -> Pairs \cup {None}]
  /\ installer \in {"init", "wait", "start", "done"}
  /\ secretFile \in Secrets \cup {None, Empty}
  /\ certFile \in Pairs \cup {None, Empty}
  /\ keyFile \in [data : Pairs \cup {None, Empty}, owner : {User[p] : p \in Procs} \cup {None}]
  /\ admin \in BOOLEAN /\ settings \subseteq Settings
  /\ signed \subseteq Secrets \cup {Empty}
  /\ unsaved \in BOOLEAN /\ cutShort \in BOOLEAN /\ crashes \in 0 .. MaxCrashes

Init ==
  /\ pc = [p \in Procs |-> "down"]
  /\ failed = [p \in Procs |-> FALSE]
  /\ secret = [p \in Procs |-> None]
  /\ pair = [p \in Procs |-> None]
  /\ installer = "init"
  /\ secretFile = None /\ certFile = None
  /\ keyFile = [data |-> None, owner |-> None]
  /\ admin = FALSE /\ settings = {}
  /\ signed = {} /\ unsaved = FALSE /\ cutShort = FALSE /\ crashes = 0

-----------------------------------------------------------------------------
(* Processes.                                                              *)

GoTo(p, step) == pc' = [pc EXCEPT ![p] = step]

Boot(p) ==
  /\ pc[p] = "down" /\ GoTo(p, "secret")
  /\ failed' = [failed EXCEPT ![p] = FALSE]
  /\ UNCHANGED <<secret, pair>>

Forget(p) ==
  GoTo(p, "down") /\ secret' = [secret EXCEPT ![p] = None] /\ pair' = [pair EXCEPT ![p] = None]

(* os.Exit(1).                                                             *)
Fatal(p) == Forget(p) /\ failed' = [failed EXCEPT ![p] = TRUE]

(* A signal while main waits for one ends it well; any other end, at any   *)
(* step, is a crash.                                                       *)
Stop(p) ==
  /\ pc[p] = "serving" /\ Forget(p)
  /\ UNCHANGED <<failed, installer, secretFile, certFiles, tables, history>>

Crash(p) ==
  /\ pc[p] # "down" /\ Fatal(p)
  /\ crashes < MaxCrashes /\ crashes' = crashes + 1
  /\ cutShort' = (cutShort \/ pc[p] = "insert_settings")
  /\ UNCHANGED <<installer, secretFile, certFiles, tables, signed, unsaved>>

-----------------------------------------------------------------------------
(* config.Load: the signing key.                                           *)

(* A key nobody has: any at all once the lost writes have used up Secrets. *)
Fresh ==
  LET new == Secrets \ (signed \cup {secretFile} \cup {secret[q] : q \in Procs})
  IN  IF new = {} THEN Secrets ELSE new

(* Mutant: the length of the key is not checked.                           *)
UsableAnyLength(file) == file # None

(* len(data) >= 32                                                         *)
Usable(file) == file \in Secrets

ReadSecret(p) ==
  /\ pc[p] = "secret"
  /\ \/ /\ Usable(secretFile)
        /\ secret' = [secret EXCEPT ![p] = secretFile]
        /\ GoTo(p, "migrate")
     \/ /\ ~Usable(secretFile)
        /\ \E s \in Fresh : secret' = [secret EXCEPT ![p] = s]
        /\ GoTo(p, "create_secret")
  /\ UNCHANGED <<failed, pair, installer, secretFile, certFiles, tables, history>>

CreateSecret(p) ==
  /\ pc[p] = "create_secret"
  /\ secretFile' = Empty /\ GoTo(p, "fill_secret")
  /\ UNCHANGED <<failed, secret, pair, installer, certFiles, tables, history>>

FillSecret(p) ==
  /\ pc[p] = "fill_secret"
  /\ secretFile' = secret[p] /\ GoTo(p, "migrate")
  /\ UNCHANGED <<failed, secret, pair, installer, certFiles, tables, history>>

(* The result of WriteFile is ignored, so the key lives in memory only.    *)
SecretNotWritten(p) ==
  /\ pc[p] \in {"create_secret", "fill_secret"}
  /\ unsaved' = TRUE /\ GoTo(p, "migrate")
  /\ UNCHANGED <<failed, secret, pair, installer, secretFile, certFiles, tables, signed, cutShort, crashes>>

-----------------------------------------------------------------------------
(* The database.  Migrate creates tables that are not there; Bootstrap     *)
(* runs with -init only.                                                   *)

Migrate(p) ==
  /\ pc[p] = "migrate"
  /\ GoTo(p, IF p = "setup" THEN "count_users" ELSE "stat_cert")
  /\ UNCHANGED <<failed, secret, pair, installer, secretFile, certFiles, tables, history>>

CountUsers(p) ==
  /\ pc[p] = "count_users"
  /\ GoTo(p, IF admin THEN "stat_cert" ELSE "insert_admin")
  /\ UNCHANGED <<failed, secret, pair, installer, secretFile, certFiles, tables, history>>

(* users.username is UNIQUE.                                               *)
InsertAdmin(p) ==
  /\ pc[p] = "insert_admin"
  /\ \/ /\ ~admin /\ admin' = TRUE
        /\ GoTo(p, "insert_settings") /\ UNCHANGED <<failed, secret, pair>>
     \/ admin /\ Fatal(p) /\ UNCHANGED admin
  /\ UNCHANGED << installer, secretFile, certFiles, settings, history>>

(* One INSERT OR IGNORE for each key, in the order of a Go map.            *)
InsertSetting(p) ==
  /\ pc[p] = "insert_settings"
  /\ \/ /\ \E k \in Settings \ settings : settings' = settings \cup {k}
        /\ UNCHANGED pc
     \/ /\ settings = Settings
        /\ GoTo(p, "stat_cert") /\ UNCHANGED settings
  /\ UNCHANGED <<failed, secret, pair, installer, secretFile, certFiles, admin, history>>

-----------------------------------------------------------------------------
(* The certificate: created and filled, and then its key.                  *)

StatCert(p) ==
  /\ pc[p] = "stat_cert"
  /\ \/ certFile # None /\ GoTo(p, "listen") /\ UNCHANGED pair
     \/ /\ certFile = None /\ GoTo(p, "create_cert")
        /\ \E c \in Pairs : pair' = [pair EXCEPT ![p] = c]
  /\ UNCHANGED <<failed, secret, installer, secretFile, certFiles, tables, history>>

CreateCert(p) ==
  /\ pc[p] = "create_cert"
  /\ certFile' = Empty /\ GoTo(p, "fill_cert")
  /\ UNCHANGED <<failed, secret, pair, installer, secretFile, keyFile, tables, history>>

FillCert(p) ==
  /\ pc[p] = "fill_cert"
  /\ certFile' = pair[p] /\ GoTo(p, "create_key")
  /\ UNCHANGED <<failed, secret, pair, installer, secretFile, keyFile, tables, history>>

CreateKey(p) ==
  /\ pc[p] = "create_key"
  /\ keyFile' = [data |-> Empty, owner |-> User[p]] /\ GoTo(p, "fill_key")
  /\ UNCHANGED <<failed, secret, pair, installer, secretFile, certFile, tables, history>>

FillKey(p) ==
  /\ pc[p] = "fill_key"
  /\ keyFile' = [keyFile EXCEPT !.data = pair[p]] /\ GoTo(p, "listen")
  /\ UNCHANGED <<failed, secret, pair, installer, secretFile, certFile, tables, history>>

(* A key is of mode 0600.                                                  *)
MayRead(p, file) == User[p] = "root" \/ file.owner = User[p]

(* Mutant: a key that may not be read is taken for one that matches.       *)
CertifiedUnread(p) == certFile \in Pairs /\ keyFile.data = certFile

(* tls.X509KeyPair accepts the two files.                                  *)
Certified(p) ==
  certFile \in Pairs /\ keyFile.data = certFile /\ MayRead(p, keyFile)

PortFree == \A q \in Procs : pc[q] # "serving"

(* ListenAndServeTLS; from here on the process signs tokens.               *)
Listen(p) ==
  /\ pc[p] = "listen"
  /\ \/ /\ PortFree /\ Certified(p) /\ GoTo(p, "serving")
        /\ signed' = signed \cup {secret[p]} /\ UNCHANGED <<failed, secret, pair>>
     \/ ~(PortFree /\ Certified(p)) /\ Fatal(p) /\ UNCHANGED signed
  /\ UNCHANGED <<installer, secretFile, certFiles, tables, unsaved, cutShort, crashes>>

-----------------------------------------------------------------------------
(* install.sh, run by hand and run again after a failure or to upgrade:    *)
(* chown the certificates, run -init and wait for it, start the service.   *)

Chown(file, user) == IF file.data = None THEN file ELSE [file EXCEPT !.owner = user]

Install ==
  /\ installer \in {"init", "done"} /\ installer' = "wait"
  /\ keyFile' = Chown(keyFile, User["service"])
  /\ Boot("setup")
  /\ UNCHANGED <<secretFile, certFile, tables, history>>

(* Mutant: without set -e.                                                 *)
InitEndsAnyway ==
  /\ installer = "wait" /\ pc["setup"] = "down" /\ installer' = "start"
  /\ UNCHANGED <<procVars, secretFile, certFiles, tables, history>>

(* set -e: the script ends when -init fails.                               *)
InitEnds ==
  /\ installer = "wait" /\ pc["setup"] = "down"
  /\ installer' = IF failed["setup"] THEN "init" ELSE "start"
  /\ UNCHANGED <<procVars, secretFile, certFiles, tables, history>>

StartService ==
  /\ installer = "start" /\ installer' = "done"
  /\ IF pc["service"] = "down" THEN Boot("service") ELSE UNCHANGED procVars
  /\ UNCHANGED <<secretFile, certFiles, tables, history>>

(* Mutant: Restart=on-abnormal, which does not restart after os.Exit(1).   *)
NeverRestarts(p) == FALSE

(* Restart=on-failure.                                                     *)
Restarts(p) == p = "service" /\ pc[p] = "down" /\ failed[p]

Restart(p) ==
  /\ Restarts(p) /\ Boot(p)
  /\ UNCHANGED <<installer, secretFile, certFiles, tables, history>>

-----------------------------------------------------------------------------
Step(p) ==
  \/ ReadSecret(p) \/ CreateSecret(p) \/ FillSecret(p) \/ SecretNotWritten(p)
  \/ Migrate(p) \/ CountUsers(p) \/ InsertAdmin(p) \/ InsertSetting(p)
  \/ StatCert(p) \/ CreateCert(p) \/ FillCert(p) \/ CreateKey(p) \/ FillKey(p)
  \/ Listen(p)

Next ==
  \/ \E p \in Procs : Step(p) \/ Stop(p) \/ Crash(p) \/ Restart(p)
  \/ Install \/ InitEnds \/ StartService

(* A process runs, systemd restarts it, and a script that has started goes *)
(* on.  Nobody has to stop the server or to run the script again.          *)
Fairness ==
  /\ \A p \in Procs : WF_vars(Step(p)) /\ WF_vars(Restart(p))
  /\ WF_vars(InitEnds) /\ WF_vars(StartService)

Spec == Init /\ [][Next]_vars /\ Fairness

-----------------------------------------------------------------------------
(* Unless a write of the key file has failed, all tokens are signed with   *)
(* one key, of full length, whatever crashes there were (config.go:153): a *)
(* restart ends no session.                                                *)
SecretKept ==
  ~unsaved => signed \subseteq Secrets /\ Cardinality(signed) <= 1

(* Whoever listens has an administrator to log in to it, a certificate     *)
(* that is whole, the key that belongs to it, in a file its user may read, *)
(* and the default settings unless Bootstrap was cut off while it inserted *)
(* them (db.go:67-71 never looks again); and no two processes listen, in   *)
(* whatever step the runs before it ended (main.go:64-142, install.sh).    *)
ServesComplete ==
  \A p \in Procs : pc[p] = "serving" =>
    /\ admin /\ (settings = Settings \/ cutShort)
    /\ certFile \in Pairs /\ keyFile.data = certFile
    /\ User[p] = "root" \/ keyFile.owner = User[p]
    /\ \A q \in Procs : pc[q] = "serving" => q = p

(* Once the installer has started the service and the certificate has its  *)
(* key, somebody serves in the end, crashes and all, unless the service    *)
(* was stopped on purpose (fabrixe.service:14).                            *)
ComesBack ==
  installer = "done" /\ Certified("service")
    ~> \/ \E p \in Procs : pc[p] = "serving"
       \/ pc["service"] = "down" /\ ~failed["service"]

(* docs/installation.md:54 and install.sh:137: the installer goes on to    *)
(* start the service.                                                      *)
InstallerFinishes == installer = "wait" ~> installer = "done"
=============================================================================
