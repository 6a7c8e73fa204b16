----------------------------- MODULE StartupProofs -----------------------------
(***************************************************************************)
(* The signing key of Startup, for any number of crashes and of keys.      *)
(***************************************************************************)
EXTENDS Startup, FiniteSetTheorems, TLAPS

Early == {"down", "secret", "create_secret", "fill_secret"}

Writing == {"create_secret", "fill_secret"}

(* A key is written only by the first run with -init, before anything is   *)
(* signed and while the service has never run.                             *)
FirstRun ==
  /\ pc["service"] \notin Writing
  /\ pc["setup"] \in Writing => pc["service"] = "down" /\ signed = {} /\ ~Usable(secretFile)

(* Whoever has come past the key file holds its key.                       *)
HoldsFile == \A p \in Procs : pc[p] \notin Early => secret[p] = secretFile /\ Usable(secretFile)

(* The service runs, or will, only once there is a key.                    *)
KeyBeforeService ==
  \/ installer \in {"start", "done"} \/ pc["service"] # "down" \/ failed["service"]
  \/ installer = "wait" /\ pc["setup"] = "down" /\ ~failed["setup"]
  => Usable(secretFile)

SignedWithFile == signed # {} => Usable(secretFile) /\ signed = {secretFile}

KeyInv ==
  /\ pc \in [Procs -> Steps] /\ failed \in [Procs -> BOOLEAN]
  /\ secret \in [Procs -> Secrets \cup {None}]
  /\ \A p \in Procs : pc[p] \in Writing => secret[p] \in Secrets
  /\ ~unsaved => FirstRun /\ HoldsFile /\ KeyBeforeService /\ SignedWithFile

LEMMA InitKey == Init => KeyInv
BY DEF Init, KeyInv, FirstRun, HoldsFile, KeyBeforeService, SignedWithFile, Procs, Steps,
       Writing, Early, Usable

LEMMA KeyInvImplies == KeyInv => SecretKept
<1> SUFFICES ASSUME KeyInv, ~unsaved
             PROVE  signed \subseteq Secrets /\ Cardinality(signed) <= 1
  BY DEF SecretKept
<1>1. CASE signed = {}
  BY <1>1, FS_EmptySet
<1>2. CASE signed # {}
  <2>1. signed = {secretFile} /\ secretFile \in Secrets
    BY <1>2 DEF KeyInv, SignedWithFile, Usable
  <2>2. Cardinality({secretFile}) = 1
    BY FS_Singleton
  <2> QED
    BY <2>1, <2>2
<1> QED
  BY <1>1, <1>2

(* A process that dies leaves the key file to its next run.                *)
LEMMA FatalKey ==
  ASSUME KeyInv, NEW p \in Procs, pc[p] # "down", Fatal(p),
         UNCHANGED <<installer, secretFile, signed, unsaved>>
  PROVE  KeyInv'
<1> USE DEF KeyInv, Procs, Fatal, Forget, GoTo
<1>1. /\ pc' \in [Procs -> Steps] /\ failed' \in [Procs -> BOOLEAN]
      /\ secret' \in [Procs -> Secrets \cup {None}]
  BY DEF Steps
<1>2. pc'[p] = "down" /\ failed'[p] = TRUE
  OBVIOUS
<1>3. \A q \in Procs \ {p} :
        pc'[q] = pc[q] /\ secret'[q] = secret[q] /\ failed'[q] = failed[q]
  OBVIOUS
<1>4. \A q \in Procs : pc'[q] \in Writing => secret'[q] \in Secrets
  BY <1>2, <1>3 DEF Writing
<1>5. ASSUME ~unsaved
      PROVE  (FirstRun /\ HoldsFile /\ KeyBeforeService /\ SignedWithFile)'
  <2>1. FirstRun'
    BY <1>2, <1>3, <1>5 DEF FirstRun, Writing, Usable
  <2>2. HoldsFile'
    BY <1>2, <1>3, <1>5 DEF HoldsFile, Early, Usable
  <2>3. KeyBeforeService'
    BY <1>2, <1>3, <1>5 DEF KeyBeforeService, Usable
  <2>4. SignedWithFile'
    BY <1>5 DEF SignedWithFile, Usable
  <2> QED
    BY <2>1, <2>2, <2>3, <2>4
<1> QED
  BY <1>1, <1>4, <1>5

LEMMA KeyStep == KeyInv /\ [Next]_vars => KeyInv'
<1> SUFFICES ASSUME KeyInv, [Next]_vars
             PROVE  KeyInv'
  OBVIOUS
<1> USE DEF KeyInv, FirstRun, HoldsFile, KeyBeforeService, SignedWithFile, Usable,
            Early, Writing, Procs, Steps, GoTo, tables, certFiles, history, procVars
<1>1. ASSUME NEW p \in Procs, ReadSecret(p)
      PROVE  KeyInv'
  <2>1. Fresh \subseteq Secrets
    BY DEF Fresh
  <2> QED
    BY <1>1, <2>1 DEF ReadSecret
<1>2. ASSUME NEW p \in Procs, CreateSecret(p)
      PROVE  KeyInv'
  BY <1>2, StartupAssumption DEF CreateSecret
<1>3. ASSUME NEW p \in Procs, FillSecret(p)
      PROVE  KeyInv'
  BY <1>3 DEF FillSecret
<1>4. ASSUME NEW p \in Procs, SecretNotWritten(p)
      PROVE  KeyInv'
  BY <1>4 DEF SecretNotWritten
<1>5. ASSUME NEW p \in Procs, Migrate(p) \/ CountUsers(p) \/ InsertSetting(p)
      PROVE  KeyInv'
  BY <1>5 DEF Migrate, CountUsers, InsertSetting
<1>6. ASSUME NEW p \in Procs, InsertAdmin(p)
      PROVE  KeyInv'
  <2>1. CASE ~admin
    BY <1>6, <2>1 DEF InsertAdmin
  <2>2. CASE admin
    BY <1>6, <2>2, FatalKey DEF InsertAdmin
  <2> QED
    BY <2>1, <2>2
<1>7. ASSUME NEW p \in Procs,
             StatCert(p) \/ CreateCert(p) \/ FillCert(p) \/ CreateKey(p) \/ FillKey(p)
      PROVE  KeyInv'
  <2>1. PICK step \in Steps \ Early : pc[p] \notin Early /\ GoTo(p, step)
    BY <1>7 DEF StatCert, CreateCert, FillCert, CreateKey, FillKey
  <2>2. UNCHANGED <<failed, secret, installer, secretFile, signed, unsaved>>
    BY <1>7 DEF StatCert, CreateCert, FillCert, CreateKey, FillKey
  <2> QED
    BY <2>1, <2>2
<1>8. ASSUME NEW p \in Procs, Listen(p)
      PROVE  KeyInv'
  <2>1. CASE PortFree /\ Certified(p)
    BY <1>8, <2>1 DEF Listen
  <2>2. CASE ~(PortFree /\ Certified(p))
    BY <1>8, <2>2, FatalKey DEF Listen
  <2> QED
    BY <2>1, <2>2
<1>9. ASSUME NEW p \in Procs, Stop(p) \/ Crash(p)
      PROVE  KeyInv'
  <2>1. CASE Stop(p)
    BY <2>1 DEF Stop, Forget
  <2>2. CASE Crash(p)
    BY <2>2, FatalKey DEF Crash
  <2> QED
    BY <1>9, <2>1, <2>2
<1>10. ASSUME NEW p \in Procs, Restart(p)
       PROVE  KeyInv'
  BY <1>10 DEF Restart, Restarts, Boot
<1>11. CASE Install
  BY <1>11 DEF Install, Boot
<1>12. CASE InitEnds
  BY <1>12 DEF InitEnds
<1>13. CASE StartService
  BY <1>13, ZenonT(60) DEF StartService, Boot
<1>14. CASE UNCHANGED vars
  BY <1>14 DEF vars
<1> QED
  BY <1>1, <1>2, <1>3, <1>4, <1>5, <1>6, <1>7, <1>8, <1>9, <1>10, <1>11, <1>12, <1>13, <1>14
     DEF Next, Step

(* SecretKept for every number of crashes: unless a write of the key file  *)
(* failed, all tokens are signed with one key (config.go:153).             *)
THEOREM OneSigningKey == Spec => []SecretKept
<1>1. Init => KeyInv
  BY InitKey
<1>2. KeyInv /\ [Next]_vars => KeyInv'
  BY KeyStep
<1>3. KeyInv => SecretKept
  BY KeyInvImplies
<1> QED
  BY <1>1, <1>2, <1>3, PTL DEF Spec

-----------------------------------------------------------------------------
(* Types.  A process that has read or made its key holds one.              *)
HoldsKey == \A p \in Procs : pc[p] \notin {"down", "secret"} => secret[p] \in Secrets

Typed == TypeOK /\ HoldsKey

LEMMA InitTyped == Init => Typed
<1> SUFFICES ASSUME Init PROVE Typed
  OBVIOUS
<1>1. /\ pc \in [Procs -> Steps] /\ failed \in [Procs -> BOOLEAN]
      /\ secret \in [Procs -> Secrets \cup {None}] /\ pair \in [Procs -> Pairs \cup {None}]
      /\ HoldsKey
  BY DEF Init, Steps, HoldsKey
<1>2. keyFile \in [data : Pairs \cup {None, Empty}, owner : {User[p] : p \in Procs} \cup {None}]
  BY DEF Init
<1>3. crashes \in 0..MaxCrashes
  BY StartupAssumption DEF Init
<1> QED
  BY <1>1, <1>2, <1>3 DEF Init, Typed, TypeOK

(* Processes begin and end without touching anything but themselves.       *)
LEMMA BootTyped ==
  ASSUME Typed, NEW p \in Procs, Boot(p)
  PROVE  /\ pc' \in [Procs -> Steps] /\ failed' \in [Procs -> BOOLEAN]
         /\ secret' \in [Procs -> Secrets \cup {None}] /\ pair' \in [Procs -> Pairs \cup {None}]
         /\ HoldsKey'
BY DEF Typed, TypeOK, HoldsKey, Boot, GoTo, Steps

LEMMA ForgetTyped ==
  ASSUME Typed, NEW p \in Procs, Forget(p)
  PROVE  /\ pc' \in [Procs -> Steps]
         /\ secret' \in [Procs -> Secrets \cup {None}] /\ pair' \in [Procs -> Pairs \cup {None}]
         /\ HoldsKey'
BY DEF Typed, TypeOK, HoldsKey, Forget, GoTo, Steps

LEMMA StepTyped ==
  ASSUME Typed, NEW p \in Procs, Step(p)
  PROVE  Typed'
<1> USE DEF Typed, TypeOK, GoTo, tables, certFiles, history
<1>1. CASE ReadSecret(p)
  <2>1. Fresh \subseteq Secrets
    BY DEF Fresh
  <2>2. PICK s \in Secrets : secret' = [secret EXCEPT ![p] = s]
    BY <1>1, <2>1 DEF ReadSecret, Usable
  <2>3. pc' \in [Procs -> Steps] /\ \A q \in Procs \ {p} : pc'[q] = pc[q]
    BY <1>1 DEF ReadSecret, Steps
  <2>4. secret' \in [Procs -> Secrets \cup {None}] /\ HoldsKey'
    BY <2>2, <2>3 DEF HoldsKey
  <2> QED
    BY <1>1, <2>3, <2>4 DEF ReadSecret
<1>2. CASE CreateSecret(p)
  BY <1>2 DEF CreateSecret, HoldsKey, Steps
<1>3. CASE FillSecret(p)
  BY <1>3 DEF FillSecret, HoldsKey, Steps
<1>4. CASE SecretNotWritten(p)
  BY <1>4 DEF SecretNotWritten, HoldsKey, Steps
<1>5. CASE Migrate(p)
  BY <1>5 DEF Migrate, HoldsKey, Steps
<1>6. CASE CountUsers(p)
  BY <1>6 DEF CountUsers, HoldsKey, Steps
<1>7. CASE InsertAdmin(p)
  <2>1. CASE Fatal(p) /\ UNCHANGED admin
    BY <1>7, <2>1, ForgetTyped DEF InsertAdmin, Fatal
  <2>2. CASE admin' = TRUE /\ GoTo(p, "insert_settings") /\ UNCHANGED <<failed, secret, pair>>
    BY <1>7, <2>2 DEF InsertAdmin, HoldsKey, Steps
  <2> QED
    BY <1>7, <2>1, <2>2 DEF InsertAdmin
<1>8. CASE InsertSetting(p)
  BY <1>8 DEF InsertSetting, HoldsKey, Steps
<1>9. CASE StatCert(p)
  BY <1>9 DEF StatCert, HoldsKey, Steps
<1>10. CASE CreateCert(p)
  BY <1>10 DEF CreateCert, HoldsKey, Steps
<1>11. CASE FillCert(p)
  BY <1>11 DEF FillCert, HoldsKey, Steps
<1>12. CASE CreateKey(p)
  BY <1>12 DEF CreateKey, HoldsKey, Steps
<1>13. CASE FillKey(p)
  BY <1>13 DEF FillKey, HoldsKey, Steps
<1>14. CASE Listen(p)
  <2>1. CASE Fatal(p) /\ UNCHANGED signed
    BY <1>14, <2>1, ForgetTyped DEF Listen, Fatal
  <2>2. CASE GoTo(p, "serving") /\ signed' = signed \cup {secret[p]}
             /\ UNCHANGED <<failed, secret, pair>>
    BY <1>14, <2>2 DEF Listen, HoldsKey, Steps
  <2> QED
    BY <1>14, <2>1, <2>2 DEF Listen
<1> QED
  BY <1>1, <1>2, <1>3, <1>4, <1>5, <1>6, <1>7, <1>8, <1>9, <1>10, <1>11, <1>12, <1>13, <1>14
     DEF Step

LEMMA NextTyped == Typed /\ [Next]_vars => Typed'
<1> SUFFICES ASSUME Typed, [Next]_vars PROVE Typed'
  OBVIOUS
<1> USE DEF tables, certFiles, history
<1>1. ASSUME NEW p \in Procs, Step(p) PROVE Typed'
  BY <1>1, StepTyped
<1>2. ASSUME NEW p \in Procs, Stop(p) PROVE Typed'
  BY <1>2, ForgetTyped DEF Stop, Typed, TypeOK
<1>3. ASSUME NEW p \in Procs, Crash(p) PROVE Typed'
  <2>1. failed' \in [Procs -> BOOLEAN] /\ crashes' \in 0..MaxCrashes
    BY <1>3, StartupAssumption DEF Crash, Fatal, Typed, TypeOK
  <2> QED
    BY <1>3, <2>1, ForgetTyped DEF Crash, Fatal, Typed, TypeOK
<1>4. ASSUME NEW p \in Procs, Restart(p) PROVE Typed'
  BY <1>4, BootTyped DEF Restart, Typed, TypeOK
<1>5. CASE Install
  <2>1. "setup" \in Procs /\ "service" \in Procs
    BY DEF Procs
  <2>2. keyFile' \in [data : Pairs \cup {None, Empty},
                    owner : {User[p] : p \in Procs} \cup {None}]
    BY <1>5, <2>1 DEF Install, Chown, Typed, TypeOK
  <2> QED
    BY <1>5, <2>1, <2>2, BootTyped DEF Install, Typed, TypeOK
<1>6. CASE InitEnds
  BY <1>6 DEF InitEnds, Typed, TypeOK, HoldsKey, procVars
<1>7. CASE StartService
  <2>1. "service" \in Procs
    BY DEF Procs
  <2>2. CASE Boot("service")
    BY <1>7, <2>1, <2>2, BootTyped DEF StartService, Typed, TypeOK
  <2>3. CASE UNCHANGED procVars
    BY <1>7, <2>3 DEF StartService, Typed, TypeOK, HoldsKey, procVars
  <2> QED
    BY <1>7, <2>2, <2>3 DEF StartService
<1>8. CASE UNCHANGED vars
  BY <1>8 DEF vars, procVars, Typed, TypeOK, HoldsKey
<1> QED
  BY <1>1, <1>2, <1>3, <1>4, <1>5, <1>6, <1>7, <1>8 DEF Next

(* Files, tables and processes keep their types, and every process that    *)
(* signs has a key to sign with (config.go:153, main.go:138).              *)
THEOREM StartupTyped == Spec => []TypeOK
BY InitTyped, NextTyped, PTL DEF Spec, Typed

-----------------------------------------------------------------------------
(* What it takes to serve.                                                 *)
Certifying == {"create_cert", "fill_cert", "create_key", "fill_key"}

BeforeAdmin ==
  {"down", "secret", "create_secret", "fill_secret", "migrate", "count_users", "insert_admin"}

(* -init has once come to its end: the service runs, or may be started.    *)
Ready ==
  \/ installer \in {"start", "done"} \/ pc["service"] # "down" \/ failed["service"]
  \/ installer = "wait" /\ pc["setup"] = "down" /\ ~failed["setup"]

(* By then there are an administrator and a certificate, and nobody writes *)
(* settings or a certificate any more.                                     *)
ReadyComplete ==
  Ready => admin /\ certFile # None /\ pc["setup"] \notin Certifying \cup {"insert_settings"}

SetupInOrder == pc["setup"] \notin BeforeAdmin => admin

(* The default settings are there once the step that inserts them is over. *)
Whole == settings = Settings \/ cutShort

SettingsInOrder == admin /\ pc["setup"] # "insert_settings" => Whole

ServiceWritesNone == pc["service"] \notin Certifying \cup {"insert_settings"}

ServeInv ==
  /\ Typed /\ ReadyComplete /\ SetupInOrder /\ SettingsInOrder /\ ServiceWritesNone
  /\ ServesComplete

LEMMA TwoProcs == "setup" \in Procs /\ "service" \in Procs /\ \A p \in Procs : p = "setup" \/ p = "service"
BY DEF Procs

LEMMA InitServe == Init => ServeInv
<1> SUFFICES ASSUME Init PROVE ServeInv
  OBVIOUS
<1>1. \A p \in Procs : pc[p] = "down" /\ failed[p] = FALSE
  BY DEF Init
<1> QED
  BY <1>1, InitTyped, TwoProcs
     DEF ServeInv, ReadyComplete, SetupInOrder, SettingsInOrder, ServiceWritesNone,
         ServesComplete, Ready, BeforeAdmin, Certifying, Init

(* A step within a run that writes no certificate.                         *)
LEMMA MoveServe ==
  ASSUME ServeInv, Typed', NEW p \in Procs, pc[p] # "down",
         NEW step \in Steps \ {"down", "serving"}, GoTo(p, step),
         step \in Certifying \cup {"insert_settings"} => p = "setup" /\ ~Ready,
         step \notin BeforeAdmin => admin',
         admin => admin',
         p = "setup" /\ admin' /\ step # "insert_settings" => Whole',
         Whole => Whole',
         UNCHANGED <<failed, installer, certFile, keyFile>>
  PROVE  ServeInv'
<1>1. pc'[p] = step /\ \A q \in Procs \ {p} : pc'[q] = pc[q]
  BY DEF GoTo, ServeInv, Typed, TypeOK
<1>2. Ready' <=> Ready
  BY <1>1, TwoProcs DEF Ready
<1>3. ReadyComplete' /\ SetupInOrder' /\ ServiceWritesNone'
  BY <1>1, <1>2, TwoProcs DEF ServeInv, ReadyComplete, SetupInOrder, ServiceWritesNone
<1>4. SettingsInOrder'
  <2>1. CASE p = "setup"
    BY <1>1, <2>1 DEF SettingsInOrder
  <2>2. CASE p = "service"
    <3>1. Ready
      BY <2>2 DEF Ready
    <3> QED
      BY <3>1 DEF ServeInv, ReadyComplete, SettingsInOrder
  <2> QED
    BY <2>1, <2>2, TwoProcs
<1>5. ServesComplete'
  BY <1>1 DEF ServeInv, ServesComplete, Whole
<1> QED
  BY <1>3, <1>4, <1>5 DEF ServeInv

(* Only -init writes certificates, and nobody serves meanwhile.            *)
LEMMA CertifyServe ==
  ASSUME ServeInv, Typed', NEW p \in Procs, pc[p] \in Certifying,
         NEW step \in {"fill_cert", "create_key", "fill_key", "listen"}, GoTo(p, step),
         UNCHANGED <<failed, installer, admin, settings, cutShort>>
  PROVE  ServeInv'
<1>1. pc'[p] = step /\ \A q \in Procs \ {p} : pc'[q] = pc[q]
  BY DEF GoTo, ServeInv, Typed, TypeOK
<1>2. p = "setup" /\ ~Ready /\ pc["service"] = "down"
  BY TwoProcs DEF ServeInv, ServiceWritesNone, ReadyComplete, Ready
<1>3. ~Ready' /\ \A q \in Procs : pc'[q] # "serving"
  BY <1>1, <1>2, TwoProcs DEF Ready, Certifying
<1>4. admin /\ SetupInOrder'
  BY <1>1, <1>2 DEF ServeInv, SetupInOrder, BeforeAdmin, Certifying
<1>5. ServiceWritesNone'
  BY <1>1, <1>2, TwoProcs DEF ServiceWritesNone, Certifying
<1>6. SettingsInOrder'
  BY <1>2, <1>4 DEF ServeInv, SettingsInOrder, Whole, Certifying
<1> QED
  BY <1>3, <1>4, <1>5, <1>6 DEF ServeInv, ReadyComplete, ServesComplete

(* The end of a run: a failure, or that of a server which was complete.    *)
LEMMA EndServe ==
  ASSUME ServeInv, Typed', NEW p \in Procs, pc[p] # "down", Forget(p),
         failed'[p] \/ pc[p] = "serving", \A q \in Procs \ {p} : failed'[q] = failed[q],
         pc[p] = "insert_settings" \/ Whole => Whole',
         UNCHANGED <<installer, certFile, keyFile, admin>>
  PROVE  ServeInv'
<1>1. pc'[p] = "down" /\ \A q \in Procs \ {p} : pc'[q] = pc[q]
  BY DEF Forget, GoTo, ServeInv, Typed, TypeOK
<1>2. Ready' => admin /\ certFile # None /\ pc'["setup"] \notin Certifying \cup {"insert_settings"}
  <2>1. CASE p = "service"
    BY <1>1, <2>1, TwoProcs DEF ServeInv, ReadyComplete, Ready
  <2>2. CASE p = "setup" /\ failed'[p]
    BY <1>1, <2>2, TwoProcs DEF ServeInv, ReadyComplete, Ready, Certifying
  <2>3. CASE p = "setup" /\ pc[p] = "serving"
    BY <1>1, <2>3, StartupAssumption DEF ServeInv, ServesComplete, Certifying
  <2> QED
    BY <2>1, <2>2, <2>3, TwoProcs
<1>3. SetupInOrder' /\ ServiceWritesNone'
  BY <1>1, TwoProcs DEF ServeInv, SetupInOrder, ServiceWritesNone, BeforeAdmin, Certifying
<1>4. SettingsInOrder'
  BY <1>1, TwoProcs DEF ServeInv, SettingsInOrder
<1>5. ServesComplete'
  BY <1>1 DEF ServeInv, ServesComplete, Whole
<1> QED
  BY <1>2, <1>3, <1>4, <1>5 DEF ServeInv, ReadyComplete

LEMMA FatalServe ==
  ASSUME ServeInv, Typed', NEW p \in Procs, pc[p] # "down", Fatal(p),
         pc[p] = "insert_settings" \/ Whole => Whole',
         UNCHANGED <<installer, certFile, keyFile, admin>>
  PROVE  ServeInv'
<1>1. Forget(p) /\ failed'[p] /\ \A q \in Procs \ {p} : failed'[q] = failed[q]
  BY DEF Fatal, ServeInv, Typed, TypeOK
<1> QED
  BY <1>1, EndServe

(* The service is started only when everything is there.                   *)
LEMMA BootServe ==
  ASSUME ServeInv, Typed', NEW p \in Procs, Boot(p),
         p = "service" => Ready,
         p = "setup" => installer' = "wait",
         p = "service" => installer' \in {installer, "done"},
         p = "service" => UNCHANGED keyFile,
         p = "setup" => keyFile' = Chown(keyFile, User["service"]),
         UNCHANGED <<certFile, admin, settings, cutShort>>
  PROVE  ServeInv'
<1>1. /\ pc'[p] = "secret" /\ \A q \in Procs \ {p} : pc'[q] = pc[q]
      /\ failed'[p] = FALSE /\ \A q \in Procs \ {p} : failed'[q] = failed[q]
  BY DEF Boot, GoTo, ServeInv, Typed, TypeOK
<1>2. Ready' => Ready
  BY <1>1, TwoProcs DEF Ready
<1>3. ReadyComplete' /\ SetupInOrder' /\ ServiceWritesNone'
  BY <1>1, <1>2, TwoProcs
     DEF ServeInv, ReadyComplete, SetupInOrder, ServiceWritesNone, Certifying, BeforeAdmin
<1>4. SettingsInOrder'
  BY <1>1, TwoProcs DEF ServeInv, SettingsInOrder, Whole, Boot
<1>5. ASSUME NEW q \in Procs, pc'[q] = "serving"
      PROVE  /\ keyFile'.data = keyFile.data
             /\ User[q] = "root" \/ keyFile'.owner = User[q]
  <2>1. q # p /\ pc[q] = "serving"
    BY <1>1, <1>5
  <2>2. User[q] = "root" \/ keyFile.owner = User[q]
    BY <2>1 DEF ServeInv, ServesComplete
  <2>3. CASE p = "setup"
    <3>1. q = "service"
      BY <2>1, <2>3, TwoProcs
    <3> QED
      BY <2>2, <2>3, <3>1 DEF Chown, ServeInv, Typed, TypeOK
  <2> QED
    BY <2>2, <2>3, TwoProcs
<1>6. ServesComplete'
  BY <1>1, <1>5 DEF ServeInv, ServesComplete
<1> QED
  BY <1>3, <1>4, <1>6 DEF ServeInv

LEMMA StepServe ==
  ASSUME ServeInv, Typed', NEW p \in Procs, Step(p)
  PROVE  ServeInv'
<1> USE DEF tables, certFiles, history
<1>0. pc[p] \notin BeforeAdmin => admin
  BY TwoProcs DEF ServeInv, SetupInOrder, ReadyComplete, Ready, BeforeAdmin
<1>a. p = "service" => Ready
  BY <1>0 DEF Ready, Step, ReadSecret, CreateSecret, FillSecret, SecretNotWritten, Migrate,
       CountUsers, InsertAdmin, InsertSetting, StatCert, CreateCert, FillCert, CreateKey, FillKey,
       Listen
<1>b. pc[p] # "insert_settings" /\ p = "setup" /\ admin => Whole
  BY DEF ServeInv, SettingsInOrder
<1>c. UNCHANGED <<settings, cutShort>> => (Whole' <=> Whole)
  BY DEF Whole
<1> USE <1>b, <1>c
<1>1. CASE ReadSecret(p)
  <2>1. PICK step \in {"migrate", "create_secret"} : GoTo(p, step)
    BY <1>1 DEF ReadSecret
  <2> QED
    BY <1>1, <2>1, MoveServe DEF ReadSecret, Steps, Certifying, BeforeAdmin
<1>2. CASE CreateSecret(p)
  BY <1>2, MoveServe DEF CreateSecret, Steps, Certifying, BeforeAdmin
<1>3. CASE FillSecret(p)
  BY <1>3, MoveServe DEF FillSecret, Steps, Certifying, BeforeAdmin
<1>4. CASE SecretNotWritten(p)
  BY <1>4, MoveServe DEF SecretNotWritten, Steps, Certifying, BeforeAdmin
<1>5. CASE Migrate(p)
  <2>1. p = "setup" \/ admin
    BY <1>a, TwoProcs DEF ServeInv, ReadyComplete
  <2>2. PICK step \in {"count_users", "stat_cert"} :
          GoTo(p, step) /\ (step = "stat_cert" => p # "setup")
    BY <1>5 DEF Migrate
  <2> QED
    BY <1>5, <2>1, <2>2, MoveServe DEF Migrate, Steps, Certifying, BeforeAdmin
<1>6. CASE CountUsers(p)
  <2>1. PICK step \in {"stat_cert", "insert_admin"} : GoTo(p, step) /\ (step = "stat_cert" => admin)
    BY <1>6 DEF CountUsers
  <2> QED
    BY <1>6, <2>1, MoveServe DEF CountUsers, Steps, Certifying, BeforeAdmin
<1>7. CASE InsertAdmin(p)
  <2>1. CASE admin' = TRUE /\ GoTo(p, "insert_settings") /\ UNCHANGED failed
    <3>1. pc[p] = "insert_admin" /\ ~admin
      BY <1>7, <2>1 DEF InsertAdmin, Fatal, ServeInv, Typed, TypeOK, Forget, GoTo
    <3>2. ~Ready /\ p = "setup"
      BY <1>a, <3>1, TwoProcs DEF ServeInv, ReadyComplete
    <3> QED
      BY <1>7, <2>1, <3>1, <3>2, MoveServe DEF InsertAdmin, Steps, Certifying, BeforeAdmin
  <2>2. CASE Fatal(p) /\ UNCHANGED admin
    BY <1>7, <2>2, FatalServe DEF InsertAdmin
  <2> QED
    BY <1>7, <2>1, <2>2 DEF InsertAdmin
<1>8. CASE InsertSetting(p)
  <2>1. pc[p] = "insert_settings" /\ admin
    BY <1>0, <1>8 DEF InsertSetting, BeforeAdmin
  <2>2. PICK step \in {"insert_settings", "stat_cert"} :
          GoTo(p, step) /\ (step = "stat_cert" => settings' = Settings)
    <3>1. pc' = pc => GoTo(p, "insert_settings")
      BY <2>1 DEF GoTo, ServeInv, Typed, TypeOK
    <3> QED
      BY <1>8, <3>1 DEF InsertSetting
  <2>3. p = "setup" /\ ~Ready
    <3>1. p = "setup"
      BY <2>1, TwoProcs DEF ServeInv, ServiceWritesNone
    <3> QED
      BY <2>1, <3>1 DEF ServeInv, ReadyComplete
  <2>4. Whole => Whole'
    BY <1>8 DEF InsertSetting, Whole
  <2>5. step = "stat_cert" => Whole'
    BY <2>2 DEF Whole
  <2> QED
    BY <1>8, <2>1, <2>2, <2>3, <2>4, <2>5, MoveServe DEF InsertSetting, Steps, Certifying
<1>9. CASE StatCert(p)
  <2>1. pc[p] = "stat_cert" /\ admin
    BY <1>0, <1>9 DEF StatCert, BeforeAdmin
  <2>2. CASE GoTo(p, "listen")
    BY <1>9, <2>1, <2>2, MoveServe DEF StatCert, Steps, Certifying
  <2>3. CASE certFile = None /\ GoTo(p, "create_cert")
    <3>1. ~Ready /\ p = "setup"
      BY <1>a, <2>3, TwoProcs DEF ServeInv, ReadyComplete
    <3> QED
      BY <1>9, <2>1, <2>3, <3>1, MoveServe DEF StatCert, Steps
  <2> QED
    BY <1>9, <2>2, <2>3 DEF StatCert
<1>10. CASE CreateCert(p)
  BY <1>10, CertifyServe DEF CreateCert, Certifying
<1>11. CASE FillCert(p)
  BY <1>11, CertifyServe DEF FillCert, Certifying
<1>12. CASE CreateKey(p)
  BY <1>12, CertifyServe DEF CreateKey, Certifying
<1>13. CASE FillKey(p)
  BY <1>13, CertifyServe DEF FillKey, Certifying
<1>14. CASE Listen(p)
  <2>1. CASE Fatal(p)
    BY <1>14, <2>1, FatalServe DEF Listen
  <2>2. CASE PortFree /\ Certified(p) /\ GoTo(p, "serving") /\ UNCHANGED failed
    <3>1. pc[p] = "listen" /\ admin /\ UNCHANGED <<installer, certFile, keyFile, admin>>
      BY <1>0, <1>14 DEF Listen, BeforeAdmin
    <3>2. pc'[p] = "serving" /\ \A q \in Procs \ {p} : pc'[q] = pc[q] /\ pc[q] # "serving"
      BY <2>2 DEF GoTo, PortFree, ServeInv, Typed, TypeOK
    <3>3. /\ certFile \in Pairs /\ keyFile.data = certFile
          /\ User[p] = "root" \/ keyFile.owner = User[p]
      BY <2>2 DEF Certified, MayRead
    <3>4. Ready' <=> Ready
      BY <2>2, <3>1, <3>2, TwoProcs DEF Ready
    <3>5. Whole /\ Whole'
      <4>1. p = "service" => pc["setup"] # "insert_settings"
        BY <1>a DEF ServeInv, ReadyComplete
      <4> QED
        BY <1>14, <3>1, <4>1, TwoProcs DEF ServeInv, SettingsInOrder, Listen
    <3>6. ServesComplete'
      BY <3>1, <3>2, <3>3, <3>5 DEF ServesComplete, Whole
    <3> QED
      BY <3>1, <3>2, <3>4, <3>5, <3>6, TwoProcs
         DEF ServeInv, ReadyComplete, SetupInOrder, SettingsInOrder, ServiceWritesNone, Certifying
  <2> QED
    BY <1>14, <2>1, <2>2 DEF Listen
<1> QED
  BY <1>1, <1>2, <1>3, <1>4, <1>5, <1>6, <1>7, <1>8, <1>9, <1>10, <1>11, <1>12, <1>13, <1>14
     DEF Step

LEMMA NextServe == ServeInv /\ [Next]_vars => ServeInv'
<1> SUFFICES ASSUME ServeInv, [Next]_vars PROVE ServeInv'
  OBVIOUS
<1>0. Typed'
  BY NextTyped DEF ServeInv
<1> USE DEF tables, certFiles, history
<1>1. ASSUME NEW p \in Procs, Step(p) PROVE ServeInv'
  BY <1>0, <1>1, StepServe
<1>2. ASSUME NEW p \in Procs, Stop(p) PROVE ServeInv'
  BY <1>0, <1>2, EndServe DEF Stop, Whole
<1>3. ASSUME NEW p \in Procs, Crash(p) PROVE ServeInv'
  BY <1>0, <1>3, FatalServe DEF Crash, Whole
<1>4. ASSUME NEW p \in Procs, Restart(p) PROVE ServeInv'
  <2>1. p = "service" /\ Ready
    BY <1>4 DEF Restart, Restarts, Ready
  <2> QED
    BY <1>0, <1>4, <2>1, BootServe, SMTT(30) DEF Restart
<1>5. CASE Install
  BY <1>0, <1>5, TwoProcs, BootServe DEF Install
<1>6. CASE InitEnds
  <2>1. Ready' => Ready
    BY <1>6 DEF InitEnds, Ready, procVars
  <2> QED
    BY <1>0, <1>6, <2>1
       DEF InitEnds, procVars, ServeInv, ReadyComplete, SetupInOrder, ServiceWritesNone,
           SettingsInOrder, Whole, ServesComplete
<1>7. CASE StartService
  <2>1. Ready
    BY <1>7 DEF StartService, Ready
  <2>2. CASE Boot("service")
    BY <1>0, <1>7, <2>1, <2>2, TwoProcs, BootServe DEF StartService
  <2>3. CASE UNCHANGED procVars
    BY <1>0, <1>7, <2>1, <2>3
       DEF StartService, procVars, ServeInv, ReadyComplete, SetupInOrder, ServiceWritesNone,
           SettingsInOrder, Whole, ServesComplete
  <2> QED
    BY <1>7, <2>2, <2>3 DEF StartService
<1>8. CASE UNCHANGED vars
  BY <1>0, <1>8
     DEF vars, procVars, ServeInv, ReadyComplete, SetupInOrder, ServiceWritesNone,
         SettingsInOrder, Whole, ServesComplete, Ready
<1> QED
  BY <1>1, <1>2, <1>3, <1>4, <1>5, <1>6, <1>7, <1>8 DEF Next

(* Whoever listens has an administrator to log in with, a whole            *)
(* certificate and its key in a file its user may read, and the default    *)
(* settings unless Bootstrap was cut off while it inserted them; and is    *)
(* alone, for any number of crashes at any step of any run                 *)
(* (main.go:64-143, db.go:67-107, tls.go:91-110, install.sh:99-137).       *)
THEOREM ServerIsComplete == Spec => []ServesComplete
<1>1. ServeInv => ServesComplete
  BY DEF ServeInv
<1> QED
  BY <1>1, InitServe, NextServe, PTL DEF Spec
=============================================================================
