---------------------------- MODULE TlsCert_proof ----------------------------
(***************************************************************************)
(* Proofs about TlsCert.tla, for any number of generations.                *)
(***************************************************************************)
EXTENDS TlsCert, TLAPS

USE DEF caCert, caKey, wcCert, wcKey, Files, Missing, Empty, Legacy, Contents, NoFiles

(* The first state satisfies the invariant. *)
LEMMA TlsInit == Init => IInv
<1> SUFFICES ASSUME Init PROVE IInv
  OBVIOUS
<1>1. f \in [Files -> Contents] /\ \A i \in Files : f[i] <= 0
  BY TlsAssumption DEF Init
<1>2. service \in BOOLEAN /\ tls \in BOOLEAN /\ outlived \in BOOLEAN
  BY Zenon DEF Init
<1>3. TypeOK
  BY TlsAssumption, <1>1, <1>2 DEF Init, TypeOK, NothingRead, Trusted
<1> QED
  BY <1>1, <1>3 DEF Init, IInv, DiskInv, WriteInv, CliInv, ReadInv,
     ChainValid, InstallsSigner, NothingRead, Writing, Whole, Pair, Signed

(* service.Uninstall keeps the flags Boolean. *)
LEMMA ServiceType ==
  ASSUME service \in BOOLEAN, tls \in BOOLEAN, outlived \in BOOLEAN, StopsService
  PROVE  service' \in BOOLEAN /\ tls' \in BOOLEAN /\ outlived' \in BOOLEAN
<1>1. CASE service' = FALSE /\ DaemonOff
  BY <1>1, Zenon DEF DaemonOff
<1>2. CASE /\ service' \in (IF os = "linux" THEN {service, FALSE} ELSE {service})
           /\ UNCHANGED <<daemon, tls, outlived>>
  <2>1. service' = service \/ service' = FALSE
    BY <1>2
  <2> QED BY <1>2, <2>1, Zenon
<1> QED BY <1>1, <1>2 DEF StopsService

(* Every variable keeps its type in every step. *)
LEMMA TlsType == TypeOK /\ [Next]_vars => TypeOK'
<1> SUFFICES ASSUME TypeOK, [Next]_vars PROVE TypeOK'
  OBVIOUS
<1> USE TlsAssumption DEF TypeOK, dirVars, storeVars, daemonVars
<1>1. CASE Setup BY <1>1 DEF Setup
<1>2. CASE EnsureCert BY <1>2 DEF EnsureCert
<1>3. CASE OpensFile BY <1>3 DEF OpensFile
<1>4. CASE FillsFile BY <1>4 DEF FillsFile
<1>5. CASE InstallCA BY <1>5 DEF InstallCA
<1>6. CASE UpdateCA BY <1>6 DEF UpdateCA, Trusted
<1>7. CASE Interrupt BY <1>7 DEF Interrupt
<1>8. CASE Uninstall
  <2>1. service' \in BOOLEAN /\ tls' \in BOOLEAN /\ outlived' \in BOOLEAN
    BY <1>8, ServiceType DEF Uninstall
  <2>2. daemon' \in {"off", "key", "ca", "check", "on"}
    BY <1>8 DEF Uninstall, StopsService, DaemonOff
  <2> QED BY <1>8, <2>1, <2>2 DEF Uninstall
<1>9. CASE RemoveCA BY <1>9 DEF RemoveCA
<1>10. CASE RevokeUpdate BY <1>10 DEF RevokeUpdate, Trusted
<1>11. CASE RemoveCAFails BY <1>11 DEF RemoveCAFails
<1>12. CASE DeletesFile
  <2>1. outlived' \in BOOLEAN
    BY <1>12, Zenon DEF DeletesFile
  <2> QED BY <1>12, <2>1 DEF DeletesFile
<1>13. CASE RemovesDir BY <1>13 DEF RemovesDir
<1>14. CASE InstallService BY <1>14 DEF InstallService
<1>15. CASE UninstallService
  <2>1. service' \in BOOLEAN /\ tls' \in BOOLEAN /\ outlived' \in BOOLEAN
    BY <1>15, ServiceType DEF UninstallService
  <2> QED BY <1>15, <2>1 DEF UninstallService, StopsService, DaemonOff
<1>16. CASE ReadsCert
  <2>1. tls' \in BOOLEAN
    BY <1>16, Zenon DEF ReadsCert, Reads
  <2>2. got' \in [leaf : Contents, key : Contents, ca : Contents]
    BY <1>16 DEF ReadsCert, Reads
  <2> QED BY <1>16, <2>1, <2>2 DEF ReadsCert, Reads
<1>17. CASE ReadsKey
  <2>1. tls' \in BOOLEAN
    BY <1>17, Zenon DEF ReadsKey, Reads
  <2>2. got' \in [leaf : Contents, key : Contents, ca : Contents]
    BY <1>17 DEF ReadsKey, Reads
  <2> QED BY <1>17, <2>1, <2>2 DEF ReadsKey, Reads
<1>18. CASE ReadsCA
  <2>1. tls' \in BOOLEAN
    BY <1>18, Zenon DEF ReadsCA, Reads
  <2>2. got' \in [leaf : Contents, key : Contents, ca : Contents]
    BY <1>18 DEF ReadsCA, Reads
  <2> QED BY <1>18, <2>1, <2>2 DEF ReadsCA, Reads
<1>19. CASE ChecksCert BY <1>19 DEF ChecksCert, LoadCert
<1>20. CASE DaemonEnds
  <2>1. tls' \in BOOLEAN /\ outlived' \in BOOLEAN
    BY <1>20, Zenon DEF DaemonEnds, DaemonOff
  <2> QED BY <1>20, <2>1 DEF DaemonEnds, DaemonOff
<1>21. CASE Ages BY <1>21 DEF Ages
<1>22. CASE Reboot
  <2>1. tls' \in BOOLEAN /\ outlived' \in BOOLEAN
    BY <1>22, Zenon DEF Reboot, DaemonOff
  <2>2. f' \in [Files -> Contents]
    BY <1>22 DEF Reboot
  <2> QED BY <1>22, <2>1, <2>2 DEF Reboot, DaemonOff
<1>23. CASE UNCHANGED vars BY <1>23 DEF vars
<1>24. CASE AddTrustedCert
  <2>1. f[caCert] \in Contents /\ f[wcCert] \in Contents
    OBVIOUS
  <2>2. bundle' \subseteq Contents
    BY <1>24, <2>1, Zenon DEF AddTrustedCert
  <2> QED BY <1>24, <2>1, <2>2 DEF AddTrustedCert
<1>25. CASE DeleteCertificate BY <1>25 DEF DeleteCertificate
<1> QED
  BY <1>1, <1>2, <1>3, <1>4, <1>5, <1>6, <1>7, <1>8, <1>9, <1>10, <1>11, <1>12,
     <1>13, <1>14, <1>15, <1>16, <1>17, <1>18, <1>19, <1>20, <1>21, <1>22, <1>23,
     <1>24, <1>25
     DEF Next, CliStep, LoadStep

(* The steps of EnsureCert and InstallCA keep the invariant. *)
LEMMA EnsureKeeps ==
  ASSUME PartialUninstall = FALSE, IInv, TypeOK',
         \/ EnsureCert \/ OpensFile \/ FillsFile
         \/ InstallCA \/ UpdateCA \/ AddTrustedCert
  PROVE  IInv'
<1> USE TlsAssumption DEF IInv, TypeOK, DiskInv, WriteInv, CliInv, ReadInv, ChainValid,
        InstallsSigner, Writing, Whole, Pair, Signed, dirVars, storeVars, daemonVars
<1>1. CASE EnsureCert BY <1>1 DEF EnsureCert, LoadCert
<1>2. CASE OpensFile BY <1>2 DEF OpensFile
<1>3. CASE FillsFile BY <1>3 DEF FillsFile
<1>4. CASE InstallCA BY <1>4 DEF InstallCA
<1>5. CASE UpdateCA BY <1>5 DEF UpdateCA
<1>6. CASE AddTrustedCert BY <1>6 DEF AddTrustedCert
<1> QED BY <1>1, <1>2, <1>3, <1>4, <1>5, <1>6

(* So do the other commands and what may interrupt them. *)
LEMMA CommandKeeps ==
  ASSUME PartialUninstall = FALSE, IInv, TypeOK',
         \/ Setup \/ Interrupt \/ Uninstall \/ RemoveCA \/ RevokeUpdate
         \/ DeleteCertificate \/ RemoveCAFails \/ DeletesFile \/ RemovesDir
         \/ InstallService \/ UninstallService
  PROVE  IInv'
<1> USE TlsAssumption DEF IInv, TypeOK, DiskInv, WriteInv, CliInv, ReadInv, ChainValid,
        InstallsSigner, Writing, Whole, Pair, Signed, dirVars, storeVars, daemonVars
<1>1. CASE Setup BY <1>1 DEF Setup
<1>2. CASE Interrupt BY <1>2 DEF Interrupt
<1>3. CASE Uninstall BY <1>3 DEF Uninstall, StopsService, DaemonOff
<1>4. CASE RemoveCA BY <1>4 DEF RemoveCA
<1>5. CASE RevokeUpdate BY <1>5 DEF RevokeUpdate
<1>6. CASE RemoveCAFails BY <1>6 DEF RemoveCAFails
<1>7. CASE DeletesFile
  <2>1. PICK x \in Files : f[x] # Missing /\ f' = [f EXCEPT ![x] = Missing]
    BY <1>7 DEF DeletesFile
  <2>2. /\ cli = "rmdir" /\ cli' = "rmdir"
        /\ UNCHANGED <<gen, at, old, cli, storeVars, service, daemon, got, tls, done>>
    BY <1>7 DEF DeletesFile
  <2>3. ~outlived' => daemon = "off" /\ ~outlived
    BY <1>7, Zenon DEF DeletesFile
  <2>4. DiskInv' /\ WriteInv' /\ CliInv'
    BY <2>1, <2>2
  <2>5. ReadInv' /\ ChainValid'
    BY <2>1, <2>2, <2>3
  <2> QED BY <2>4, <2>5
<1>8. CASE RemovesDir BY <1>8 DEF RemovesDir
<1>9. CASE InstallService BY <1>9 DEF InstallService
<1>10. CASE UninstallService BY <1>10 DEF UninstallService, StopsService, DaemonOff
<1>11. CASE DeleteCertificate BY <1>11 DEF DeleteCertificate
<1> QED BY <1>1, <1>2, <1>3, <1>4, <1>5, <1>6, <1>7, <1>8, <1>9, <1>10, <1>11

(* So do the daemon, time and a restart of the machine. *)
LEMMA DaemonKeeps ==
  ASSUME PartialUninstall = FALSE, IInv, TypeOK',
         LoadStep \/ DaemonEnds \/ Ages \/ Reboot \/ UNCHANGED vars
  PROVE  IInv'
<1> USE TlsAssumption DEF IInv, TypeOK, DiskInv, WriteInv, CliInv, ReadInv, ChainValid,
        InstallsSigner, Writing, Whole, Pair, Signed, dirVars, storeVars, daemonVars
<1>1. CASE ReadsCert BY <1>1 DEF ReadsCert, Reads
<1>2. CASE ReadsKey BY <1>2 DEF ReadsKey, Reads
<1>3. CASE ReadsCA BY <1>3 DEF ReadsCA, Reads
<1>4. CASE ChecksCert BY <1>4 DEF ChecksCert, LoadCert
<1>5. CASE DaemonEnds BY <1>5 DEF DaemonEnds, DaemonOff
<1>6. CASE Ages BY <1>6 DEF Ages
<1>7. CASE Reboot BY <1>7 DEF Reboot, DaemonOff
<1>8. CASE UNCHANGED vars BY <1>8 DEF vars
<1> QED BY <1>1, <1>2, <1>3, <1>4, <1>5, <1>6, <1>7, <1>8 DEF LoadStep

(* The invariant is inductive. *)
LEMMA TlsInvariance ==
  ASSUME PartialUninstall = FALSE
  PROVE  Spec => []IInv
<1>1. IInv /\ [Next]_vars => IInv'
  <2> SUFFICES ASSUME IInv, [Next]_vars PROVE IInv'
    OBVIOUS
  <2>1. TypeOK'
    BY TlsType DEF IInv
  <2> QED
    BY <2>1, EnsureKeeps, CommandKeeps, DaemonKeeps DEF Next, CliStep, LoadStep
<1> QED
  BY <1>1, TlsInit, PTL DEF Spec

(* A daemon never presents a leaf with another's key or beside a CA that did
   not sign it, whatever was interrupted between the four writes of
   EnsureCert and the three reads of LoadCert: LoadCert need not check the
   signature, as long as uninstall deletes the whole directory and not under a
   daemon that is reading it. *)
THEOREM ChainAlwaysValid ==
  ASSUME PartialUninstall = FALSE
  PROVE  Spec => []ChainValid
<1>1. IInv => ChainValid
  BY DEF IInv
<1> QED
  BY <1>1, TlsInvariance, PTL

(* InstallCA always copies the CA that signed the certificate on disk. *)
THEOREM AlwaysInstallsSigner ==
  ASSUME PartialUninstall = FALSE
  PROVE  Spec => []InstallsSigner
<1>1. IInv => InstallsSigner
  BY DEF IInv, CliInv
<1> QED
  BY <1>1, TlsInvariance, PTL

(* Another run of setup never makes the system distrust the certificate a
   running daemon uses, unless uninstall had failed to stop that daemon. *)
THEOREM TrustAlwaysKept ==
  ASSUME PartialUninstall = FALSE
  PROVE  Spec => TrustKept
<1>1. IInv /\ IInv' /\ [Next]_vars =>
        [daemon = "on" /\ tls /\ ~outlived /\ got.leaf > old /\ got.ca \in bundle
         /\ cli \notin {"revoke", "revoked"} /\ daemon' = "on" => got.ca \in bundle']_vars
  <2> SUFFICES ASSUME IInv, [Next]_vars, daemon = "on", tls, ~outlived, got.leaf > old,
                      got.ca \in bundle, cli \notin {"revoke", "revoked"}, daemon' = "on"
               PROVE  got.ca \in bundle'
    OBVIOUS
  <2>1. Pair(got.leaf) /\ got.ca = got.leaf /\ got.ca # Missing
    BY TlsAssumption DEF IInv, TypeOK, ReadInv, ChainValid
  <2>2. CASE UpdateCA
    BY <2>1, <2>2 DEF UpdateCA, Trusted, IInv, CliInv, Whole, Pair
  <2>3. CASE AddTrustedCert
    BY <2>3 DEF AddTrustedCert
  <2>4. ~RevokeUpdate /\ ~DeleteCertificate
    BY DEF RevokeUpdate, DeleteCertificate
  <2>5. CASE ~UpdateCA /\ ~AddTrustedCert
    BY <2>4, <2>5 DEF Next, CliStep, LoadStep, Setup, EnsureCert, OpensFile, FillsFile,
       InstallCA, Interrupt, Uninstall, RemoveCA, RemoveCAFails, DeletesFile,
       RemovesDir, InstallService, UninstallService, ReadsCert, ReadsKey, ReadsCA,
       Reads, ChecksCert, DaemonEnds, Ages, Reboot, storeVars, vars
  <2> QED BY <2>2, <2>3, <2>5
<1> QED
  BY <1>1, TlsInvariance, PTL DEF Spec, TrustKept

(* One setup is enough until uninstall or the certificate's last 30 days,
   provided DataDir is not the runtime directory. *)
THEOREM SetupAlwaysLasts ==
  ASSUME PartialUninstall = FALSE, RuntimeDir = FALSE
  PROVE  Spec => []SetupLasts
<1> DEFINE L == done > old => Whole(done)
<1>1. Init => L
  BY DEF Init
<1>2. L /\ IInv /\ [Next]_vars => L'
  <2> SUFFICES ASSUME L, IInv, [Next]_vars PROVE L'
    OBVIOUS
  <2> USE DEF IInv, TypeOK, dirVars
  <2>1. CASE OpensFile \/ FillsFile
    BY <2>1 DEF OpensFile, FillsFile, WriteInv, Writing, Whole, Pair
  <2>2. CASE UpdateCA \/ AddTrustedCert
    BY <2>2 DEF UpdateCA, AddTrustedCert, CliInv, InstallsSigner, Whole, Pair
  <2>3. CASE Uninstall
    BY <2>3 DEF Uninstall
  <2>4. CASE DeletesFile
    BY <2>4 DEF DeletesFile, CliInv
  <2>5. CASE Ages
    BY <2>5 DEF Ages, Whole, Pair
  <2>6. CASE UNCHANGED <<f, old, done>>
    BY <2>6 DEF Whole, Pair
  <2> QED
    BY <2>1, <2>2, <2>3, <2>4, <2>5, <2>6
       DEF Next, CliStep, LoadStep, Setup, EnsureCert, InstallCA, Interrupt, RemoveCA,
       RevokeUpdate, DeleteCertificate, RemoveCAFails, RemovesDir, InstallService, UninstallService,
       ReadsCert, ReadsKey, ReadsCA, Reads, ChecksCert, DaemonEnds, Reboot, vars
<1>3. L /\ IInv => SetupLasts
  BY DEF IInv, TypeOK, SetupLasts, LoadCert, Whole, Pair
<1> QED
  BY <1>1, <1>2, <1>3, TlsInvariance, PTL DEF Spec
=============================================================================
