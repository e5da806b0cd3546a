------------------------------ MODULE TlsCert -------------------------------
(***************************************************************************)
(* internal/tlscert and the commands that use it, on Linux and macOS:      *)
(* setup writes a CA and a wildcard certificate and installs the CA,       *)
(* uninstall undoes it, the daemon, run by its service, loads the chain    *)
(* once when it starts.                                                    *)
(* setup and uninstall ask for a password on the way and may be            *)
(* interrupted anywhere; at most one of them runs at a time.               *)
(*                                                                         *)
(* A run of EnsureCert that generates is numbered; what it writes to any   *)
(* file is that number: certificate and key match, and a leaf is signed by *)
(* a CA, when their numbers are equal.                                     *)
(***************************************************************************)
EXTENDS Integers

CONSTANTS
  MaxGen,             \* bound: how often keys are generated
  RuntimeDir,         \* DataDir is under XDG_RUNTIME_DIR, gone at a reboot
  PartialUninstall    \* uninstall may be interrupted while it deletes DataDir

ASSUME TlsAssumption ==
  /\ MaxGen \in Nat
  /\ RuntimeDir \in BOOLEAN
  /\ PartialUninstall \in BOOLEAN

caCert == 1
caKey  == 2
wcCert == 3
wcKey  == 4
Files == caCert..wcKey    \* in the order in which EnsureCert writes them

Missing == -2
Empty   == -1
Legacy  == 0              \* older format: no AuthorityKeyId, another TLD

VARIABLES
  f,         \* f[i]: what file i of DataDir holds
  gen,       \* the last generation of keys
  old,       \* leaves up to this one expire within 30 days
  cli,       \* the step of the command that runs
  at,        \* the file EnsureCert writes
  os,        \* "linux" | "darwin"
  dest,      \* Linux: the CA in /usr/local/share/ca-certificates
  bundle,    \* the CAs the system trusts; macOS: the system keychain
  service,   \* the service manager starts the daemon
  daemon,    \* "off" | "key" | "ca" | "check" (LoadCert) | "on"
  got,       \* what LoadCert read
  tls,       \* the daemon has a certificate
  outlived,  \* history: files of DataDir were deleted since the daemon started
  done       \* the leaf of the last setup that reached its end

vars == <<f, gen, old, cli, at, os, dest, bundle, service, daemon, got, tls, outlived, done>>
dirVars == <<f, gen, at>>
storeVars == <<os, dest, bundle>>
daemonVars == <<service, daemon, got, tls, outlived>>

Contents == Missing..MaxGen
NoFiles == [i \in Files |-> Missing]

(* Every variable keeps to the values it is documented with. *)
TypeOK ==
  /\ f \in [Files -> Contents]
  /\ gen \in 0..MaxGen
  /\ old \in 0..MaxGen
  /\ cli \in {"idle", "ensure", "open", "fill", "install", "update",
              "revoke", "revoked", "rmdir"}
  /\ at \in Files
  /\ os \in {"linux", "darwin"}
  /\ dest \in Contents
  /\ bundle \subseteq Contents
  /\ service \in BOOLEAN
  /\ daemon \in {"off", "key", "ca", "check", "on"}
  /\ got \in [leaf : Contents, key : Contents, ca : Contents]
  /\ tls \in BOOLEAN
  /\ outlived \in BOOLEAN
  /\ done \in Contents

NothingRead == [leaf |-> Missing, key |-> Missing, ca |-> Missing]

(* What update-ca-certificates makes of the directory. *)
Trusted(ca) == IF ca = Missing THEN {} ELSE {ca}

(* A first installation, or one an older version set up. *)
Init ==
  /\ f \in {NoFiles, [i \in Files |-> Legacy]}
  /\ gen = 0
  /\ old = 0
  /\ cli = "idle"
  /\ at = caCert
  /\ os \in {"linux", "darwin"}
  /\ dest = f[caCert]
  /\ bundle = Trusted(dest)
  /\ service = FALSE
  /\ daemon = "off"
  /\ got = NothingRead
  /\ tls = FALSE
  /\ outlived = FALSE
  /\ done = Missing

-----------------------------------------------------------------------------
(* Mutant of LoadCert: the key is not compared with the certificate. *)
LoadCertAnyKey(leaf, key, ca) == key >= Legacy /\ leaf > old /\ ca >= Legacy

(* X509KeyPair, then expiry, AuthorityKeyId and SANs of the leaf, then the
   PEM of the CA: that the CA signed the leaf is not checked. *)
LoadCert(leaf, key, ca) == leaf = key /\ leaf > old /\ ca >= Legacy

Setup ==
  /\ cli = "idle"
  /\ cli' = "ensure"
  /\ UNCHANGED <<dirVars, old, storeVars, daemonVars, done>>

(* Mutant of EnsureCert: it generates although there is a certificate. *)
EnsureCertAlways ==
  /\ cli = "ensure"
  /\ gen < MaxGen
  /\ gen' = gen + 1
  /\ cli' = "open"
  /\ at' = caCert
  /\ UNCHANGED <<f, old, storeVars, daemonVars, done>>

EnsureCert ==
  /\ cli = "ensure"
  /\ IF LoadCert(f[wcCert], f[wcKey], f[caCert])
     THEN cli' = "install" /\ UNCHANGED <<gen, at>>
     ELSE /\ gen < MaxGen
          /\ gen' = gen + 1
          /\ cli' = "open"
          /\ at' = caCert
  /\ UNCHANGED <<f, old, storeVars, daemonVars, done>>

(* writeCertPEM, writeKeyPEM: O_TRUNC, then the PEM block. *)
OpensFile ==
  /\ cli = "open"
  /\ f' = [f EXCEPT ![at] = Empty]
  /\ cli' = "fill"
  /\ UNCHANGED <<gen, at, old, storeVars, daemonVars, done>>

(* Mutant of FillsFile: the last file is forgotten. *)
FillsFileNoKey ==
  /\ cli = "fill"
  /\ f' = [f EXCEPT ![at] = gen]
  /\ IF at = wcCert
     THEN cli' = "install" /\ at' = at
     ELSE cli' = "open" /\ at' = at + 1
  /\ UNCHANGED <<gen, old, storeVars, daemonVars, done>>

FillsFile ==
  /\ cli = "fill"
  /\ f' = [f EXCEPT ![at] = gen]
  /\ IF at = wcKey
     THEN cli' = "install" /\ at' = at
     ELSE cli' = "open" /\ at' = at + 1
  /\ UNCHANGED <<gen, old, storeVars, daemonVars, done>>

(* InstallCA on Linux: tee, then update-ca-certificates. *)
InstallCA ==
  /\ os = "linux"
  /\ cli = "install"
  /\ dest' = f[caCert]
  /\ cli' = "update"
  /\ UNCHANGED <<dirVars, old, os, bundle, daemonVars, done>>

UpdateCA ==
  /\ cli = "update"
  /\ bundle' = Trusted(dest)
  /\ cli' = "idle"
  /\ done' = f[wcCert]
  /\ UNCHANGED <<dirVars, old, os, dest, daemonVars>>

(* InstallCA on macOS: one more trusted root, beside any earlier one. *)
AddTrustedCert ==
  /\ os = "darwin"
  /\ cli = "install"
  /\ bundle' = bundle \union {f[caCert]}
  /\ cli' = "idle"
  /\ done' = f[wcCert]
  /\ UNCHANGED <<dirVars, old, os, dest, daemonVars>>

(* A command is interrupted, or a step of it fails: each error ends setup
   where it is, a failed InstallCA after a warning. *)
Interrupt ==
  /\ cli # "idle"
  /\ cli = "rmdir" => PartialUninstall
  /\ cli' = "idle"
  /\ UNCHANGED <<dirVars, old, storeVars, daemonVars, done>>

-----------------------------------------------------------------------------
(* lad uninstall: the service, the CA, the data directory. *)

DaemonOff == daemon' = "off" /\ tls' = FALSE /\ outlived' = FALSE

(* service.Uninstall. When the service manager fails the daemon runs on; Linux
   ignores that and deletes the unit, macOS returns the error. *)
StopsService ==
  \/ service' = FALSE /\ DaemonOff
  \/ /\ service' \in (IF os = "linux" THEN {service, FALSE} ELSE {service})
     /\ UNCHANGED <<daemon, tls, outlived>>

(* An error of service.Uninstall is a warning. *)
Uninstall ==
  /\ cli = "idle"
  /\ cli' = "revoke"
  /\ StopsService
  /\ done' = Missing
  /\ UNCHANGED <<dirVars, old, storeVars, got>>

RemoveCA ==
  /\ os = "linux"
  /\ cli = "revoke"
  /\ dest' = Missing
  /\ cli' = "revoked"
  /\ UNCHANGED <<dirVars, old, os, bundle, daemonVars, done>>

RevokeUpdate ==
  /\ cli = "revoked"
  /\ bundle' = Trusted(dest)
  /\ cli' = "rmdir"
  /\ UNCHANGED <<dirVars, old, os, dest, daemonVars, done>>

(* RemoveCA on macOS, by common name; "no matching" is no error, but several
   CAs of that name are: then RemoveCAFails. *)
DeleteCertificate ==
  /\ os = "darwin"
  /\ cli = "revoke"
  /\ \A c, d \in bundle : c = d
  /\ bundle' = {}
  /\ cli' = "rmdir"
  /\ UNCHANGED <<dirVars, old, os, dest, daemonVars, done>>

(* A command of RemoveCA failed: a warning, and on to the next. *)
RemoveCAFails ==
  /\ cli \in {"revoke", "revoked"}
  /\ cli' = "rmdir"
  /\ UNCHANGED <<dirVars, old, storeVars, daemonVars, done>>

(* RemoveAll deletes file by file, in the order the directory gives. *)
DeletesFile ==
  /\ cli = "rmdir"
  /\ \E i \in Files : f[i] # Missing /\ f' = [f EXCEPT ![i] = Missing]
  /\ outlived' = (outlived \/ daemon # "off")
  /\ UNCHANGED <<gen, at, old, cli, storeVars, service, daemon, got, tls, done>>

RemovesDir ==
  /\ cli = "rmdir"
  /\ f = NoFiles
  /\ cli' = "idle"
  /\ UNCHANGED <<dirVars, old, storeVars, daemonVars, done>>

-----------------------------------------------------------------------------
(* The service and the daemon's LoadCert, which reads file after file. *)

InstallService ==
  /\ cli = "idle"
  /\ service' = TRUE
  /\ UNCHANGED <<dirVars, old, cli, storeVars, daemon, got, tls, outlived, done>>

UninstallService ==
  /\ cli = "idle"
  /\ StopsService
  /\ UNCHANGED <<dirVars, old, cli, storeVars, got, done>>

Reads(field, file, here, next) ==
  /\ got' = [got EXCEPT ![field] = f[file]]
  /\ daemon = here
  /\ daemon' = IF f[file] = Missing THEN "on" ELSE next
  /\ tls' = FALSE
  /\ UNCHANGED <<dirVars, old, cli, storeVars, service, outlived, done>>

ReadsCert == service /\ Reads("leaf", wcCert, "off", "key")
ReadsKey == Reads("key", wcKey, "key", "ca")
ReadsCA == Reads("ca", caCert, "ca", "check")

ChecksCert ==
  /\ daemon = "check"
  /\ daemon' = "on"
  /\ tls' = LoadCert(got.leaf, got.key, got.ca)
  /\ UNCHANGED <<dirVars, old, cli, storeVars, service, got, outlived, done>>

(* The daemon ends; its service starts it again. *)
DaemonEnds ==
  /\ daemon # "off"
  /\ DaemonOff
  /\ UNCHANGED <<dirVars, old, cli, storeVars, service, got, done>>

(* Two years pass for the leaves up to g, or the machine restarts. *)
Ages ==
  /\ old' \in old + 1 .. gen
  /\ UNCHANGED <<dirVars, cli, storeVars, daemonVars, done>>

Reboot ==
  /\ cli = "rmdir" => PartialUninstall
  /\ DaemonOff
  /\ cli' = "idle"
  /\ f' = IF RuntimeDir /\ os = "linux" THEN NoFiles ELSE f
  /\ UNCHANGED <<gen, at, old, storeVars, service, got, done>>

-----------------------------------------------------------------------------
CliStep ==
  \/ EnsureCert \/ OpensFile \/ FillsFile \/ InstallCA \/ UpdateCA \/ AddTrustedCert
  \/ RemoveCA \/ RevokeUpdate \/ DeleteCertificate \/ RemoveCAFails \/ DeletesFile \/ RemovesDir

LoadStep == ReadsCert \/ ReadsKey \/ ReadsCA \/ ChecksCert

Next ==
  \/ Setup \/ Uninstall \/ InstallService \/ UninstallService
  \/ CliStep \/ Interrupt \/ LoadStep \/ DaemonEnds \/ Ages \/ Reboot

Spec == Init /\ [][Next]_vars

-----------------------------------------------------------------------------
(* The chain a daemon presents holds together: the key is the leaf's, and
   the CA beside it signed the leaf, whatever was interrupted before, and also
   when it starts while uninstall deletes the files. Only a daemon that
   uninstall failed to stop can have read the files of two generations. *)
ChainValid ==
  daemon = "on" /\ tls /\ ~outlived => got.leaf = got.key /\ got.leaf = got.ca

(* The CA setup installs is the one that signed the leaf on disk. *)
InstallsSigner ==
  cli = "install" => f[caCert] = f[wcCert] /\ f[wcKey] = f[wcCert]

(* One setup is enough: until uninstall or the leaf's last 30 days, a daemon
   that starts finds a certificate, also while setup runs again. *)
SetupLasts ==
  done > old => LoadCert(f[wcCert], f[wcKey], f[caCert])

(* Only RemoveCA takes away the trust in the certificate of a running daemon,
   setup never does, unless uninstall had failed to stop that daemon. *)
TrustKept ==
  [][daemon = "on" /\ tls /\ ~outlived /\ got.leaf > old /\ got.ca \in bundle
     /\ cli \notin {"revoke", "revoked"} /\ daemon' = "on" => got.ca \in bundle']_vars

-----------------------------------------------------------------------------
(* The inductive invariant, for an uninstall that runs to its end. *)

Pair(g) == f[wcCert] = g /\ f[wcKey] = g
Whole(g) == Pair(g) /\ f[caCert] = g
Signed(g) == f[caCert] = g \/ (cli = "rmdir" /\ f[caCert] = Missing)
Writing == cli \in {"open", "fill"}

\* A matching pair that is still good has its signer beside it, unless
\* uninstall has just deleted it.
DiskInv ==
  /\ old <= gen
  /\ \A i \in Files : f[i] <= gen
  /\ f[wcCert] > old /\ f[wcKey] = f[wcCert] => Signed(f[wcCert])

\* EnsureCert writes where no good pair is, and in the order of Files.
WriteInv ==
  Writing =>
    /\ ~ \E g \in Contents : g > old /\ Pair(g)
    /\ \A i \in Files : IF i < at THEN f[i] = gen ELSE f[i] < gen

CliInv ==
  /\ InstallsSigner
  /\ cli = "update" => dest = f[caCert] /\ Whole(f[caCert])
  /\ cli \in {"revoke", "revoked", "rmdir"} => done = Missing

\* What the daemon has read is, or will never be, a good pair: the key of its
\* leaf is there with the leaf and the signer, or nobody writes it any more.
ReadInv ==
  /\ got.leaf <= gen
  /\ got.leaf > old /\ ~outlived =>
       /\ daemon = "key" /\ (f[wcKey] = got.leaf \/ (Writing /\ gen = got.leaf)) =>
            f[wcCert] = got.leaf /\ Signed(got.leaf)
       /\ daemon \in {"ca", "check"} /\ got.key = got.leaf =>
            Pair(got.leaf) /\ Signed(got.leaf) /\ (daemon = "check" => got.ca = got.leaf)
       /\ daemon = "on" /\ tls => Pair(got.leaf) /\ Signed(got.leaf)

IInv == TypeOK /\ DiskInv /\ WriteInv /\ CliInv /\ ReadInv /\ ChainValid
=============================================================================
