--------------------------- MODULE LadSetup_proof ---------------------------
(***************************************************************************)
(* Proofs about LadSetup.tla, for any number of aliases and of faults.     *)
(***************************************************************************)
EXTENDS LadSetup, TLAPS

-----------------------------------------------------------------------------
(* The steps of the commands; a name says from which step on. *)

AfterRouting == {"enable", "restart", "sudoers", "finish"}
AfterConf == {"hostsfile", "netdev", "network", "networkd", "reload"} \union AfterRouting
SetupStepsLinux ==
  {"install", "mkdir", "chown", "listen", "bind", "confdir", "hosts"} \union AfterConf

AfterLoad == {"stop", "start", "finish"}
AfterResolver == {"alias", "plist", "load"} \union AfterLoad
AfterPort == {"hosts", "hostsfile", "resolver"} \union AfterResolver
SetupStepsDarwin == {"install", "confdir", "mkdir", "port"} \union AfterPort

AfterConfLinux == {"rmsudoers", "unrestart", "finish"}
AfterDirLinux == {"rmconfdir", "rmhosts", "rmlisten", "rmbind"} \union AfterConfLinux
TeardownStepsLinux ==
  {"disable", "rmunit", "rmnetdev", "rmnetwork", "unroute", "unnetworkd", "rmdir"}
    \union AfterDirLinux

AfterDirDarwin == {"rmconfdir", "rmhosts", "unstart", "finish"}
AfterDealias == {"rmresolver", "rmdir"} \union AfterDirDarwin
TeardownStepsDarwin == {"disable", "rmunit", "unload", "rmplist", "dealias"} \union AfterDealias

RemoveLineSteps == {"rmconfdir", "rmhosts", "rmlisten", "rmbind"}

-----------------------------------------------------------------------------
(* The type invariant in two parts: SMT proves the first, Zenon the second. *)
DataOK ==
  /\ host \in Hosts
  /\ lines \subseteq Lines
  /\ buf \subseteq Lines \/ buf = NoBuf
  /\ dir \in Owners
  /\ hosts \in Owners
  /\ conf \subseteq {"own", "stale"}
  /\ files \subseteq Files
  /\ alias \subseteq AllAliases
  /\ run \subseteq {"up", "port"} \union Lines
  /\ active \subseteq Services
  /\ boot \subseteq Services \union {"dnsmasq", "aliases"}
  /\ cmd \in {"none", "setup", "uninstall", "install-service", "uninstall-service"}
  /\ pc \in Steps
  /\ i \in AllAliases
  /\ by \in {"user", "root"}
  /\ faults \in 0..MaxFaults

FlagsOK ==
  /\ link \in BOOLEAN
  /\ installed \in BOOLEAN
  /\ ok \in BOOLEAN
  /\ done \in BOOLEAN
  /\ gone \in BOOLEAN
  /\ sudo \in BOOLEAN
  /\ torn \in BOOLEAN

(* Which steps a command has, and what holds of every step. *)
ControlInv ==
  /\ cmd = "none" => pc = "idle"
  /\ cmd = "setup" =>
       /\ pc \in (IF Linux THEN SetupStepsLinux ELSE SetupStepsDarwin)
       /\ ~gone
  /\ cmd = "uninstall" =>
       /\ pc \in (IF Linux THEN TeardownStepsLinux ELSE TeardownStepsDarwin)
       /\ ~done
  /\ cmd = "install-service" => pc \in {"unit", "enableunit", "finish"} /\ ~gone
  /\ cmd = "uninstall-service" => pc \in {"disable", "rmunit", "finish"}
  /\ cmd # "setup" => by = "user"
  /\ by = "root" => sudo
  /\ i # 1 => pc \in {"alias", "dealias"}
  /\ buf # NoBuf => pc \in RemoveLineSteps /\ lines = {}
  /\ pc = "rmconfdir" => "confdir" \notin buf
  /\ pc = "rmhosts" => "hosts" \notin buf
  /\ pc = "rmlisten" => "listen" \notin buf
  /\ pc = "rmbind" => "bind" \notin buf

(* What no command writes on the other platform. *)
PlatformInv ==
  /\ Linux => files \subseteq {"sudoers", "netdev", "network", "unit"} /\ alias = {}
  /\ Darwin => files \subseteq {"port", "resolver", "plist", "unit"}
               /\ lines \union buf \subseteq {"confdir", "hosts", "own", "none"}

(* The setup that runs has met no error and is past one of the steps. *)
SetUp(steps) == done \/ (cmd = "setup" /\ ok /\ pc \in steps)

(* The aliases stay once the plist that makes them again is loaded. *)
AliasInv ==
  Darwin /\ ~DaemonIsRoot =>
    /\ SetUp({"load"} \union AfterLoad) => "plist" \in files
    /\ SetUp(AfterLoad) => alias = AllAliases /\ "aliases" \in boot

(* networkd runs if and only if it is enabled; where it may be enabled setup
   does so, with the files that make the link in place. *)
RouteInv ==
  /\ Linux =>
       /\ "networkd" \in active <=> "networkd" \in boot
       /\ cmd = "setup" /\ pc = "network" => "netdev" \in files
       /\ cmd = "setup" /\ pc = "networkd" => host.nm /\ ~host.foreign
       /\ cmd = "setup" /\ pc \in {"networkd", "reload"} => Routing \subseteq files
       /\ cmd = "setup" /\ ok /\ pc = "reload" => "networkd" \in active
       /\ SetUp(AfterRouting) =>
            /\ Routing \subseteq files
            /\ host.nm /\ ~host.foreign => "networkd" \in active
            /\ "networkd" \in active => link
  /\ Darwin => (SetUp(AfterResolver) => "resolver" \in files)

(* Nothing is root's before somebody uses sudo. *)
OwnerInv ==
  /\ dir = "none" => hosts = "none"
  /\ ~sudo => hosts # "root"
  /\ Darwin /\ ~sudo => dir # "root"

(* What dnsmasq needs, and when each part of it is in place. *)
ReadyInv ==
  ~sudo =>
    /\ Linux =>
         /\ cmd = "setup" /\ pc = "bind" => "listen" \in lines
         /\ cmd = "setup" /\ pc \in {"confdir", "hosts"} => {"listen", "bind"} \subseteq lines
         /\ cmd = "setup" /\ ok /\ pc \in {"listen", "bind", "confdir", "hosts"} => dir = "user"
         /\ SetUp(AfterConf) => dir = "user" /\ {"listen", "bind", "hosts"} \subseteq lines
         /\ SetUp({"restart", "sudoers", "finish"}) => "dnsmasq" \in boot
         /\ SetUp({"sudoers", "finish"}) => (Up => "hosts" \in run)
         /\ SetUp({"finish"}) => "sudoers" \in files
    /\ Darwin =>
         /\ cmd = "setup" /\ pc \in {"mkdir", "port"} => "confdir" \in lines
         /\ cmd = "setup" /\ pc = "port" => dir = "user"
         /\ SetUp(AfterPort) => dir = "user" /\ "port" \in files /\ "confdir" \in lines
         /\ SetUp(AfterPort \ {"hosts"}) => "hosts" \in lines
         /\ SetUp({"start", "finish"}) => (Up => {"hosts", "port"} \subseteq run)

(* The uninstall that runs has met no error and is past one of the steps, or
   one ran to its end. *)
TornDown(steps) == (gone /\ ~sudo) \/ (cmd = "uninstall" /\ ok /\ pc \in steps)

(* What uninstall has removed at each of its steps. *)
GoneInv ==
  /\ TornDown((TeardownStepsLinux \union TeardownStepsDarwin) \ {"disable"}) =>
       "daemon" \notin active
  /\ TornDown((TeardownStepsLinux \union TeardownStepsDarwin) \ {"disable", "rmunit"}) =>
       "unit" \notin files
  /\ Linux =>
       /\ TornDown(TeardownStepsLinux \ {"disable", "rmunit", "rmnetdev"}) =>
            "netdev" \notin files
       /\ TornDown({"unroute", "unnetworkd", "rmdir"} \union AfterDirLinux) =>
            "network" \notin files
       /\ TornDown(AfterDirLinux) => dir = "none"
       /\ TornDown(AfterDirLinux \ {"rmconfdir"}) => "confdir" \notin lines \union buf
       /\ TornDown({"rmlisten", "rmbind"} \union AfterConfLinux) => "hosts" \notin lines \union buf
       /\ TornDown({"rmbind"} \union AfterConfLinux) => "listen" \notin lines \union buf
       /\ TornDown(AfterConfLinux) => "bind" \notin lines \union buf
       /\ TornDown({"unrestart", "finish"}) => "sudoers" \notin files
  /\ Darwin =>
       /\ TornDown({"dealias"} \union AfterDealias) => "plist" \notin files
       /\ TornDown({"dealias"}) => \A a \in alias : a >= i
       /\ TornDown(AfterDealias) => alias = {}
       /\ TornDown({"rmdir"} \union AfterDirDarwin) => "resolver" \notin files
       /\ TornDown(AfterDirDarwin) /\ dir # "root" => dir = "none" /\ "port" \notin files
       /\ TornDown(AfterDirDarwin \ {"rmconfdir"}) => "confdir" \notin lines \union buf
       /\ TornDown({"unstart", "finish"}) => "hosts" \notin lines \union buf
  /\ TornDown({"finish"}) => run \intersect (Ours \union {"port"}) = {}

-----------------------------------------------------------------------------
(* The inductive invariant, in three parts: where a command is and what it may
   not touch; what setup has established; what uninstall has removed. *)
BaseInv == DataOK /\ ControlInv /\ PlatformInv /\ OwnerInv /\ OwnLinesKept
SetupInv == AliasInv /\ RouteInv /\ ReadyInv
IInv == BaseInv /\ SetupInv /\ GoneInv

USE SetupAssumption
USE DEF confVars, dirVars, netVars, serverVars, serviceVars, cmdVars, histVars, machineVars,
        Linux, Darwin, NoBuf,
        AfterRouting, AfterConf, SetupStepsLinux, AfterLoad, AfterResolver, AfterPort,
        SetupStepsDarwin, AfterConfLinux, AfterDirLinux, TeardownStepsLinux, AfterDirDarwin,
        AfterDealias, TeardownStepsDarwin, RemoveLineSteps

-----------------------------------------------------------------------------
(* The steps of setup on Linux keep BaseInv. *)
LEMMA BaseSetupLinux ==
  ASSUME BaseInv, Linux, SetupLinux
  PROVE  BaseInv'
<1> USE DEF BaseInv, DataOK, ControlInv, PlatformInv, OwnerInv, OwnLinesKept, Lines, Ours,
        Files, Owners, Services, AllAliases, Steps, Routing
<1>1. CASE InstallsDnsmasq("mkdir")
  <2>1. run' = run \/ run' = {} \/ run' = Loaded
    BY <1>1 DEF InstallsDnsmasq
  <2>2. run' \subseteq {"up", "port"} \union Lines
    BY <2>1 DEF Loaded
  <2>3. boot' \subseteq Services \union {"dnsmasq", "aliases"}
    BY <1>1 DEF InstallsDnsmasq
  <2>4. pc = "install" /\ pc' = "mkdir"
    BY <1>1 DEF InstallsDnsmasq, Goes
  <2>5. UNCHANGED <<host, confVars, dirVars, files, netVars, active, cmd, i, by, ok, histVars>>
    BY <1>1 DEF InstallsDnsmasq, Goes
  <2> QED BY <2>2, <2>3, <2>4, <2>5
<1>2. CASE Mkdir BY <1>2 DEF Mkdir, Goes
<1>3. CASE Chown BY <1>3 DEF Chown, Goes
<1>4. CASE EnsuresConf
  <2>1. CASE EnsuresLine("listen", "bind", "listen") BY <2>1 DEF EnsuresLine, Goes
  <2>2. CASE EnsuresLine("bind", "confdir", "bind") BY <2>2 DEF EnsuresLine, Goes
  <2>3. CASE EnsuresLine("confdir", "hosts", "confdir") BY <2>3 DEF EnsuresLine, Goes
  <2>4. CASE EnsuresLine("hosts", "hostsfile", "hosts") BY <2>4 DEF EnsuresLine, Goes
  <2> QED BY <1>4, <2>1, <2>2, <2>3, <2>4 DEF EnsuresConf
<1>5. CASE WritesHostsFile("netdev") BY <1>5 DEF WritesHostsFile, Goes
<1>6. CASE WritesRouting
  <2>1. CASE WritesFile("netdev", "network", "netdev") BY <2>1 DEF WritesFile, Goes
  <2>2. CASE pc = "network"
    <3>1. pc' \in {"reload", "networkd", "enable"} /\ files' = files \union {"network"}
      BY <1>6, <2>2 DEF WritesRouting, WritesFile, Goes
    <3>2. UNCHANGED <<host, confVars, dirVars, netVars, serverVars, serviceVars, cmd, i, by, ok,
                      histVars>>
      BY <1>6, <2>2 DEF WritesRouting, WritesFile, Goes
    <3> QED BY <2>2, <3>1, <3>2
  <2> QED BY <1>6, <2>1, <2>2 DEF WritesRouting, WritesFile, Goes
<1>7. CASE RoutingFails BY <1>7 DEF RoutingFails, Fault
<1>8. CASE EnablesNetworkd BY <1>8 DEF EnablesNetworkd, Goes
<1>9. CASE ReloadsNetworkd BY <1>9 DEF ReloadsNetworkd, Goes
<1>10. CASE EnablesDnsmasq BY <1>10 DEF EnablesDnsmasq, Goes, Started, Loaded
<1>11. CASE Restarts("restart", "sudoers") BY <1>11 DEF Restarts, Goes, Started, Loaded
<1>12. CASE WriteSudoers BY <1>12 DEF WriteSudoers, WritesFile, Goes
<1> QED BY <1>1, <1>2, <1>3, <1>4, <1>5, <1>6, <1>7, <1>8, <1>9, <1>10, <1>11, <1>12 DEF SetupLinux

(* The steps of uninstall on Linux keep BaseInv. *)
LEMMA BaseTeardownLinux ==
  ASSUME BaseInv, Linux, TeardownLinux
  PROVE  BaseInv'
<1> USE DEF BaseInv, DataOK, ControlInv, PlatformInv, OwnerInv, OwnLinesKept, Lines, Ours,
        Files, Owners, Services, AllAliases, Steps
<1>1. CASE TeardownSplitDNS
  <2>1. CASE RemovesFile("rmnetdev", "rmnetwork", "netdev") BY <2>1 DEF RemovesFile, Goes
  <2>2. CASE RemovesFile("rmnetwork", "unroute", "network") BY <2>2 DEF RemovesFile, Goes
  <2> QED BY <1>1, <2>1, <2>2 DEF TeardownSplitDNS
<1>2. CASE Unroutes BY <1>2 DEF Unroutes, Goes
<1>3. CASE DisablesNetworkd BY <1>3 DEF DisablesNetworkd, Goes
<1>4. CASE RmDir BY <1>4 DEF RmDir, DirGone, Goes
<1>5. CASE RemovesConf
  <2>1. CASE ReadsLines("rmconfdir", "confdir") BY <2>1 DEF ReadsLines
  <2>2. CASE WritesLines("rmconfdir", "rmhosts") BY <2>2 DEF WritesLines, Goes
  <2>3. CASE ReadsLines("rmhosts", "hosts") BY <2>3 DEF ReadsLines
  <2>4. CASE WritesLines("rmhosts", "rmlisten") BY <2>4 DEF WritesLines, Goes
  <2>5. CASE ReadsLines("rmlisten", "listen") BY <2>5 DEF ReadsLines
  <2>6. CASE WritesLines("rmlisten", "rmbind") BY <2>6 DEF WritesLines, Goes
  <2>7. CASE ReadsLines("rmbind", "bind") BY <2>7 DEF ReadsLines
  <2>8. CASE WritesLines("rmbind", "rmsudoers") BY <2>8 DEF WritesLines, Goes
  <2> QED BY <1>5, <2>1, <2>2, <2>3, <2>4, <2>5, <2>6, <2>7, <2>8 DEF RemovesConf, RemovesLine
<1>6. CASE RemovesFile("rmsudoers", "unrestart", "sudoers") BY <1>6 DEF RemovesFile, Goes
<1>7. CASE Restarts("unrestart", "finish") BY <1>7 DEF Restarts, Goes, Started, Loaded
<1> QED BY <1>1, <1>2, <1>3, <1>4, <1>5, <1>6, <1>7 DEF TeardownLinux

(* The steps of setup on macOS keep BaseInv. *)
LEMMA BaseSetupDarwin ==
  ASSUME BaseInv, Darwin, SetupDarwin
  PROVE  BaseInv'
<1> USE DEF BaseInv, DataOK, ControlInv, PlatformInv, OwnerInv, OwnLinesKept, Lines, Ours,
        Files, Owners, Services, AllAliases, Steps
<1>1. CASE InstallsDnsmasq("confdir")
  <2>1. run' = run \/ run' = {} \/ run' = Loaded
    BY <1>1 DEF InstallsDnsmasq
  <2>2. run' \subseteq {"up", "port"} \union Lines
    BY <2>1 DEF Loaded
  <2>3. boot' \subseteq Services \union {"dnsmasq", "aliases"}
    BY <1>1 DEF InstallsDnsmasq
  <2>4. pc = "install" /\ pc' = "confdir"
    BY <1>1 DEF InstallsDnsmasq, Goes
  <2>5. UNCHANGED <<host, confVars, dirVars, files, netVars, active, cmd, i, by, ok, histVars>>
    BY <1>1 DEF InstallsDnsmasq, Goes
  <2> QED BY <2>2, <2>3, <2>4, <2>5
<1>2. CASE MkdirAll BY <1>2 DEF MkdirAll, Goes
<1>3. CASE WritesPort BY <1>3 DEF WritesPort, WritesFile, Goes
<1>4. CASE PortRefused BY <1>4 DEF PortRefused, NoCommand
<1>5. CASE EnsuresLines
  <2>1. CASE EnsuresLine("confdir", "mkdir", "confdir") BY <2>1 DEF EnsuresLine, Goes
  <2>2. CASE EnsuresLine("hosts", "hostsfile", "hosts") BY <2>2 DEF EnsuresLine, Goes
  <2> QED BY <1>5, <2>1, <2>2 DEF EnsuresLines
<1>6. CASE WritesHostsFile("resolver") BY <1>6 DEF WritesHostsFile, Goes
<1>7. CASE WriteResolver BY <1>7 DEF WriteResolver, WritesFile, Goes
<1>8. CASE AddsAlias
  <2>1. i' \in AllAliases
    BY <1>8 DEF AddsAlias
  <2>2. alias' \subseteq AllAliases
    BY <1>8 DEF AddsAlias
  <2>3. faults' \in 0..MaxFaults
    BY <1>8 DEF AddsAlias, Fault
  <2>4. pc' \in {"alias", "plist"} /\ (i' # 1 => pc' = "alias")
    BY <1>8 DEF AddsAlias
  <2>5. UNCHANGED <<host, confVars, dirVars, files, serverVars, serviceVars, cmd, by, done, gone,
                    sudo>>
    BY <1>8 DEF AddsAlias
  <2>6. pc = "alias" /\ Darwin
    BY <1>8 DEF AddsAlias
  <2> QED BY <2>1, <2>2, <2>3, <2>4, <2>5, <2>6
<1>9. CASE WritesPlist BY <1>9 DEF WritesPlist, WritesFile, Goes
<1>10. CASE LoadsPlist BY <1>10 DEF LoadsPlist, Goes
<1>11. CASE StopsDnsmasq("stop", "start")
  <2>1. run' \subseteq run /\ boot' \subseteq boot
    BY <1>11 DEF StopsDnsmasq
  <2>2. pc = "stop" /\ pc' = "start"
    BY <1>11 DEF StopsDnsmasq, Goes
  <2>3. UNCHANGED <<host, confVars, dirVars, files, netVars, active, cmd, i, by, ok, histVars>>
    BY <1>11 DEF StopsDnsmasq, Goes
  <2> QED BY <2>1, <2>2, <2>3
<1>12. CASE StartsDnsmasq BY <1>12 DEF StartsDnsmasq, Started, Loaded, Goes
<1> QED BY <1>1, <1>2, <1>3, <1>4, <1>5, <1>6, <1>7, <1>8, <1>9, <1>10, <1>11, <1>12 DEF SetupDarwin

(* The steps of uninstall on macOS keep BaseInv. *)
LEMMA BaseTeardownDarwin ==
  ASSUME BaseInv, Darwin, TeardownDarwin
  PROVE  BaseInv'
<1> USE DEF BaseInv, DataOK, ControlInv, PlatformInv, OwnerInv, OwnLinesKept, Lines, Ours,
        Files, Owners, Services, AllAliases, Steps
<1>1. CASE UnloadsPlist BY <1>1 DEF UnloadsPlist, Goes
<1>2. CASE RemovesFile("rmplist", "dealias", "plist") BY <1>2 DEF RemovesFile, Goes
<1>3. CASE DeletesAlias
  <2>1. i' \in AllAliases
    BY <1>3 DEF DeletesAlias
  <2>2. alias' \subseteq AllAliases
    BY <1>3 DEF DeletesAlias
  <2>3. faults' \in 0..MaxFaults
    BY <1>3 DEF DeletesAlias, Fault
  <2>4. pc' \in {"dealias", "rmresolver"} /\ (i' # 1 => pc' = "dealias")
    BY <1>3 DEF DeletesAlias
  <2>5. UNCHANGED <<host, confVars, dirVars, files, serverVars, serviceVars, cmd, by, done, gone,
                    sudo>>
    BY <1>3 DEF DeletesAlias
  <2>6. pc = "dealias" /\ Darwin
    BY <1>3 DEF DeletesAlias
  <2> QED BY <2>1, <2>2, <2>3, <2>4, <2>5, <2>6
<1>4. CASE RemovesFile("rmresolver", "rmdir", "resolver") BY <1>4 DEF RemovesFile, Goes
<1>5. CASE RemoveAllDir
  <2>1. CASE dir = "root" BY <1>5, <2>1 DEF RemoveAllDir, Goes
  <2>2. CASE dir # "root"
    <3>1. files' = files \ {"port"} /\ dir' = "none" /\ hosts' = "none" /\ conf' = {}
      BY <1>5, <2>2 DEF RemoveAllDir, DirGone
    <3>2. pc = "rmdir" /\ pc' = "rmconfdir"
      BY <1>5 DEF RemoveAllDir, Goes
    <3>3. UNCHANGED <<host, confVars, netVars, serverVars, serviceVars, cmd, i, by, ok, histVars>>
      BY <1>5 DEF RemoveAllDir, Goes
    <3> QED BY <3>1, <3>2, <3>3
  <2> QED BY <2>1, <2>2
<1>6. CASE RemovesLines
  <2>1. CASE ReadsLines("rmconfdir", "confdir") BY <2>1 DEF ReadsLines
  <2>2. CASE WritesLines("rmconfdir", "rmhosts") BY <2>2 DEF WritesLines, Goes
  <2>3. CASE ReadsLines("rmhosts", "hosts") BY <2>3 DEF ReadsLines
  <2>4. CASE WritesLines("rmhosts", "unstart") BY <2>4 DEF WritesLines, Goes
  <2> QED BY <1>6, <2>1, <2>2, <2>3, <2>4 DEF RemovesLines, RemovesLine
<1>7. CASE StopsDnsmasq("unstart", "finish")
  <2>1. run' \subseteq run /\ boot' \subseteq boot
    BY <1>7 DEF StopsDnsmasq
  <2>2. pc = "unstart" /\ pc' = "finish"
    BY <1>7 DEF StopsDnsmasq, Goes
  <2>3. UNCHANGED <<host, confVars, dirVars, files, netVars, active, cmd, i, by, ok, histVars>>
    BY <1>7 DEF StopsDnsmasq, Goes
  <2> QED BY <2>1, <2>2, <2>3
<1> QED BY <1>1, <1>2, <1>3, <1>4, <1>5, <1>6, <1>7 DEF TeardownDarwin

(* Beginning, ending, interrupting a command, and the services keep BaseInv. *)
LEMMA BaseCommands ==
  ASSUME BaseInv,
         BeginsSetup \/ BeginsUninstall \/ BeginsInstallService \/ BeginsUninstallService
           \/ ServiceStep \/ Ignores \/ Interrupt \/ Finishes
  PROVE  BaseInv'
<1> USE DEF BaseInv, DataOK, ControlInv, PlatformInv, OwnerInv, OwnLinesKept, Lines, Ours,
        Files, Owners, Services, AllAliases, Steps
<1>1. CASE BeginsSetup
  <2>1. (by' = "root" => sudo') /\ (sudo => sudo')
    BY <1>1, Zenon DEF BeginsSetup
  <2>2. by' \in {"user", "root"} /\ ~gone'
    BY <1>1 DEF BeginsSetup
  <2>3. cmd = "none" /\ cmd' = "setup" /\ pc' = "install" /\ UNCHANGED <<machineVars, i, ok,
                                                                         faults>>
    BY <1>1 DEF BeginsSetup, Begins
  <2> QED BY <2>1, <2>2, <2>3
<1>2. CASE BeginsUninstall BY <1>2 DEF BeginsUninstall, Begins
<1>3. CASE BeginsInstallService BY <1>3 DEF BeginsInstallService, Begins
<1>4. CASE BeginsUninstallService BY <1>4 DEF BeginsUninstallService, Begins
<1>5. CASE WritesUnit BY <1>5 DEF WritesUnit, WritesFile, Goes
<1>6. CASE EnablesUnit BY <1>6 DEF EnablesUnit, Goes
<1>7. CASE DisablesUnit BY <1>7 DEF DisablesUnit, Goes
<1>8. CASE RemovesUnit BY <1>8 DEF RemovesUnit, RemovesFile, AfterService, Goes
<1>9. CASE ServiceFails BY <1>9 DEF ServiceFails, AfterService, Fault
<1>10. CASE Ignores
  <2>1. DataOK' /\ ControlInv' /\ PlatformInv' /\ OwnerInv'
    BY <1>10 DEF Ignores, LinuxIgnored, DarwinIgnored, Fault
  <2>2. ~torn' => buf = NoBuf /\ ~torn
    BY <1>10, Zenon DEF Ignores
  <2> QED BY <1>10, <2>1, <2>2 DEF Ignores
<1>11. CASE Interrupt
  <2>1. DataOK' /\ ControlInv' /\ PlatformInv' /\ OwnerInv'
    BY <1>11 DEF Interrupt, NoCommand, Fault
  <2>2. ~torn' => buf = NoBuf /\ ~torn
    BY <1>11, Zenon DEF Interrupt
  <2> QED BY <1>11, <2>1, <2>2 DEF Interrupt
<1>12. CASE Finishes
  <2>1. ~sudo' => ~sudo \/ dir = "none"
    BY <1>12, Zenon DEF Finishes
  <2>2. pc = "finish" /\ cmd' = "none" /\ pc' = "idle" /\ i' = 1 /\ by' = "user"
    BY <1>12 DEF Finishes, NoCommand
  <2>3. UNCHANGED <<machineVars, faults>>
    BY <1>12 DEF Finishes
  <2> QED BY <2>1, <2>2, <2>3
<1> QED BY <1>1, <1>2, <1>3, <1>4, <1>5, <1>6, <1>7, <1>8, <1>9, <1>10, <1>11, <1>12 DEF ServiceStep

(* The daemon, dnsmasq and a restart of the machine keep BaseInv. *)
LEMMA BaseMachine ==
  ASSUME BaseInv,
         DaemonAdds \/ DaemonRemoves \/ DaemonCrashes \/ ServerRestarts \/ Reboot \/ UNCHANGED vars
  PROVE  BaseInv'
<1> USE DEF BaseInv, DataOK, ControlInv, PlatformInv, OwnerInv, OwnLinesKept, Lines, Ours,
        Files, Owners, Services, AllAliases, Steps
<1>1. CASE DaemonAdds BY <1>1 DEF DaemonAdds, EnsureAlias
<1>2. CASE DaemonRemoves BY <1>2 DEF DaemonRemoves, RemoveAlias
<1>3. CASE DaemonCrashes BY <1>3 DEF DaemonCrashes, Stale
<1>4. CASE ServerRestarts BY <1>4 DEF ServerRestarts, Started, Loaded
<1>5. CASE Reboot
  <2>1. ControlInv' /\ OwnerInv'
    BY <1>5 DEF Reboot, NoCommand
  <2>2. ~torn' => buf = NoBuf /\ ~torn
    BY <1>5, Zenon DEF Reboot
  <2>3. OwnLinesKept'
    BY <1>5, <2>2 DEF Reboot
  <2>4. alias' \in {{}, AllAliases}
    BY <1>5 DEF Reboot
  <2>5. Linux => alias' = {}
    <3>1. \A a \in Autostart("aliases", "plist") : Linux => a = FALSE
      BY Zenon DEF Autostart
    <3>2. \E a \in Autostart("aliases", "plist") : alias' = IF a THEN AllAliases ELSE {}
      BY <1>5, Zenon DEF Reboot
    <3> QED BY <3>1, <3>2
  <2>6. PlatformInv'
    BY <1>5, <2>5 DEF Reboot
  <2>7. conf' \subseteq {"own", "stale"}
    <3>1. conf' = Stale(conf) \/ conf' = conf \ {"own"}
      BY <1>5 DEF Reboot
    <3> QED BY <3>1 DEF Stale
  <2>8. run' \subseteq {"up", "port"} \union Lines
    BY <1>5 DEF Reboot, Started, Loaded
  <2>9. active' \subseteq Services
    BY <1>5 DEF Reboot
  <2>10. faults' \in 0..MaxFaults
    BY <1>5 DEF Reboot, Fault
  <2>11. DataOK'
    BY <1>5, <2>4, <2>7, <2>8, <2>9, <2>10 DEF Reboot, NoCommand
  <2> QED BY <2>1, <2>3, <2>6, <2>11
<1>6. CASE UNCHANGED vars BY <1>6 DEF vars
<1> QED BY <1>1, <1>2, <1>3, <1>4, <1>5, <1>6

-----------------------------------------------------------------------------
(* A step of setup belongs to a setup, one of teardown to an uninstall: no
   other command has steps of these names. *)
LEMMA SetupOnly ==
  ASSUME DataOK, ControlInv, SetupLinux \/ SetupDarwin
  PROVE  cmd = "setup" /\ cmd' \in {"setup", "none"} /\ ~gone'
<1> USE DEF DataOK, ControlInv, Goes
<1>1. CASE SetupLinux
  BY <1>1 DEF SetupLinux, InstallsDnsmasq, Mkdir, Chown, EnsuresConf, EnsuresLine,
     WritesHostsFile, WritesRouting, WritesFile, RoutingFails, Routing, EnablesNetworkd,
     ReloadsNetworkd, EnablesDnsmasq, Restarts, WriteSudoers
<1>2. CASE SetupDarwin
  BY <1>2 DEF SetupDarwin, InstallsDnsmasq, MkdirAll, WritesPort, WritesFile, PortRefused,
     NoCommand, EnsuresLines, EnsuresLine, WritesHostsFile, WriteResolver, AddsAlias,
     WritesPlist, LoadsPlist, StopsDnsmasq, StartsDnsmasq
<1> QED BY <1>1, <1>2

LEMMA TeardownOnly ==
  ASSUME DataOK, ControlInv, TeardownLinux \/ TeardownDarwin
  PROVE  cmd = "uninstall" /\ cmd' = "uninstall" /\ ~done' /\ host' = host
<1> USE DEF DataOK, ControlInv, Goes
<1>1. CASE TeardownLinux
  <2>1. CASE TeardownSplitDNS BY <2>1 DEF TeardownSplitDNS, RemovesFile
  <2>2. CASE Unroutes BY <2>2 DEF Unroutes
  <2>3. CASE DisablesNetworkd \/ RmDir BY <2>3 DEF DisablesNetworkd, RmDir
  <2>4. CASE RemovesConf BY <2>4 DEF RemovesConf, RemovesLine, ReadsLines, WritesLines
  <2>5. CASE Linux /\ RemovesFile("rmsudoers", "unrestart", "sudoers") BY <2>5 DEF RemovesFile
  <2>6. CASE Restarts("unrestart", "finish") BY <2>6 DEF Restarts
  <2> QED BY <1>1, <2>1, <2>2, <2>3, <2>4, <2>5, <2>6 DEF TeardownLinux
<1>2. CASE TeardownDarwin
  BY <1>2 DEF TeardownDarwin, UnloadsPlist, RemovesFile, DeletesAlias, RemoveAllDir,
     RemovesLines, RemovesLine, ReadsLines, WritesLines, StopsDnsmasq
<1> QED BY <1>1, <1>2

-----------------------------------------------------------------------------
(* The steps of setup on Linux keep SetupInv. *)
LEMMA SetupSetupLinux ==
  ASSUME BaseInv, SetupInv, Linux, SetupLinux
  PROVE  SetupInv'
<1> USE DEF BaseInv, DataOK, Owners, ControlInv, OwnerInv, SetupInv, AliasInv, RouteInv,
        ReadyInv, SetUp, Routing, Up
<1>1. CASE InstallsDnsmasq("mkdir") BY <1>1 DEF InstallsDnsmasq, Goes, Loaded
<1>2. CASE Mkdir BY <1>2 DEF Mkdir, Goes
<1>3. CASE Chown BY <1>3 DEF Chown, Goes
<1>4. CASE EnsuresConf BY <1>4 DEF EnsuresConf, EnsuresLine, Goes
<1>5. CASE WritesHostsFile("netdev") BY <1>5 DEF WritesHostsFile, Goes
<1>6. CASE WritesRouting BY <1>6 DEF WritesRouting, WritesFile, Goes
<1>7. CASE RoutingFails BY <1>7 DEF RoutingFails, Fault
<1>8. CASE EnablesNetworkd BY <1>8 DEF EnablesNetworkd, Goes
<1>9. CASE ReloadsNetworkd BY <1>9 DEF ReloadsNetworkd, Goes
<1>10. CASE EnablesDnsmasq BY <1>10 DEF EnablesDnsmasq, Goes, Started, Loaded
<1>11. CASE Restarts("restart", "sudoers") BY <1>11 DEF Restarts, Goes, Started, Loaded
<1>12. CASE WriteSudoers BY <1>12 DEF WriteSudoers, WritesFile, Goes
<1> QED BY <1>1, <1>2, <1>3, <1>4, <1>5, <1>6, <1>7, <1>8, <1>9, <1>10, <1>11, <1>12 DEF SetupLinux

(* The steps of setup on macOS keep SetupInv. *)
LEMMA SetupSetupDarwin ==
  ASSUME BaseInv, SetupInv, Darwin, SetupDarwin
  PROVE  SetupInv'
<1> USE DEF BaseInv, DataOK, Owners, ControlInv, OwnerInv, SetupInv, AliasInv, RouteInv,
        ReadyInv, SetUp, Routing, Up
<1>1. CASE InstallsDnsmasq("confdir") BY <1>1 DEF InstallsDnsmasq, Goes, Loaded
<1>2. CASE MkdirAll BY <1>2 DEF MkdirAll, Goes
<1>3. CASE WritesPort BY <1>3 DEF WritesPort, WritesFile, Goes
<1>4. CASE PortRefused BY <1>4 DEF PortRefused, NoCommand
<1>5. CASE EnsuresLines BY <1>5 DEF EnsuresLines, EnsuresLine, Goes
<1>6. CASE WritesHostsFile("resolver") BY <1>6 DEF WritesHostsFile, Goes
<1>7. CASE WriteResolver BY <1>7 DEF WriteResolver, WritesFile, Goes
<1>8. CASE AddsAlias
  <2>1. UNCHANGED <<host, confVars, dirVars, files, link, serverVars, serviceVars, cmd, by, done,
                    gone, sudo>>
    BY <1>8 DEF AddsAlias
  <2>2. pc = "alias" /\ pc' \in {"alias", "plist"}
    BY <1>8 DEF AddsAlias
  <2>3. ok' => ok
    BY <1>8 DEF AddsAlias
  <2>4. alias \subseteq alias' /\ alias' \subseteq AllAliases
    BY <1>8 DEF AddsAlias, AllAliases
  <2> QED BY <2>1, <2>2, <2>3, <2>4
<1>9. CASE WritesPlist BY <1>9 DEF WritesPlist, WritesFile, Goes
<1>10. CASE LoadsPlist BY <1>10 DEF LoadsPlist, Goes
<1>11. CASE StopsDnsmasq("stop", "start") BY <1>11 DEF StopsDnsmasq, Goes
<1>12. CASE StartsDnsmasq BY <1>12 DEF StartsDnsmasq, Started, Loaded, Goes
<1> QED BY <1>1, <1>2, <1>3, <1>4, <1>5, <1>6, <1>7, <1>8, <1>9, <1>10, <1>11, <1>12 DEF SetupDarwin

(* Beginning, ending, interrupting a command, and the services keep SetupInv. *)
LEMMA SetupCommands ==
  ASSUME BaseInv, SetupInv,
         BeginsSetup \/ BeginsUninstall \/ BeginsInstallService \/ BeginsUninstallService
           \/ ServiceStep \/ Ignores \/ Interrupt \/ Finishes
  PROVE  SetupInv'
<1> USE DEF BaseInv, DataOK, Owners, ControlInv, OwnerInv, SetupInv, AliasInv, RouteInv,
        ReadyInv, SetUp, Routing, Up
<1>1. CASE BeginsSetup BY <1>1 DEF BeginsSetup, Begins
<1>2. CASE BeginsUninstall BY <1>2 DEF BeginsUninstall, Begins
<1>3. CASE BeginsInstallService BY <1>3 DEF BeginsInstallService, Begins
<1>4. CASE BeginsUninstallService BY <1>4 DEF BeginsUninstallService, Begins
<1>5. CASE WritesUnit BY <1>5 DEF WritesUnit, WritesFile, Goes
<1>6. CASE EnablesUnit BY <1>6 DEF EnablesUnit, Goes
<1>7. CASE DisablesUnit BY <1>7 DEF DisablesUnit, Goes
<1>8. CASE RemovesUnit BY <1>8 DEF RemovesUnit, RemovesFile, AfterService, Goes
<1>9. CASE ServiceFails BY <1>9 DEF ServiceFails, AfterService, Fault
<1>10. CASE Ignores BY <1>10 DEF Ignores, LinuxIgnored, DarwinIgnored, Fault
<1>11. CASE Interrupt BY <1>11 DEF Interrupt, NoCommand, Fault
<1>12. CASE Finishes BY <1>12 DEF Finishes, NoCommand
<1> QED BY <1>1, <1>2, <1>3, <1>4, <1>5, <1>6, <1>7, <1>8, <1>9, <1>10, <1>11, <1>12 DEF ServiceStep

(* The daemon, dnsmasq and a restart of the machine keep SetupInv. *)
LEMMA SetupMachine ==
  ASSUME BaseInv, SetupInv,
         DaemonAdds \/ DaemonRemoves \/ DaemonCrashes \/ ServerRestarts \/ Reboot \/ UNCHANGED vars
  PROVE  SetupInv'
<1> USE DEF BaseInv, DataOK, Owners, ControlInv, OwnerInv, SetupInv, AliasInv, RouteInv,
        ReadyInv, SetUp, Routing, Up
<1>1. CASE DaemonAdds BY <1>1 DEF DaemonAdds, EnsureAlias
<1>2. CASE DaemonRemoves BY <1>2 DEF DaemonRemoves, RemoveAlias
<1>3. CASE DaemonCrashes BY <1>3 DEF DaemonCrashes, Stale
<1>4. CASE ServerRestarts BY <1>4 DEF ServerRestarts, Started, Loaded
<1>5. CASE Reboot BY <1>5 DEF Reboot, NoCommand, Fault, Stale, Autostart, Started, Loaded
<1>6. CASE UNCHANGED vars BY <1>6 DEF vars
<1> QED BY <1>1, <1>2, <1>3, <1>4, <1>5, <1>6

(* SetupInv says little of a machine that is being torn down. *)
LEMMA SetupTeardown ==
  ASSUME BaseInv, SetupInv, TeardownLinux \/ TeardownDarwin
  PROVE  SetupInv'
<1>1. cmd = "uninstall" /\ cmd' = "uninstall" /\ ~done' /\ host' = host
  BY TeardownOnly DEF BaseInv
<1>2. Linux => ("networkd" \in active' <=> "networkd" \in boot')
  <2> USE DEF SetupInv, RouteInv, Goes
  <2>1. CASE TeardownLinux
    BY <2>1 DEF TeardownLinux, TeardownSplitDNS, RemovesFile, Unroutes, DisablesNetworkd,
       RmDir, RemovesConf, RemovesLine, ReadsLines, WritesLines, Restarts
  <2>2. CASE TeardownDarwin
    BY <2>2 DEF TeardownDarwin, UnloadsPlist, RemovesFile, DeletesAlias, RemoveAllDir,
       RemovesLines, RemovesLine, ReadsLines, WritesLines, StopsDnsmasq
  <2> QED BY <2>1, <2>2
<1> QED
  BY <1>1, <1>2 DEF SetupInv, AliasInv, RouteInv, ReadyInv, SetUp

-----------------------------------------------------------------------------
(* There is no third platform. *)
LEMMA Platforms == ASSUME host \in Hosts PROVE Linux \/ Darwin
  BY DEF Hosts

(* A setup that runs has taken back what an uninstall left. *)
LEMMA GoneSetup ==
  ASSUME BaseInv, SetupLinux \/ SetupDarwin
  PROVE  GoneInv'
<1>1. cmd' # "uninstall" /\ ~gone'
  BY SetupOnly DEF BaseInv
<1> QED
  BY <1>1 DEF GoneInv, TornDown

(* The steps of uninstall on Linux keep GoneInv. *)
LEMMA GoneTeardownLinux ==
  ASSUME BaseInv, GoneInv, Linux, TeardownLinux
  PROVE  GoneInv'
<1> USE DEF BaseInv, DataOK, ControlInv, PlatformInv, OwnerInv, GoneInv, TornDown, Lines, Ours,
        Owners, AllAliases
<1>1. CASE TeardownSplitDNS BY <1>1 DEF TeardownSplitDNS, RemovesFile, Goes
<1>2. CASE Unroutes BY <1>2 DEF Unroutes, Goes
<1>3. CASE DisablesNetworkd BY <1>3 DEF DisablesNetworkd, Goes
<1>4. CASE RmDir BY <1>4 DEF RmDir, DirGone, Goes
<1>5. CASE RemovesConf
  <2>1. CASE ReadsLines("rmconfdir", "confdir") BY <2>1 DEF ReadsLines
  <2>2. CASE WritesLines("rmconfdir", "rmhosts") BY <2>2 DEF WritesLines, Goes
  <2>3. CASE ReadsLines("rmhosts", "hosts") BY <2>3 DEF ReadsLines
  <2>4. CASE WritesLines("rmhosts", "rmlisten") BY <2>4 DEF WritesLines, Goes
  <2>5. CASE ReadsLines("rmlisten", "listen") BY <2>5 DEF ReadsLines
  <2>6. CASE WritesLines("rmlisten", "rmbind") BY <2>6 DEF WritesLines, Goes
  <2>7. CASE ReadsLines("rmbind", "bind") BY <2>7 DEF ReadsLines
  <2>8. CASE WritesLines("rmbind", "rmsudoers") BY <2>8 DEF WritesLines, Goes
  <2> QED BY <1>5, <2>1, <2>2, <2>3, <2>4, <2>5, <2>6, <2>7, <2>8 DEF RemovesConf, RemovesLine
<1>6. CASE RemovesFile("rmsudoers", "unrestart", "sudoers") BY <1>6 DEF RemovesFile, Goes
<1>7. CASE Restarts("unrestart", "finish") BY <1>7 DEF Restarts, Goes, Started, Loaded
<1> QED BY <1>1, <1>2, <1>3, <1>4, <1>5, <1>6, <1>7 DEF TeardownLinux

(* The steps of uninstall on macOS keep GoneInv. *)
LEMMA GoneTeardownDarwin ==
  ASSUME BaseInv, GoneInv, Darwin, TeardownDarwin
  PROVE  GoneInv'
<1> USE DEF BaseInv, DataOK, ControlInv, PlatformInv, OwnerInv, GoneInv, TornDown, Lines, Ours,
        Owners, AllAliases
<1>1. CASE UnloadsPlist BY <1>1 DEF UnloadsPlist, Goes
<1>2. CASE RemovesFile("rmplist", "dealias", "plist") BY <1>2 DEF RemovesFile, Goes
<1>3. CASE DeletesAlias
  <2>1. pc = "dealias" /\ Darwin /\ i \in 1..Aliases /\ alias \subseteq 1..Aliases
    BY <1>3 DEF DeletesAlias
  <2>2. UNCHANGED <<host, confVars, dirVars, files, link, serverVars, serviceVars, cmd, by, done,
                    gone, sudo>>
    BY <1>3 DEF DeletesAlias
  <2>3. alias' \subseteq alias /\ (ok' => ok /\ i \notin alias')
    BY <1>3 DEF DeletesAlias, Fault
  <2>4. CASE i = Aliases
    <3>1. pc' = "rmresolver"
      BY <1>3, <2>4 DEF DeletesAlias
    <3>2. TornDown({"dealias"}) /\ ok' => alias' = {}
      BY <2>1, <2>3, <2>4
    <3> QED BY <2>1, <2>2, <2>3, <3>1, <3>2
  <2>5. CASE i # Aliases
    <3>1. pc' = "dealias" /\ i' = i + 1
      BY <1>3, <2>5 DEF DeletesAlias
    <3>2. TornDown({"dealias"}) /\ ok' => \A a \in alias' : a >= i + 1
      BY <2>1, <2>3
    <3> QED BY <2>1, <2>2, <2>3, <3>1, <3>2
  <2> QED BY <2>4, <2>5
<1>4. CASE RemovesFile("rmresolver", "rmdir", "resolver") BY <1>4 DEF RemovesFile, Goes
<1>5. CASE RemoveAllDir BY <1>5 DEF RemoveAllDir, DirGone, Goes
<1>6. CASE RemovesLines
  <2>1. CASE ReadsLines("rmconfdir", "confdir") BY <2>1 DEF ReadsLines
  <2>2. CASE WritesLines("rmconfdir", "rmhosts") BY <2>2 DEF WritesLines, Goes
  <2>3. CASE ReadsLines("rmhosts", "hosts") BY <2>3 DEF ReadsLines
  <2>4. CASE WritesLines("rmhosts", "unstart") BY <2>4 DEF WritesLines, Goes
  <2> QED BY <1>6, <2>1, <2>2, <2>3, <2>4 DEF RemovesLines, RemovesLine
<1>7. CASE StopsDnsmasq("unstart", "finish") BY <1>7 DEF StopsDnsmasq, Goes
<1> QED BY <1>1, <1>2, <1>3, <1>4, <1>5, <1>6, <1>7 DEF TeardownDarwin

(* Beginning, ending, interrupting a command, and the services keep GoneInv. *)
LEMMA GoneCommands ==
  ASSUME BaseInv, GoneInv,
         BeginsSetup \/ BeginsUninstall \/ BeginsInstallService \/ BeginsUninstallService
           \/ ServiceStep \/ Ignores \/ Interrupt \/ Finishes
  PROVE  GoneInv'
<1> USE DEF BaseInv, DataOK, ControlInv, PlatformInv, OwnerInv, GoneInv, TornDown, Lines, Ours,
        Owners, AllAliases
<1>1. CASE BeginsSetup BY <1>1 DEF BeginsSetup, Begins
<1>2. CASE BeginsUninstall BY <1>2 DEF BeginsUninstall, Begins
<1>3. CASE BeginsInstallService BY <1>3 DEF BeginsInstallService, Begins
<1>4. CASE BeginsUninstallService BY <1>4 DEF BeginsUninstallService, Begins
<1>5. CASE WritesUnit BY <1>5 DEF WritesUnit, WritesFile, Goes
<1>6. CASE EnablesUnit BY <1>6 DEF EnablesUnit, Goes
<1>7. CASE DisablesUnit BY <1>7 DEF DisablesUnit, Goes
<1>8. CASE RemovesUnit BY <1>8 DEF RemovesUnit, RemovesFile, AfterService, Goes
<1>9. CASE ServiceFails BY <1>9 DEF ServiceFails, AfterService, Fault
<1>10. CASE Ignores BY <1>10 DEF Ignores, LinuxIgnored, DarwinIgnored, Fault
<1>11. CASE Interrupt BY <1>11 DEF Interrupt, NoCommand, Fault
<1>12. CASE Finishes BY <1>12 DEF Finishes, NoCommand
<1> QED BY <1>1, <1>2, <1>3, <1>4, <1>5, <1>6, <1>7, <1>8, <1>9, <1>10, <1>11, <1>12 DEF ServiceStep

(* The daemon, dnsmasq and a restart of the machine keep GoneInv. *)
LEMMA GoneMachine ==
  ASSUME BaseInv, GoneInv,
         DaemonAdds \/ DaemonRemoves \/ DaemonCrashes \/ ServerRestarts \/ Reboot \/ UNCHANGED vars
  PROVE  GoneInv'
<1> USE DEF BaseInv, DataOK, ControlInv, PlatformInv, OwnerInv, GoneInv, TornDown, Lines, Ours,
        Owners, AllAliases
<1>1. CASE DaemonAdds BY <1>1 DEF DaemonAdds, EnsureAlias
<1>2. CASE DaemonRemoves BY <1>2 DEF DaemonRemoves, RemoveAlias
<1>3. CASE DaemonCrashes BY <1>3 DEF DaemonCrashes, Stale
<1>4. CASE ServerRestarts
  <2>1. TornDown({"finish"}) => lines \intersect Ours = {}
    BY Platforms
  <2>2. TornDown({"finish"}) => run' \intersect (Ours \union {"port"}) = {}
    BY <1>4, <2>1 DEF ServerRestarts, Started, Loaded
  <2> QED BY <1>4, <2>2 DEF ServerRestarts
<1>5. CASE Reboot
  <2>1. cmd' = "none" /\ UNCHANGED <<host, lines, dir, files, gone, sudo>> /\ buf' = NoBuf
    BY <1>5 DEF Reboot, NoCommand
  <2>2. TornDown({}) => lines \intersect Ours = {} /\ "plist" \notin files /\ "unit" \notin files
    BY Platforms
  <2>3. TornDown({}) => run' \intersect (Ours \union {"port"}) = {}
    BY <1>5, <2>2 DEF Reboot, Started, Loaded
  <2>4. TornDown({}) => alias' = {}
    <3>1. \A a \in Autostart("aliases", "plist") : "plist" \notin files => a = FALSE
      BY Zenon DEF Autostart
    <3>2. \E a \in Autostart("aliases", "plist") : alias' = IF a THEN AllAliases ELSE {}
      BY <1>5, Zenon DEF Reboot
    <3> QED BY <2>2, <3>1, <3>2
  <2>5. TornDown({}) => "daemon" \notin active'
    <3>1. \A d \in Autostart("daemon", "unit") : "unit" \notin files => d = FALSE
      BY Zenon DEF Autostart
    <3>2. \E d \in Autostart("daemon", "unit") :
            active' = (boot \intersect {"networkd"}) \union (IF d THEN {"daemon"} ELSE {})
      BY <1>5, Zenon DEF Reboot
    <3> QED BY <2>2, <3>1, <3>2
  <2> QED BY <2>1, <2>2, <2>3, <2>4, <2>5
<1>6. CASE UNCHANGED vars BY <1>6 DEF vars
<1> QED BY <1>1, <1>2, <1>3, <1>4, <1>5, <1>6

-----------------------------------------------------------------------------
(* A machine without lad satisfies the invariant. *)
LEMMA LadInit == Init => IInv
<1> SUFFICES ASSUME Init PROVE IInv
  OBVIOUS
<1> USE DEF Init
<1>1. run \subseteq {"up", "port"} \union Lines
  BY DEF Started, Loaded, Lines, Ours
<1>2. DataOK
  BY <1>1 DEF DataOK, Lines, Owners, Files, Services, Steps, AllAliases
<1>3. ControlInv /\ PlatformInv /\ OwnerInv /\ OwnLinesKept
  BY DEF ControlInv, PlatformInv, OwnerInv, OwnLinesKept
<1>4. SetupInv
  BY DEF SetupInv, AliasInv, RouteInv, ReadyInv, SetUp
<1>5. GoneInv
  BY DEF GoneInv, TornDown
<1> QED
  BY <1>2, <1>3, <1>4, <1>5 DEF IInv, BaseInv

(* Every step keeps it. *)
LEMMA LadStep == IInv /\ [Next]_vars => IInv'
<1> SUFFICES ASSUME IInv, [Next]_vars PROVE IInv'
  OBVIOUS
<1> USE DEF IInv
<1>1. CASE SetupLinux
  <2>1. Linux BY <1>1 DEF SetupLinux, Mkdir, Chown, EnsuresConf, WritesRouting, RoutingFails,
                        EnablesNetworkd, ReloadsNetworkd, EnablesDnsmasq, Restarts, WriteSudoers
  <2> QED BY <1>1, <2>1, BaseSetupLinux, SetupSetupLinux, GoneSetup
<1>2. CASE TeardownLinux
  <2>1. Linux BY <1>2 DEF TeardownLinux, TeardownSplitDNS, Unroutes, DisablesNetworkd, RmDir,
                        RemovesConf, Restarts
  <2> QED BY <1>2, <2>1, BaseTeardownLinux, SetupTeardown, GoneTeardownLinux
<1>3. CASE SetupDarwin
  <2>1. Darwin BY <1>3 DEF SetupDarwin, MkdirAll, WritesPort, PortRefused, EnsuresLines,
                         WriteResolver, AddsAlias, WritesPlist, LoadsPlist, StopsDnsmasq,
                         StartsDnsmasq
  <2> QED BY <1>3, <2>1, BaseSetupDarwin, SetupSetupDarwin, GoneSetup
<1>4. CASE TeardownDarwin
  <2>1. Darwin BY <1>4 DEF TeardownDarwin, UnloadsPlist, DeletesAlias, RemoveAllDir,
                         RemovesLines, StopsDnsmasq
  <2> QED BY <1>4, <2>1, BaseTeardownDarwin, SetupTeardown, GoneTeardownDarwin
<1>5. CASE \/ BeginsSetup \/ BeginsUninstall \/ BeginsInstallService \/ BeginsUninstallService
           \/ ServiceStep \/ Ignores \/ Interrupt \/ Finishes
  BY <1>5, BaseCommands, SetupCommands, GoneCommands
<1>6. CASE \/ DaemonAdds \/ DaemonRemoves \/ DaemonCrashes \/ ServerRestarts \/ Reboot
           \/ UNCHANGED vars
  BY <1>6, BaseMachine, SetupMachine, GoneMachine
<1> QED
  BY <1>1, <1>2, <1>3, <1>4, <1>5, <1>6 DEF Next, CommandStep

(* So it is an invariant. *)
LEMMA LadInvariance == Spec => []IInv
  BY LadInit, LadStep, PTL DEF Spec

-----------------------------------------------------------------------------
(* The flags stay Boolean: every step copies, sets or joins them. *)
LEMMA FlagsStep == FlagsOK /\ [Next]_vars => FlagsOK'
<1> SUFFICES ASSUME FlagsOK, [Next]_vars PROVE FlagsOK'
  OBVIOUS
<1>1. CASE SetupLinux
  <2>1. CASE Mkdir \/ Chown \/ EnsuresConf
    BY <2>1 DEF FlagsOK, Mkdir, Chown, EnsuresConf, EnsuresLine, Goes
  <2>2. CASE \/ (Linux /\ InstallsDnsmasq("mkdir")) \/ (Linux /\ WritesHostsFile("netdev"))
             \/ EnablesDnsmasq \/ Restarts("restart", "sudoers")
    BY <2>2 DEF FlagsOK, InstallsDnsmasq, WritesHostsFile, EnablesDnsmasq, Restarts, Goes
  <2>3. CASE WritesRouting \/ RoutingFails \/ WriteSudoers
    BY <2>3 DEF FlagsOK, WritesRouting, RoutingFails, WriteSudoers, Goes, WritesFile
  <2>4. CASE EnablesNetworkd \/ ReloadsNetworkd
    BY <2>4 DEF FlagsOK, EnablesNetworkd, ReloadsNetworkd, Goes
  <2> QED BY <1>1, <2>1, <2>2, <2>3, <2>4 DEF SetupLinux
<1>2. CASE TeardownLinux
  <2>1. CASE TeardownSplitDNS \/ (Linux /\ RemovesFile("rmsudoers", "unrestart", "sudoers"))
    BY <2>1 DEF FlagsOK, TeardownSplitDNS, Goes, RemovesFile
  <2>2. CASE Unroutes
    BY <2>2 DEF FlagsOK, Unroutes, Goes
  <2>3. CASE DisablesNetworkd \/ RmDir \/ Restarts("unrestart", "finish")
    BY <2>3 DEF FlagsOK, DisablesNetworkd, RmDir, Restarts, Goes
  <2>4. CASE RemovesConf
    BY <2>4 DEF FlagsOK, RemovesConf, RemovesLine, ReadsLines, WritesLines, Goes
  <2> QED BY <1>2, <2>1, <2>2, <2>3, <2>4 DEF TeardownLinux
<1>3. CASE SetupDarwin
  <2>1. CASE MkdirAll \/ WritesPort \/ EnsuresLines \/ WriteResolver
    BY <2>1 DEF FlagsOK, MkdirAll, WritesPort, EnsuresLines, EnsuresLine, WriteResolver, Goes,
        WritesFile
  <2>2. CASE \/ (Darwin /\ InstallsDnsmasq("confdir")) \/ (Darwin /\ WritesHostsFile("resolver"))
             \/ PortRefused
    BY <2>2 DEF FlagsOK, InstallsDnsmasq, WritesHostsFile, PortRefused, NoCommand, Goes
  <2>3. CASE AddsAlias
    BY <2>3 DEF FlagsOK, AddsAlias
  <2>4. CASE WritesPlist \/ LoadsPlist \/ StopsDnsmasq("stop", "start") \/ StartsDnsmasq
    BY <2>4 DEF FlagsOK, WritesPlist, LoadsPlist, StopsDnsmasq, StartsDnsmasq, Goes, WritesFile
  <2> QED BY <1>3, <2>1, <2>2, <2>3, <2>4 DEF SetupDarwin
<1>4. CASE TeardownDarwin
  <2>1. CASE \/ UnloadsPlist \/ (Darwin /\ RemovesFile("rmplist", "dealias", "plist"))
             \/ (Darwin /\ RemovesFile("rmresolver", "rmdir", "resolver"))
    BY <2>1 DEF FlagsOK, UnloadsPlist, Goes, RemovesFile
  <2>2. CASE DeletesAlias
    BY <2>2 DEF FlagsOK, DeletesAlias
  <2>3. CASE RemoveAllDir \/ StopsDnsmasq("unstart", "finish")
    BY <2>3 DEF FlagsOK, RemoveAllDir, StopsDnsmasq, Goes
  <2>4. CASE RemovesLines
    BY <2>4 DEF FlagsOK, RemovesLines, RemovesLine, ReadsLines, WritesLines, Goes
  <2> QED BY <1>4, <2>1, <2>2, <2>3, <2>4 DEF TeardownDarwin
<1>5. CASE BeginsSetup \/ BeginsUninstall \/ BeginsInstallService \/ BeginsUninstallService
  BY <1>5 DEF FlagsOK, BeginsSetup, BeginsUninstall, BeginsInstallService, BeginsUninstallService,
      Begins
<1>6. CASE ServiceStep
  BY <1>6 DEF FlagsOK, ServiceStep, WritesUnit, EnablesUnit, DisablesUnit, RemovesUnit,
      ServiceFails, Goes, WritesFile, RemovesFile
<1>7. CASE Ignores \/ Interrupt
  BY <1>7 DEF FlagsOK, Ignores, Interrupt, NoCommand
<1>8. CASE Finishes
  BY <1>8 DEF FlagsOK, Finishes, NoCommand
<1>9. CASE DaemonAdds \/ DaemonRemoves \/ DaemonCrashes \/ ServerRestarts
  BY <1>9 DEF FlagsOK, DaemonAdds, DaemonRemoves, DaemonCrashes, ServerRestarts
<1>10. CASE Reboot
  BY <1>10 DEF FlagsOK, Reboot, NoCommand
<1>11. CASE UNCHANGED vars
  BY <1>11 DEF FlagsOK, vars
<1> QED
  BY <1>1, <1>2, <1>3, <1>4, <1>5, <1>6, <1>7, <1>8, <1>9, <1>10, <1>11 DEF Next, CommandStep

(* Only four steps move lad-dns. *)
LEMMA LinkMoves ==
  ASSUME Next
  PROVE  EnablesNetworkd \/ ReloadsNetworkd \/ Unroutes \/ Reboot \/ link' = link
<1>1. CASE SetupLinux
  BY <1>1 DEF SetupLinux, Mkdir, Chown, EnsuresConf, EnsuresLine, InstallsDnsmasq, WritesHostsFile,
      WritesRouting, WritesFile, RoutingFails, EnablesDnsmasq, Restarts, WriteSudoers
<1>2. CASE TeardownLinux
  BY <1>2 DEF TeardownLinux, TeardownSplitDNS, RemovesFile, DisablesNetworkd, RmDir, RemovesConf,
      RemovesLine, ReadsLines, WritesLines, Restarts
<1>3. CASE SetupDarwin
  BY <1>3 DEF SetupDarwin, MkdirAll, WritesPort, WritesFile, PortRefused, EnsuresLines, EnsuresLine,
      InstallsDnsmasq, WritesHostsFile, WriteResolver, AddsAlias, WritesPlist, LoadsPlist,
      StopsDnsmasq, StartsDnsmasq
<1>4. CASE TeardownDarwin
  BY <1>4 DEF TeardownDarwin, UnloadsPlist, RemovesFile, DeletesAlias, RemoveAllDir, RemovesLines,
      RemovesLine, ReadsLines, WritesLines, StopsDnsmasq
<1>5. CASE BeginsSetup \/ BeginsUninstall \/ BeginsInstallService \/ BeginsUninstallService
  BY <1>5 DEF BeginsSetup, BeginsUninstall, BeginsInstallService, BeginsUninstallService, Begins
<1>6. CASE ServiceStep
  BY <1>6 DEF ServiceStep, WritesUnit, WritesFile, EnablesUnit, DisablesUnit, RemovesUnit,
      RemovesFile, ServiceFails
<1>7. CASE Ignores \/ Interrupt \/ Finishes
  BY <1>7 DEF Ignores, Interrupt, Finishes
<1>8. CASE DaemonAdds \/ DaemonRemoves \/ DaemonCrashes \/ ServerRestarts
  BY <1>8 DEF DaemonAdds, DaemonRemoves, DaemonCrashes, ServerRestarts
<1> QED
  BY <1>1, <1>2, <1>3, <1>4, <1>5, <1>6, <1>7, <1>8 DEF Next, CommandStep

(* Every variable of the machine, of the command and of its history keeps to
   its values, for any number of aliases and of faults. *)
THEOREM LadTypeOK == Spec => []TypeOK
<1>1. Init => FlagsOK
  BY Zenon DEF Init, FlagsOK
<1>2. IInv /\ FlagsOK => TypeOK
  BY DEF IInv, BaseInv, DataOK, FlagsOK, TypeOK
<1> QED
  BY <1>1, <1>2, LadInvariance, FlagsStep, PTL DEF Spec

(* However setup and uninstall are interleaved and interrupted, the user's own
   lines of dnsmasq.conf are lost only when removeLine is interrupted, or its
   write fails. *)
THEOREM LadOwnLinesKept == Spec => []OwnLinesKept
<1>1. IInv => OwnLinesKept
  BY DEF IInv, BaseInv
<1> QED
  BY <1>1, LadInvariance, PTL

(* After setup on macOS every promised address is an alias, through reboots and
   further commands, provided the daemon, as the user, cannot remove any. *)
THEOREM LadBindable ==
  ASSUME DaemonIsRoot = FALSE
  PROVE  Spec => []Bindable
<1>1. IInv => Bindable
  BY DEF IInv, SetupInv, AliasInv, SetUp, Bindable
<1> QED
  BY <1>1, LadInvariance, PTL

(* After setup queries are routed to dnsmasq, also after reboots: on macOS, and
   on Linux where resolved is active and networkd is or may be enabled. *)
THEOREM LadRouted == Spec => []Routed
<1>1. IInv => Routed
  <2> SUFFICES ASSUME IInv, done PROVE Routed
    BY DEF Routed
  <2>1. Linux \/ Darwin
    BY Platforms DEF IInv, BaseInv, DataOK
  <2> QED
    BY <2>1 DEF IInv, SetupInv, RouteInv, SetUp, Routed, Routes
<1> QED
  BY <1>1, LadInvariance, PTL

(* One setup by the user is enough for the daemon and for dnsmasq, until it is
   uninstalled. *)
THEOREM LadSetupSuffices == Spec => []SetupSuffices
<1>1. IInv => SetupSuffices
  <2> SUFFICES ASSUME IInv, done, ~sudo PROVE SetupSuffices
    BY DEF SetupSuffices
  <2>1. Linux \/ Darwin
    BY Platforms DEF IInv, BaseInv, DataOK
  <2>2. Darwin => ~host.stub
    BY DEF IInv, BaseInv, DataOK, Hosts
  <2> QED
    BY <2>1, <2>2 DEF IInv, BaseInv, OwnerInv, SetupInv, ReadyInv, SetUp, SetupSuffices, CanStart,
        Up
<1> QED
  BY <1>1, LadInvariance, PTL

(* An uninstall without errors leaves no file, line, directory, alias or daemon
   of lad behind and nothing of it in dnsmasq, whatever was interrupted before,
   and none of it comes back. *)
THEOREM LadUninstallReverses == Spec => []UninstallReverses
<1>1. IInv => UninstallReverses
  <2> SUFFICES ASSUME IInv, gone, ~sudo PROVE UninstallReverses
    BY DEF UninstallReverses
  <2> USE DEF IInv, BaseInv, DataOK, PlatformInv, OwnerInv, GoneInv, TornDown, Lines, Ours
  <2>1. Linux \/ Darwin
    BY Platforms
  <2>2. lines \subseteq {"own"}
    BY <2>1
  <2>3. files = {}
    BY <2>1
  <2>4. dir = "none" /\ alias = {} /\ "daemon" \notin active
    BY <2>1
  <2> QED
    BY <2>2, <2>3, <2>4 DEF UninstallReverses
<1> QED
  BY <1>1, LadInvariance, PTL

(* What uninstall leaves of lad-dns goes at the next restart of the machine and
   does not come back before another setup. *)
THEOREM LadLinkGoes == Spec => LinkGoes
<1>1. IInv /\ [Next]_vars =>
        [gone /\ gone' /\ ~sudo => (link' => link) /\ (Reboot => ~link')]_vars
  <2> SUFFICES ASSUME IInv, Next, gone, gone', ~sudo
               PROVE  (link' => link) /\ (Reboot => ~link')
    BY Zenon
  <2>1. ~(Routing \subseteq files)
    BY Platforms DEF IInv, BaseInv, DataOK, PlatformInv, GoneInv, TornDown, Routing
  <2>2. Reboot => ~link'
    BY <2>1, Zenon DEF Reboot
  <2>3. CASE EnablesNetworkd \/ ReloadsNetworkd
    BY <2>1, <2>2, <2>3, Zenon DEF EnablesNetworkd, ReloadsNetworkd
  <2>4. CASE Unroutes
    <3>1. link' \in IF "networkd" \in active THEN {link, FALSE} ELSE {link}
      BY <2>4, Zenon DEF Unroutes
    <3>2. link' = link \/ link' = FALSE
      BY <3>1
    <3> QED BY <2>2, <3>2
  <2>5. CASE Reboot
    BY <2>2, <2>5
  <2>6. CASE link' = link
    BY <2>2, <2>6
  <2> QED
    BY <2>2, <2>3, <2>4, <2>5, <2>6, LinkMoves
<1> QED
  BY <1>1, LadInvariance, PTL DEF Spec, LinkGoes
=============================================================================
