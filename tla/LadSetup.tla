------------------------------ MODULE LadSetup ------------------------------
(***************************************************************************)
(* The dnsmasq half of `lad setup` and `lad uninstall`, install-service    *)
(* and uninstall-service, on either platform, one command at a time and    *)
(* interrupted anywhere; beside them the daemon, which writes its state    *)
(* files into the directory dnsmasq reads, restarts of dnsmasq and of the  *)
(* machine. The certificates are TlsCert's, the config file ConfigFile's.  *)
(***************************************************************************)
EXTENDS SetupLinux, SetupDarwin

Services == {"networkd", "daemon"}

(* The values of pc, command by command. *)
Steps ==
  {"idle", "finish", "unit", "enableunit", "disable", "rmunit",
   "install", "mkdir", "chown", "listen", "bind", "confdir", "hosts", "hostsfile", "netdev",
   "network", "networkd", "reload", "enable", "restart", "sudoers",
   "port", "resolver", "alias", "plist", "load", "stop", "start",
   "rmnetdev", "rmnetwork", "unroute", "unnetworkd", "rmdir", "rmconfdir", "rmhosts",
   "rmlisten", "rmbind", "rmsudoers", "unrestart",
   "unload", "rmplist", "dealias", "rmresolver", "unstart"}

(* Every variable keeps to the values it is documented with. *)
TypeOK ==
  /\ host \in Hosts
  /\ lines \subseteq Lines
  /\ buf \in (SUBSET Lines) \union {NoBuf}
  /\ dir \in Owners
  /\ hosts \in Owners
  /\ conf \subseteq {"own", "stale"}
  /\ files \subseteq Files
  /\ link \in BOOLEAN
  /\ alias \subseteq AllAliases
  /\ installed \in BOOLEAN
  /\ run \subseteq {"up", "port"} \union Lines
  /\ active \subseteq Services
  /\ boot \subseteq Services \union {"dnsmasq", "aliases"}
  /\ cmd \in {"none", "setup", "uninstall", "install-service", "uninstall-service"}
  /\ pc \in Steps
  /\ i \in AllAliases
  /\ by \in {"user", "root"}
  /\ faults \in 0..MaxFaults
  /\ \A flag \in {ok, done, gone, sudo, torn} : flag \in BOOLEAN

(* A machine without lad: networkd may run, dnsmasq may be installed and run
   with the user's own configuration. *)
Init ==
  /\ host \in Hosts
  /\ lines = {"own"}
  /\ buf = NoBuf
  /\ dir = "none" /\ hosts = "none" /\ conf = {}
  /\ files = {}
  /\ link = FALSE
  /\ alias = {}
  /\ installed \in BOOLEAN
  /\ run \in {{}, Started({})}
  /\ active \in IF Linux THEN {{}, {"networkd"}} ELSE {{}}
  /\ boot = active \union (IF Up THEN {"dnsmasq"} ELSE {})
  /\ cmd = "none" /\ pc = "idle" /\ i = 1 /\ by = "user" /\ ok = TRUE
  /\ done = FALSE /\ gone = FALSE /\ sudo = FALSE /\ torn = FALSE /\ faults = 0

machineVars == <<host, confVars, dirVars, files, netVars, serverVars, serviceVars>>

-----------------------------------------------------------------------------
(* The commands. Only setup is ever run with sudo. *)

Begins(c, first) ==
  /\ cmd = "none"
  /\ cmd' = c
  /\ pc' = first
  /\ UNCHANGED <<machineVars, i, ok>>

BeginsSetup ==
  /\ Begins("setup", "install")
  /\ by' \in {"user", "root"}
  /\ sudo' = (sudo \/ by' = "root")
  /\ gone' = FALSE
  /\ UNCHANGED <<done, faults>>

BeginsUninstall ==
  /\ Begins("uninstall", "disable")
  /\ done' = FALSE
  /\ UNCHANGED <<by, gone, sudo, faults>>

BeginsInstallService ==
  /\ Begins("install-service", "unit")
  /\ gone' = FALSE
  /\ UNCHANGED <<by, done, sudo, faults>>

BeginsUninstallService ==
  /\ Begins("uninstall-service", "disable")
  /\ UNCHANGED <<by, histVars>>

(* Install: the unit or the plist, then enable --now or load -w. *)
WritesUnit == WritesFile("unit", "enableunit", "unit")

EnablesUnit ==
  /\ Goes("enableunit", "finish")
  /\ active' = active \union {"daemon"}
  /\ boot' = boot \union {"daemon"}
  /\ UNCHANGED <<confVars, dirVars, files, netVars, serverVars>>

(* Uninstall: disable --now or unload -w, which stop the daemon and let it
   remove its records, then the file. *)
AfterService ==
  IF cmd = "uninstall" THEN (IF Linux THEN "rmnetdev" ELSE "unload") ELSE "finish"

DisablesUnit ==
  /\ Goes("disable", "rmunit")
  /\ active' = active \ {"daemon"}
  /\ boot' = boot \ {"daemon"}
  /\ conf' = IF "daemon" \in active /\ dir = "user" THEN conf \ {"own"} ELSE conf
  /\ UNCHANGED <<confVars, dir, hosts, files, netVars, serverVars>>

RemovesUnit == RemovesFile("rmunit", AfterService, "unit")

(* Linux goes on to the file when disable fails; macOS returns, and so do
   both when the file is not removed. uninstall then warns and goes on. *)
ServiceFails ==
  /\ pc \in {"disable", "rmunit"}
  /\ pc' = IF pc = "disable" /\ Linux THEN "rmunit" ELSE AfterService
  /\ ok' = FALSE
  /\ Fault
  /\ UNCHANGED <<machineVars, cmd, i, by, done, gone, sudo>>

(* A step whose error is ignored does nothing; when the write of removeLine
   fails, the file it truncated stays as it is. *)
Ignores ==
  LET next == IF Linux THEN LinuxIgnored ELSE DarwinIgnored IN
  /\ pc \in DOMAIN next
  /\ pc' = next[pc]
  /\ ok' = FALSE
  /\ Fault
  /\ buf' = NoBuf
  /\ torn' = (torn \/ buf # NoBuf)
  /\ UNCHANGED <<host, lines, dirVars, files, netVars, serverVars, serviceVars>>
  /\ UNCHANGED <<cmd, i, by, done, gone, sudo>>

(* The command is interrupted, or returns the error of a step. *)
Interrupt ==
  /\ cmd # "none"
  /\ Fault
  /\ NoCommand
  /\ buf' = NoBuf
  /\ torn' = (torn \/ buf # NoBuf)
  /\ UNCHANGED <<host, lines, dirVars, files, netVars, serverVars, serviceVars, done, gone, sudo>>

Finishes ==
  /\ pc = "finish"
  /\ NoCommand
  /\ done' = (done \/ (cmd = "setup" /\ ok))
  /\ gone' = (gone \/ (cmd = "uninstall" /\ ok))
  /\ sudo' = (sudo /\ ~(cmd = "uninstall" /\ ok /\ dir = "none"))
  /\ UNCHANGED <<machineVars, faults>>

ServiceStep == WritesUnit \/ EnablesUnit \/ DisablesUnit \/ RemovesUnit \/ ServiceFails

-----------------------------------------------------------------------------
(* The daemon, as the user: Manager.Add makes the directory if it can, writes
   port-N.conf and the hosts file; Remove deletes port-N.conf. *)
DaemonAdds ==
  /\ "daemon" \in active
  /\ dir = "user" \/ (Darwin /\ dir = "none")
  /\ dir' = "user"
  /\ hosts' = IF hosts = "none" THEN "user" ELSE hosts
  /\ conf' \in {conf \union {"own"}, {"own"}}     \* the port of a stale one, or another
  /\ \E a \in AllAliases : EnsureAlias(a)
  /\ UNCHANGED <<host, confVars, files, link, serverVars, serviceVars, cmdVars, histVars>>

DaemonRemoves ==
  /\ "daemon" \in active
  /\ "own" \in conf
  /\ dir = "user"
  /\ conf' = conf \ {"own"}
  /\ \E a \in AllAliases : RemoveAlias(a)
  /\ UNCHANGED <<host, confVars, dir, hosts, files, link, serverVars, serviceVars, cmdVars, histVars>>

(* It crashes and is started again; what it wrote is nobody's now. *)
Stale(c) == IF c = {} THEN {} ELSE {"stale"}

DaemonCrashes ==
  /\ "daemon" \in active
  /\ "own" \in conf
  /\ conf' = Stale(conf)
  /\ UNCHANGED <<host, confVars, dir, hosts, files, netVars, serverVars, serviceVars, cmdVars, histVars>>

(* An administrator, an upgrade or launchd restarts dnsmasq. *)
ServerRestarts ==
  /\ Up \/ "dnsmasq" \in boot
  /\ run' = Started(conf)
  /\ UNCHANGED <<host, confVars, dirVars, files, netVars, installed, serviceVars, cmdVars, histVars>>

(* launchd also loads a plist that was never loaded, unless it was disabled. *)
Autostart(x, file) ==
  CASE file \notin files -> {FALSE}
    [] file \in files /\ x \in boot -> {TRUE}
    [] OTHER -> IF Darwin THEN BOOLEAN ELSE {FALSE}

(* The machine is restarted, with or without a clean shutdown of the daemon. *)
Reboot ==
  /\ IF cmd = "none" THEN UNCHANGED faults ELSE Fault
  /\ NoCommand
  /\ buf' = NoBuf
  /\ torn' = (torn \/ buf # NoBuf)
  /\ conf' \in {Stale(conf)} \union
       (IF "daemon" \in active /\ dir = "user" THEN {conf \ {"own"}} ELSE {})
  /\ run' = IF "dnsmasq" \in boot THEN Started(conf') ELSE {}
  /\ link' = ("networkd" \in boot /\ Routing \subseteq files)
  /\ \E a \in Autostart("aliases", "plist") : alias' = IF a THEN AllAliases ELSE {}
  /\ \E d \in Autostart("daemon", "unit") :
       active' = (boot \intersect {"networkd"}) \union (IF d THEN {"daemon"} ELSE {})
  /\ UNCHANGED <<host, lines, dir, hosts, files, installed, boot, done, gone, sudo>>

-----------------------------------------------------------------------------
CommandStep ==
  SetupLinux \/ TeardownLinux \/ SetupDarwin \/ TeardownDarwin \/ ServiceStep \/ Finishes

Next ==
  \/ BeginsSetup \/ BeginsUninstall \/ BeginsInstallService \/ BeginsUninstallService
  \/ CommandStep \/ Ignores \/ Interrupt
  \/ DaemonAdds \/ DaemonRemoves \/ DaemonCrashes \/ ServerRestarts \/ Reboot

Spec == Init /\ [][Next]_vars

(* A command that was begun goes on; the rest need not happen. *)
FairSpec == Spec /\ WF_vars(CommandStep)

-----------------------------------------------------------------------------
(* One setup by the user is enough for the daemon: it may write its files and
   reload dnsmasq; dnsmasq can start, is started at boot, and whenever it is
   up reads the hosts file, on macOS at the port the resolver asks. This lasts
   through crashes, reboots and interrupted setups, until uninstall. *)
SetupSuffices ==
  done /\ ~sudo =>
    /\ dir = "user" /\ hosts # "root"
    /\ Linux => "sudoers" \in files
    /\ Linux => "dnsmasq" \in boot
    /\ conf = {} => CanStart(conf)
    /\ Up => "hosts" \in run /\ (Darwin => "port" \in run)

(* After setup, queries for tunnel.test are routed to dnsmasq, also after a
   reboot: on macOS always, on Linux where resolved is active and networkd is
   or may be enabled ("Both must be active", says the README). Without resolved
   setup does the same, reports success, and nothing is routed. *)
Routed ==
  done /\ (Linux => host.resolved /\ ("networkd" \in active \/ (host.nm /\ ~host.foreign)))
    => Routes

(* After setup on macOS the proxies can bind, also after a reboot: every
   address setup promises is an alias. *)
Bindable == done /\ Darwin => alias = AllAliases

(* An uninstall that ran to its end leaves no file, line, directory or alias of
   lad, no daemon, and a dnsmasq that has read nothing of it, from whatever
   mixture of interrupted and failed commands it started; and none of this
   comes back at a reboot. The interface lad-dns is left out: see LinkGoes. *)
UninstallReverses ==
  gone /\ ~sudo =>
    /\ lines \subseteq {"own"}
    /\ dir = "none"
    /\ files = {}
    /\ alias = {}
    /\ "daemon" \notin active
    /\ run \intersect (Ours \union {"port"}) = {}

(* Uninstall need not take lad-dns down, for networkctl reload removes no
   interface: it may stay until the machine restarts. It is gone then, and
   while lad is not installed again nothing brings it back. *)
LinkGoes == [][gone /\ gone' /\ ~sudo => (link' => link) /\ (Reboot => ~link')]_vars

(* Whatever setup and uninstall do to dnsmasq.conf, the lines they did not
   write survive, unless removeLine is interrupted between truncating the file
   and writing it back, or that write fails. *)
OwnLinesKept == ~torn => "own" \in (IF buf = NoBuf THEN lines ELSE buf)

(* A reboot brings dnsmasq back without anybody's help, once it was set up
   and ran. *)
SurvivesReboot == [][Reboot /\ Linux /\ done /\ ~sudo /\ Up => Up']_vars
=============================================================================
