----------------------------- MODULE SetupDarwin ----------------------------
(***************************************************************************)
(* dnsmasq/setup_darwin.go, command by command: dnsmasq belongs to the     *)
(* user and listens on port 5300, addresses need aliases of lo0. Under     *)
(* sudo, brew's `services stop` sees only what root had started.           *)
(***************************************************************************)
EXTENDS DnsSetup

AllAliases == 1..Aliases

MkdirAll ==
  /\ Darwin
  /\ Goes("mkdir", "port")
  /\ dir' = IF dir = "none" THEN by ELSE dir
  /\ UNCHANGED <<confVars, hosts, conf, files, netVars, serverVars, serviceVars>>

(* 00-port.conf; if the directory is not the invoker's, setup returns. *)
WritesPort ==
  /\ Darwin
  /\ dir = "user" \/ by = "root"
  /\ WritesFile("port", "hosts", "port")

PortRefused ==
  /\ Darwin
  /\ pc = "port"
  /\ dir = "root" /\ by = "user"
  /\ NoCommand
  /\ UNCHANGED <<host, confVars, dirVars, files, netVars, serverVars, serviceVars, histVars>>

EnsuresLines ==
  /\ Darwin
  /\ \/ EnsuresLine("confdir", "mkdir", "confdir")
     \/ EnsuresLine("hosts", "hostsfile", "hosts")

WriteResolver == Darwin /\ WritesFile("resolver", "alias", "resolver")

(* setupLoopbackAliases: one ifconfig after the other, errors ignored; ... *)
AddsAlias ==
  /\ Darwin
  /\ pc = "alias"
  /\ \/ alias' = alias \union {i} /\ UNCHANGED <<ok, faults>>
     \/ alias' = alias /\ ok' = FALSE /\ Fault
  /\ IF i = Aliases THEN pc' = "plist" /\ i' = 1 ELSE pc' = pc /\ i' = i + 1
  /\ UNCHANGED <<host, confVars, dirVars, files, link, serverVars, serviceVars, cmd, by, done, gone, sudo>>

(* ... then a LaunchDaemon that does so at every boot, and when it is loaded. *)
WritesPlist == Darwin /\ WritesFile("plist", "load", "plist")

(* Mutant of LoadsPlist: without -w it stays disabled. *)
LoadsPlistOnce ==
  /\ Darwin
  /\ Goes("load", "stop")
  /\ alias' = AllAliases
  /\ UNCHANGED <<confVars, dirVars, files, link, serverVars, serviceVars>>

LoadsPlist ==
  /\ Darwin
  /\ Goes("load", "stop")
  /\ alias' = AllAliases
  /\ boot' = boot \union {"aliases"}
  /\ UNCHANGED <<confVars, dirVars, files, link, serverVars, active>>

StopsDnsmasq(here, next) ==
  /\ Darwin
  /\ Goes(here, next)
  /\ IF by = "root" THEN UNCHANGED <<run, boot>>
                    ELSE run' = {} /\ boot' = boot \ {"dnsmasq"}
  /\ UNCHANGED <<confVars, dirVars, files, netVars, installed, active>>

(* brewServicesStart, under sudo too in the user's session; nothing is
   restarted. *)
StartsDnsmasq ==
  /\ Darwin
  /\ Goes("start", "finish")
  /\ run' = IF Up THEN run ELSE Started(conf)
  /\ boot' = boot \union {"dnsmasq"}
  /\ UNCHANGED <<confVars, dirVars, files, netVars, installed, active>>

SetupDarwin ==
  \/ Darwin /\ InstallsDnsmasq("confdir")
  \/ MkdirAll \/ WritesPort \/ PortRefused \/ EnsuresLines
  \/ Darwin /\ WritesHostsFile("resolver")
  \/ WriteResolver \/ AddsAlias \/ WritesPlist \/ LoadsPlist
  \/ StopsDnsmasq("stop", "start") \/ StartsDnsmasq

-----------------------------------------------------------------------------
UnloadsPlist ==
  /\ Darwin
  /\ Goes("unload", "rmplist")
  /\ boot' = boot \ {"aliases"}
  /\ UNCHANGED <<confVars, dirVars, files, netVars, serverVars, active>>

(* Mutant of DeletesAlias: the loop ends one too early. *)
DeletesAliasShort ==
  /\ Darwin
  /\ pc = "dealias"
  /\ alias' = IF i = Aliases THEN alias ELSE alias \ {i}
  /\ UNCHANGED <<ok, faults>>
  /\ IF i = Aliases THEN pc' = "rmresolver" /\ i' = 1 ELSE pc' = pc /\ i' = i + 1
  /\ UNCHANGED <<host, confVars, dirVars, files, link, serverVars, serviceVars, cmd, by, done, gone, sudo>>

DeletesAlias ==
  /\ Darwin
  /\ pc = "dealias"
  /\ \/ alias' = alias \ {i} /\ UNCHANGED <<ok, faults>>
     \/ alias' = alias /\ ok' = FALSE /\ Fault
  /\ IF i = Aliases THEN pc' = "rmresolver" /\ i' = 1 ELSE pc' = pc /\ i' = i + 1
  /\ UNCHANGED <<host, confVars, dirVars, files, link, serverVars, serviceVars, cmd, by, done, gone, sudo>>

(* os.RemoveAll, as the invoker; its error is ignored. *)
RemoveAllDir ==
  /\ Darwin
  /\ Goes("rmdir", "rmconfdir")
  /\ IF dir = "root" THEN UNCHANGED <<dirVars, files>> ELSE DirGone
  /\ UNCHANGED <<confVars, netVars, serverVars, serviceVars>>

RemovesLines ==
  /\ Darwin
  /\ \/ RemovesLine("rmconfdir", "rmhosts", "confdir")
     \/ RemovesLine("rmhosts", "unstart", "hosts")

TeardownDarwin ==
  \/ UnloadsPlist
  \/ Darwin /\ RemovesFile("rmplist", "dealias", "plist")
  \/ DeletesAlias
  \/ Darwin /\ RemovesFile("rmresolver", "rmdir", "resolver")
  \/ RemoveAllDir \/ RemovesLines
  \/ StopsDnsmasq("unstart", "finish")

(* The steps whose errors nobody looks at, and the step after each. *)
DarwinIgnored ==
  [hostsfile |-> "resolver", load |-> "stop", stop |-> "start",
   unload |-> "rmplist", rmplist |-> "dealias", rmresolver |-> "rmdir", rmdir |-> "rmconfdir",
   rmconfdir |-> "rmhosts", rmhosts |-> "unstart", unstart |-> "finish"]

-----------------------------------------------------------------------------
(* netutil: ifconfig without sudo, from the daemon. *)
EnsureAlias(a) ==
  alias' = IF Darwin /\ DaemonIsRoot THEN alias \union {a} ELSE alias

RemoveAlias(a) ==
  alias' = IF Darwin /\ DaemonIsRoot THEN alias \ {a} ELSE alias
=============================================================================
