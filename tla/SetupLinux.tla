----------------------------- MODULE SetupLinux -----------------------------
(***************************************************************************)
(* dnsmasq/setup_linux.go and service/systemd_linux.go, command by         *)
(* command: everything goes through sudo but the reads, the hosts file and *)
(* the unit of the user's own systemd.                                     *)
(***************************************************************************)
EXTENDS DnsSetup

Routing == {"netdev", "network"}      \* the files that make lad-dns

(* sudo mkdir -p; then chown to $USER, which is root under sudo. *)
Mkdir ==
  /\ Linux
  /\ Goes("mkdir", "chown")
  /\ dir' = IF dir = "none" THEN "root" ELSE dir
  /\ UNCHANGED <<confVars, hosts, conf, files, netVars, serverVars, serviceVars>>

Chown ==
  /\ Linux
  /\ Goes("chown", "listen")
  /\ dir' = by
  /\ UNCHANGED <<confVars, hosts, conf, files, netVars, serverVars, serviceVars>>

EnsuresConf ==
  /\ Linux
  /\ \/ EnsuresLine("listen", "bind", "listen")
     \/ EnsuresLine("bind", "confdir", "bind")
     \/ EnsuresLine("confdir", "hosts", "confdir")
     \/ EnsuresLine("hosts", "hostsfile", "hosts")

(* configureSplitDNS: writeNetworkdDNSConfig whatever manages the network;
   then networkd reloads, or is enabled beside NetworkManager unless it would
   claim other interfaces; else the user is told what to do. *)
WritesRouting ==
  /\ Linux
  /\ \/ WritesFile("netdev", "network", "netdev")
     \/ WritesFile("network", IF "networkd" \in active THEN "reload"
                              ELSE IF host.nm /\ ~host.foreign THEN "networkd"
                              ELSE "enable", "network")

(* A write failed: a warning, and on to dnsmasq. *)
RoutingFails ==
  /\ Linux
  /\ pc \in Routing
  /\ pc' = "enable"
  /\ ok' = FALSE
  /\ Fault
  /\ UNCHANGED <<host, confVars, dirVars, files, netVars, serverVars, serviceVars, cmd, i, by, done, gone, sudo>>

(* Mutant of EnablesNetworkd: it is started, not enabled. *)
StartsNetworkd ==
  /\ Linux
  /\ Goes("networkd", "reload")
  /\ active' = active \union {"networkd"}
  /\ link' = (Routing \subseteq files)
  /\ UNCHANGED <<confVars, dirVars, files, alias, serverVars, boot>>

EnablesNetworkd ==
  /\ Linux
  /\ Goes("networkd", "reload")
  /\ active' = active \union {"networkd"}
  /\ boot' = boot \union {"networkd"}
  /\ link' = (Routing \subseteq files)
  /\ UNCHANGED <<confVars, dirVars, files, alias, serverVars>>

ReloadsNetworkd ==
  /\ Linux
  /\ Goes("reload", "enable")
  /\ link' = (link \/ ("networkd" \in active /\ Routing \subseteq files))
  /\ UNCHANGED <<confVars, dirVars, files, alias, serverVars, serviceVars>>

(* systemctl enable --now, then restart. *)
EnablesDnsmasq ==
  /\ Linux
  /\ Goes("enable", "restart")
  /\ boot' = boot \union {"dnsmasq"}
  /\ run' = IF Up THEN run ELSE Started(conf)
  /\ UNCHANGED <<confVars, dirVars, files, netVars, installed, active>>

(* Mutant of Restarts: dnsmasq is reloaded, which reads no configuration. *)
RestartsNot(here, next) ==
  /\ Linux
  /\ Goes(here, next)
  /\ run' = IF Up THEN run ELSE Started(conf)
  /\ UNCHANGED <<confVars, dirVars, files, netVars, installed, serviceVars>>

Restarts(here, next) ==
  /\ Linux
  /\ Goes(here, next)
  /\ run' = Started(conf)
  /\ UNCHANGED <<confVars, dirVars, files, netVars, installed, serviceVars>>

(* writeSudoers: for SUDO_USER or USER, so for the user either way. *)
WriteSudoers == Linux /\ WritesFile("sudoers", "finish", "sudoers")

SetupLinux ==
  \/ Linux /\ InstallsDnsmasq("mkdir")
  \/ Mkdir \/ Chown \/ EnsuresConf
  \/ Linux /\ WritesHostsFile("netdev")
  \/ WritesRouting \/ RoutingFails \/ EnablesNetworkd \/ ReloadsNetworkd
  \/ EnablesDnsmasq \/ Restarts("restart", "sudoers") \/ WriteSudoers

-----------------------------------------------------------------------------
(* Mutant of TeardownSplitDNS: without sudo, so that root's files stay. *)
TeardownSplitDNSAsUser ==
  /\ Linux
  /\ Goes("rmnetdev", "rmnetwork") \/ Goes("rmnetwork", "unroute")
  /\ UNCHANGED <<confVars, dirVars, files, netVars, serverVars, serviceVars>>

(* teardownSplitDNS: the files, ... *)
TeardownSplitDNS ==
  /\ Linux
  /\ \/ RemovesFile("rmnetdev", "rmnetwork", "netdev")
     \/ RemovesFile("rmnetwork", "unroute", "network")

(* ... then networkd, if it runs: reloaded, which need not take the link
   down (and a reload that fails does not), ... *)
Unroutes ==
  /\ Linux
  /\ Goes("unroute", IF "networkd" \in active /\ host.nm THEN "unnetworkd" ELSE "rmdir")
  /\ link' \in IF "networkd" \in active THEN {link, FALSE} ELSE {link}
  /\ UNCHANGED <<confVars, dirVars, files, alias, serverVars, serviceVars>>

(* ... and disabled if NetworkManager runs too. *)
DisablesNetworkd ==
  /\ Linux
  /\ Goes("unnetworkd", "rmdir")
  /\ active' = active \ {"networkd"}
  /\ boot' = boot \ {"networkd"}
  /\ UNCHANGED <<confVars, dirVars, files, netVars, serverVars>>

RmDir ==                       \* sudo rm -rf
  /\ Linux
  /\ Goes("rmdir", "rmconfdir")
  /\ DirGone
  /\ UNCHANGED <<confVars, netVars, serverVars, serviceVars>>

RemovesConf ==
  /\ Linux
  /\ \/ RemovesLine("rmconfdir", "rmhosts", "confdir")
     \/ RemovesLine("rmhosts", "rmlisten", "hosts")
     \/ RemovesLine("rmlisten", "rmbind", "listen")
     \/ RemovesLine("rmbind", "rmsudoers", "bind")

TeardownLinux ==
  \/ TeardownSplitDNS \/ Unroutes \/ DisablesNetworkd \/ RmDir \/ RemovesConf
  \/ Linux /\ RemovesFile("rmsudoers", "unrestart", "sudoers")
  \/ Restarts("unrestart", "finish")

(* The steps whose errors nobody looks at, and the step after each. *)
LinuxIgnored ==
  [chown |-> "listen", hostsfile |-> "netdev", networkd |-> "reload", reload |-> "enable",
   enable |-> "restart", restart |-> "sudoers", sudoers |-> "finish",
   rmnetdev |-> "rmnetwork", rmnetwork |-> "unroute", unnetworkd |-> "rmdir", rmdir |-> "rmconfdir",
   rmconfdir |-> "rmhosts", rmhosts |-> "rmlisten", rmlisten |-> "rmbind", rmbind |-> "rmsudoers",
   rmsudoers |-> "unrestart", unrestart |-> "finish"]
=============================================================================
