------------------------------ MODULE DnsSetup ------------------------------
(***************************************************************************)
(* What `lad setup`, `lad uninstall` and the service commands change on a  *)
(* machine, and what the steps of the two platforms share: the             *)
(* configuration of dnsmasq, the drop-in directory, files of the system,   *)
(* services, loopback aliases; dnsmasq itself as far as its start and its  *)
(* configuration matter.                                                   *)
(***************************************************************************)
EXTENDS Naturals

CONSTANTS
  Aliases,        \* bound: the number of loopback aliases (100 in the code)
  MaxFaults,      \* bound: how many steps fail or are interrupted
  DaemonIsRoot    \* the daemon may call ifconfig (it runs as the user)

ASSUME SetupAssumption ==
  /\ Aliases \in Nat \ {0}
  /\ MaxFaults \in Nat
  /\ DaemonIsRoot \in BOOLEAN

Ours == {"listen", "bind", "confdir", "hosts"}    \* the lines setup adds
Lines == Ours \union {"own"}                      \* and those it found
NoBuf == {"none"}

VARIABLES
  host,       \* the machine: platform and network; see Hosts
  lines,      \* dnsmasq.conf
  buf,        \* what removeLine read and will write back, NoBuf when it does not
  dir,        \* owner of the drop-in directory: "none" | "user" | "root"
  hosts,      \* owner of the hosts file in it
  conf,       \* its port-N.conf: of the running daemon ("own"), of an earlier one ("stale")
  files,      \* other files setup and install-service write
  link,       \* lad-dns is up, with the DNS settings of its .network file
  alias,      \* loopback aliases of lo0
  installed,  \* dnsmasq is
  run,        \* what dnsmasq read when it started; empty when it is down
  active,     \* of "networkd", "daemon": what runs
  boot,       \* of "dnsmasq", "networkd", "aliases", "daemon": what a boot starts
  cmd,        \* the command that runs, or "none"
  pc,         \* its next step
  i,          \* the loop over the aliases
  by,         \* who runs it: "user", or "root" (sudo)
  ok,         \* no step of it failed so far
  done,       \* history: set up, and not uninstalled since
  gone,       \* history: uninstalled, and nothing begun since
  sudo,       \* history: a setup was run as root
  torn,       \* history: removeLine truncated dnsmasq.conf and did not write it back
  faults      \* history: the number of faults

confVars == <<lines, buf, torn>>
dirVars == <<dir, hosts, conf>>
netVars == <<link, alias>>
serverVars == <<installed, run>>
serviceVars == <<active, boot>>
cmdVars == <<cmd, pc, i, by, ok>>
histVars == <<done, gone, sudo, faults>>
vars == <<host, confVars, dirVars, files, netVars, serverVars, serviceVars, cmdVars, histVars>>

Files == {"port", "sudoers", "netdev", "network", "resolver", "plist", "unit"}
Owners == {"none", "user", "root"}

(* resolved: systemd-resolved is active, which setup never asks; stub: it holds
   port 53 of 127.0.0.53; nm: NetworkManager is active; foreign: there are
   .network files of somebody else, which setup asks only then. *)
Hosts ==
  {h \in [os : {"linux"}, resolved : BOOLEAN, stub : BOOLEAN, nm : BOOLEAN, foreign : BOOLEAN] :
     (h.stub => h.resolved) /\ (h.foreign => h.nm)}
  \union [os : {"darwin"}, resolved : {FALSE}, stub : {FALSE}, nm : {FALSE}, foreign : {FALSE}]

Linux == host.os = "linux"
Darwin == host.os = "darwin"

-----------------------------------------------------------------------------
(* dnsmasq, external. It does not start when it cannot bind beside resolved's
   stub, and when conf-dir= names no directory or one with a *.conf it cannot
   parse: port-N.conf is a line of a hosts file. *)
CanStart(c) ==
  /\ host.stub => {"listen", "bind"} \subseteq lines
  /\ "confdir" \in lines => dir # "none" /\ c = {}

Loaded == {"up"} \union lines \union (IF "confdir" \in lines THEN files \intersect {"port"} ELSE {})
Started(c) == IF installed /\ CanStart(c) THEN Loaded ELSE {}
Up == "up" \in run

(* Queries for tunnel.test reach dnsmasq: on Linux resolved sends them to the
   server of lad-dns, on macOS the resolver file names it. *)
Routes == IF Linux THEN host.resolved /\ link ELSE "resolver" \in files

-----------------------------------------------------------------------------
(* A step of a command: the next one is to be done after it. *)
Goes(here, next) ==
  /\ pc = here
  /\ pc' = next
  /\ UNCHANGED <<host, cmd, i, by, ok, histVars>>

Fault ==
  /\ faults < MaxFaults
  /\ faults' = faults + 1

NoCommand ==
  /\ cmd' = "none"
  /\ pc' = "idle"
  /\ i' = 1
  /\ by' = "user"
  /\ ok' = TRUE

(* ensureConf, ensureLineInFile: nothing when the line is there, or append. *)
EnsuresLine(here, next, l) ==
  /\ Goes(here, next)
  /\ lines' = lines \union {l}
  /\ UNCHANGED <<buf, torn, dirVars, files, netVars, serverVars, serviceVars>>

(* Mutant of ReadsLines: the lines to be kept are not collected. *)
ReadsLinesKeepsNone(here, l) ==
  /\ pc = here
  /\ buf = NoBuf
  /\ buf' = {}
  /\ lines' = {}
  /\ UNCHANGED <<host, torn, dirVars, files, netVars, serverVars, serviceVars, cmdVars, histVars>>

(* removeLineFromFile, removeLineFromFileWithSudo: read and truncate, ... *)
ReadsLines(here, l) ==
  /\ pc = here
  /\ buf = NoBuf
  /\ buf' = lines \ {l}
  /\ lines' = {}
  /\ UNCHANGED <<host, torn, dirVars, files, netVars, serverVars, serviceVars, cmdVars, histVars>>

(* ... then write the lines that are kept. *)
WritesLines(here, next) ==
  /\ Goes(here, next)
  /\ buf # NoBuf
  /\ lines' = buf
  /\ buf' = NoBuf
  /\ UNCHANGED <<torn, dirVars, files, netVars, serverVars, serviceVars>>

RemovesLine(here, next, l) == ReadsLines(here, l) \/ WritesLines(here, next)

WritesFile(here, next, x) ==
  /\ Goes(here, next)
  /\ files' = files \union {x}
  /\ UNCHANGED <<confVars, dirVars, netVars, serverVars, serviceVars>>

RemovesFile(here, next, x) ==
  /\ Goes(here, next)
  /\ files' = files \ {x}
  /\ UNCHANGED <<confVars, dirVars, netVars, serverVars, serviceVars>>

(* The package manager; some start what they install. *)
InstallsDnsmasq(next) ==
  /\ Goes("install", next)
  /\ installed' = TRUE
  /\ \/ run' = run /\ boot' = boot
     \/ ~installed /\ run' = (IF CanStart(conf) THEN Loaded ELSE {})
        /\ boot' = boot \union {"dnsmasq"}
  /\ UNCHANGED <<confVars, dirVars, files, netVars, active>>

(* The hosts file, when there is none and the directory may be written. *)
WritesHostsFile(next) ==
  /\ Goes("hostsfile", next)
  /\ hosts' = IF hosts = "none" /\ dir \in {"user", by} THEN by ELSE hosts
  /\ UNCHANGED <<confVars, dir, conf, files, netVars, serverVars, serviceVars>>

(* The drop-in directory goes with all that is in it. *)
DirGone ==
  /\ dir' = "none"
  /\ hosts' = "none"
  /\ conf' = {}
  /\ files' = files \ {"port"}
=============================================================================
