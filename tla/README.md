# A TLA+ verification of local-auto-domain

`lad daemon` watches the machine for `ssh -L` and `kubectl port-forward`
processes and gives every forwarded port a name under `.tunnel.test`, an address
in 127.0.1.0/24, a DNS record served by dnsmasq and a TCP proxy. This directory
models the program (Go, `src/`) in TLA+, checks the models on small instances
with TLC and proves the main safety properties for every instance with TLAPS.

    tlc -workers 2 -config daemon_clean.cfg MCDaemon    # a run
    tlapm Daemon_proof.tla                              # a proof

`PROJECT.json` lists the runs with module and configuration, maps each
definition to the source lines it models, and lists hazards, findings and
theorems.

## 1. The system

| component | state | operations | talks to |
|---|---|---|---|
| daemon (`internal/daemon`) | `active` map port → entry, the TLS certificate | `Run`: poll every tick, `add`, `remove`, `cleanup` on a signal | all of the below |
| IP allocator (`ipalloc`) | set of used last bytes | `Allocate` (lowest free), `Free` | called by the daemon |
| domain names (`domain`) | none | `Generate`: identifier, service label, collision suffix, cut to 63 bytes | called by `add` |
| configuration (`config`) | `config.yaml` | lookups; `Load`, `Save`, `SetOverride`, `RemoveOverride` | daemon at start, `lad set` / `unset` |
| dnsmasq manager (`dnsmasq/manager*.go`) | one `port-N.conf` per forward, the `hosts` file | `Add`, `Remove`: write or delete a state file, rebuild `hosts`, reload | files shared with dnsmasq; SIGHUP |
| dnsmasq (external) | the configuration it started with, the records it last loaded | reads its configuration at start; re-reads `hosts` on SIGHUP, later | |
| dnsmasq setup (`dnsmasq/setup_*.go`) | `dnsmasq.conf`, the drop-in directory, sudoers, networkd or resolver files, aliases, services | `Setup`, `Teardown` | sudo, systemd and networkd, brew and launchd |
| TCP proxy (`proxy`) | listener, `quit`, a `WaitGroup`, a `Once` | `Start`, `Stop`, goroutines `serve` and `pipe` | the forward's local port |
| state store, IPC server (`ipc/server.go`) | map port → entry; the socket file | `Set`, `Delete`, `All`; `Start`, `Stop`, `handleState` | clients over a Unix socket |
| IPC client (`ipc/client.go`) | a connection | `GetState`, `IsDaemonRunning` | `lad list`, `lad status` |
| scanner (`scanner`) | none | `Scan`: `ss` or `lsof`, then `/proc/PID/cmdline` or `ps`; parsing of command lines | called by `poll` |
| TLS certificates (`tlscert`) | four PEM files; the system's CA store | `EnsureCert`, `LoadCert`, `InstallCA`, `RemoveCA` | `lad setup`, `lad uninstall`, the daemon at start |
| service (`service`) | the systemd unit or the LaunchAgent | `Install`, `Uninstall`, `Status` | restarts the daemon whenever it ends |
| loopback aliases (`netutil`) | aliases of lo0 (macOS) | `EnsureAlias`, `RemoveAlias` | called by `add`, `remove` |
| command line (`cmd`) | none | one command per operation above | |

What is hard about it:

* **Concurrency between processes.** Forwards come and go during a scan and
  between polls; dnsmasq re-reads the hosts file whenever it gets to it, perhaps
  while it is half written; clients read the store while entries come and go;
  two daemons may share one socket path; `lad setup` rewrites the certificates
  while a daemon reads them; two `lad set` rewrite one file.
* **Concurrency inside the proxy.** Callers of `Stop`, the accept loop and two
  copying goroutines per connection share a listener, a channel and a `Once`.
* **Failure part of the way.** `add` is seven steps with four ways to fail,
  `remove` ignores errors; a crash may come between any two steps, and files
  outlive the process while all of its memory is lost.
* **Long rows of system commands.** `setup` and `uninstall` are up to 20 sudo
  commands with most errors ignored, each of which may be the last one; they are
  run again over whatever is there, and the machine reboots in between.
* **Limits.** A pool of addresses that may run out while addresses are about to
  be freed, a label of 63 bytes that may cut off what makes a name unique.

What makes it correct: addresses and sockets are never leaked or shared; a name
leads to its own forward and to no other; clients never see a mapping that does
not work yet or that changes under them; what is no longer forwarded is
eventually gone; a stopped daemon leaves nothing behind; `Stop` returns and the
address is then free; the status a client prints is true; the certificate chain
holds together whatever was interrupted; a scan reports exactly the forwards; an
override that was set stays set and never keeps the daemon from starting; one
setup is enough, for ever; an uninstall takes away what lad brought and leaves
what is the user's.

## 2. The modules

| module | models | extends |
|---|---|---|
| `Config` | service table, proxy port | |
| `Domain` | `Generate` and its helpers | `Config` |
| `IPAlloc` | the allocator | |
| `DnsManager` | state files, hosts file, reload, dnsmasq's re-read | `Domain`, `IPAlloc` |
| `Daemon` | poll, add, remove, cleanup, signals, crashes | `DnsManager` |
| `PortMap` | abstract: what clients may rely on | |
| `DaemonProps` | the properties and inductive invariants of `Daemon` | `Daemon`, instance of `PortMap` |
| `MCDaemon` | instances for TLC | `DaemonProps` |
| `Proxy` | one proxy, goroutine by goroutine | |
| `IpcSocket` | socket path, servers and clients | |
| `TlsCert` | setup, uninstall, service, certificates, CA store | |
| `Scanner`, `MCScanner` | parsing and `Scan`; command lines for TLC | |
| `ConfigFile` | the config file, `set`, `unset`, the daemon's start | |
| `DnsSetup` | what `setup` changes on a machine; dnsmasq's start; shared steps | |
| `SetupLinux`, `SetupDarwin` | `Setup` and `Teardown` of each platform | `DnsSetup` |
| `LadSetup` | the commands composed with the daemon, dnsmasq and reboots | both |
| `Daemon_proof`, `DaemonClean_proof`, `Proxy_proof`, `IpcSocket_proof`, `TlsCert_proof`, `ConfigFile_proof`, `LadSetup_proof`, `Scanner_proof` | the theorems | the module proved about |

Definitions keep the source's names where they are one function (`Generate`,
`sanitize`, `validHostname`, `EnsureCert`, `parseSSHInfo`); steps of a function
are named for what they do (`OpensConf`, `WritesConf`). An operator whose
comment says *mutant* is a plausible bug, used to show that a property notices it.

**Daemon.** `pc` is where the daemon's goroutine is, `job` the entry that `add`
or `remove` works on, `todo` the forwards `poll` has yet to add and `leaving` the
ports its second loop, or that of `cleanup`, has yet to remove; each loop is one
pass over what it ranges over. A step
ends wherever somebody else can see or interrupt the state. `os.WriteFile` is two
steps (truncated, written). `add` is `AddBegins` or `AddRefused`, then
`OpensConf`, `WritesConf`, `OpensHosts`, `WritesHosts`, `Reloads`, then
`StartsProxy` or `ProxyFails`, then `Records`; each of the DNS steps may instead
end in `AddFails`. `remove` is `RemoveBegins`, `StopsProxy`, `RemovesConf`, the
same DNS steps, `Drops`; its errors are ignored (`DnsRemoveFails`). `cleanup` is
a run of removes with `stopping` set. `Faults` says which calls may fail.
A crash loses all but the files. `conf`, `hosts`, `served` are the three copies
of the records: state files, hosts file, what dnsmasq loaded. `writeHostsFile`
ignores errors of reading: with the fault `"read"` it leaves out any of the state
files, and `unread` is the history of which.

**Names** are sequences of words, since `sanitize` keeps of a text only its runs
of letters and digits; the cut to 63 bytes is a cut to `MaxWords` words.

**Proxy.** `stop[s]` is a caller of `Stop`, `once` the `sync.Once`, `quit` how
often the channel was closed, `serve` the accept loop, `up`/`down` the two
`io.Copy` of a connection; `client`/`upstream` say which ends have stopped
sending or are gone. `Daemon` treats starting and stopping a proxy as one step;
`StopQuiesces` is what makes that sound.

**IpcSocket.** `file` is the daemon whose socket the path names. `Server.Start`
is remove, listen, chmod (with its error path), `Server.Stop` is unlink (part of
closing a Go Unix listener), close, remove. `ran` records which daemons have run. A client dials, waits, and is
answered or reset; `status` asks twice.

**TlsCert.** A run of `EnsureCert` that generates is a number, and so is what it
writes: certificate, key and CA belong together when their numbers are equal.
Writes are open (truncate) and fill, `LoadCert` reads file after file. A command
may be interrupted at any step; certificates age; the machine reboots. `bundle`
is what the system trusts: on Linux what `update-ca-certificates` makes of the
one file `dest`, on macOS a keychain to which every generation adds. `uninstall`
goes on when it could not stop the service (`StopsService`): the daemon then runs
on, or is started again, while the files go; `outlived` is the history of a daemon
under which files were deleted.

**Scanner.** A command line is a sequence of tokens (word, group of flags,
specification split at its colons, specification attached to `-L`). The classifiers
search the whole line for substrings and for `-[a-zA-Z]*L`; a match never spans a
blank, so each token carries the set of patterns found in it, and
`-oLogLevel=ERROR` carries that of `-L`. The field of `ss` is searched for program
names in the same way. `ss` (or
`lsof`, which also lists sockets on other addresses) takes one snapshot; the
command lines are then read one at a time while processes end and start.

**ConfigFile.** `file` is the text: missing or empty, garbled, or a `Config`.
`set` and `unset` are `Loads` (Load and the change in memory), `Opens` (WriteFile
truncates), `Fills`. A text that does not load ends the command before it writes,
as does the panic of `set` after a bare `overrides:`; these are disabled steps. `want`,
`alone`, `overlapped` and `cut` are history: the text that should be there, whether
somebody touched the file after a command loaded it, and what has gone wrong since
the user last wrote the file himself.

**LadSetup.** `pc` is the next system command of the `lad` command that runs,
named for what it does (`mkdir`, `chown`, `confdir`, ...). `Goes` moves on;
`Ignores` is a command whose error the code ignores, with the tables
`LinuxIgnored` and `DarwinIgnored` saying where the code goes on; `Interrupt` is
an error the code returns, or a Ctrl-C. `removeLine` is two steps, since the file
is truncated between them. `run` is the configuration dnsmasq started with, empty
when it is down; `boot` what a reboot starts. `by` says whether `setup` runs under
sudo, which decides who owns what it makes. `link` says that the interface lad-dns
is up; queries take it only if systemd-resolved is active too (`Routes`), which is
a fact about the machine (`host.resolved`) that no code looks at. A `removeLine`
whose write fails goes on like any ignored error, and leaves the file empty
(`torn`). The daemon adds and removes state
files, with the right to write them that the owner gives.

## 3. The runs

Passing runs:

| run | instance | shows |
|---|---|---|
| `daemon_clean` | 3 forwards on 3 ports, 2 addresses, no faults, fair | `NamesLeadHome`, `SettledServesAll`, `AllProxiesUp`, `UniqueDomains`, `CleanShutdown`, `EventuallyMapped`, `EventuallyForgotten`, `StopsEventually` |
| `daemon_faults` | 3 forwards on 2 ports, one with a refused name, 2 addresses, all faults (of reads too) and crashes | `PoolAccounted`, `ListenersOwned`, `RecordsPresent`, `ListedLast`, refinement of `PortMap` |
| `proxy_stop` | 2 connections, 2 callers of `Stop`, 1 accept error, fair | `StopQuiesces`, `NoSpuriousLog`, `NoAnswerCut`, `StopCompletes`, `ConnReleased`, `EventuallyServed` |
| `ipc_socket` | 2 daemons, 1 client, 2 kills, fair | `Reachable`, `StoppedMeansStopped`, `StaleSocketHarmless` of a daemon that is alone; `NoDeadSocket` of any |
| `tls_setup` | both platforms, 3 generations of keys | `ChainValid`, `InstallsSigner`, `SetupLasts`, `TrustKept` |
| `scan` | both platforms, 2 pids, 22 programs | `ScanComplete`, `ScanSound` |
| `config_file` | 2 commands at a time, 2 ports, 1 name, intervals 0 and 2, fair | `UpdatesKept`, `StaysStartable`, `DaemonComesUp` |
| `lad_setup` | both platforms, every network set-up, 2 aliases, 2 faults | `SetupSuffices`, `Routed`, `Bindable`, `UninstallReverses`, `LinkGoes`, `OwnLinesKept` |

Runs that TLC refutes, each a place where a document says something the code
does not do:

| run | property | what happens |
|---|---|---|
| `crash_recovery` | `EventuallyForgotten` | after a crash the record of a forward that ended meanwhile is never removed (ADR 004 line 57) |
| `port_reuse` | `ExitCleansUp` | a port taken over before the next poll keeps the old entry (README line 39) |
| `tls_reboot` | `SetupLasts` | with `XDG_RUNTIME_DIR` the certificates are gone after a reboot (README lines 166, 168) |
| `dnsmasq_restart` | `SurvivesReboot` | a `port-N.conf` left by a loss of power keeps dnsmasq from starting (PRD 003 line 24, README line 265) |

Limits of the code that the models show and no run is kept for:

* When a reload fails, `add` frees the address but the record stays; the next
  add gets the address, and the hosts file has two names for it (`Faults =
  {"reload"}`).
* A state file that cannot be read is left out of the hosts file and `Add` reports
  success: the entry is listed, its name does not resolve until the hosts file is
  next rewritten. `ListedLast` excepts exactly these entries (`unread`).
* A name with a letter outside a-z passes `sanitize` and is refused by
  `Manager.Add` at every poll. `EventuallyMapped` is about accepted names.
* At the limit of the pool a forward can be refused at every poll while other
  forwards keep alternating, since `poll` adds before it removes and in the order
  of a map. `EventuallyMapped` is therefore about forwards that settle.
* An uninstall interrupted when `ca.crt` is gone and the pair is not, and then a
  setup interrupted when the new `ca.crt` is written, leave a pair beside a CA
  that did not sign it; `LoadCert` accepts them (`PartialUninstall = TRUE`).
* A daemon that runs during `setup` does not get the new certificate.
* `uninstall` that fails to stop the service revokes the CA and deletes the files
  all the same; the daemon keeps its certificate, which nobody trusts. One that is
  just reading them can, with a whole `setup` before its next read, end up with a
  pair beside a CA of another generation (`outlived` in `ChainValid`, `TrustKept`).
* The scanner reports sockets that are no forward, with remote port 0: that of `-D`
  beside a `-L`, and of any program with ssh in its name and command line and
  something like `-oLogLevel=ERROR` in the latter. Forwards it reports with remote
  port 0, too: `kubectl port-forward app 8080`, those that `~/.ssh/config` asks for,
  and a kubectl line that looks like ssh's (`-n ssh-Lab`). `ScanSound` is about the
  remote ends that are reported, `ScanComplete` about forwards that are spelled out.
* A kubectl line in which a number and a colon before the pair happen to end in the
  local port (a server `10.0.0.1:6443` and local port 1), and one local port in two
  specifications, give a wrong remote end; `Truthful` excludes them.
* Two names longer than a label lose the suffix that tells them apart to the cut
  at 63 bytes (ADR 008 line 92 says the suffix handles this). `UniqueDomains` is
  checked for names that fit.
* Of two daemons on one path the second unlinks the first one's socket, and
  either one's end the other's; a client then says "stopped" while a daemon serves
  (ADR 005 line 42). `Reachable` and `StoppedMeansStopped` are about one that is
  alone.
* Two overlapping `lad set` lose an update, and a shorter text written over a
  longer one leaves a file that does not load; a daemon that starts while one
  writes runs with the defaults; `set` panics after a bare `overrides:`.
* `sudo lad setup`, which the code itself advises when the sudoers rule could not
  be written, leaves the directory, on a first setup the hosts file too, to root:
  the daemon cannot write them. On macOS it also leaves a running dnsmasq with its
  old configuration. Hence `~sudo` in the properties.
* `setup` run again while forwards are active restarts dnsmasq into the state
  files of those forwards: it does not start. On macOS one interrupted between the
  stop and the start leaves dnsmasq stopped and unregistered (so `SetupSuffices`
  promises its start at boot on Linux only).
* An interrupted uninstall can leave the `conf-dir` line without its directory,
  and an interrupted first setup on macOS too: dnsmasq does not start until either
  is run again. An interrupt inside `removeLine`, or a write that fails there, leaves
  an empty `dnsmasq.conf`, the second without ending the uninstall (`torn`).
* Without systemd-resolved `setup` does all it does with it, down to enabling
  networkd beside NetworkManager, and reports success; nothing is routed. The README
  (line 297: "Both must be active", else "the split-DNS step is skipped") and the
  comment at setup_linux.go line 64 ("if active") suggest a check there is not.
  `Routed` is about machines where resolved is active. With neither networkd nor
  NetworkManager the files are written and a hint is printed.
* After a complete uninstall the interface lad-dns may still be up, since
  `networkctl reload` removes none, and queries for tunnel.test go to a dnsmasq that
  knows no names, until the machine restarts (README line 146: "Removes everything").
  `UninstallReverses` leaves the interface out; `LinkGoes` says that it goes then.
* Uninstall removes `listen-address=127.0.0.1` and `bind-interfaces` though the
  user had them before, and disables a networkd he ran beside NetworkManager.
* macOS: the allocator has 254 addresses and setup makes 100 aliases; a daemon that
  is root removes the aliases of setup when it removes entries (`DaemonIsRoot =
  TRUE`); RemoveCA cannot delete several CAs of one name and only warns.
* A pid reused during a scan pairs a port with another's command line
  (`ReusePids = TRUE`).

**Bounds, and why they are enough.** Two forwards with one plain name are what a
collision takes; a third, on its own port, makes the pool of two run out, and one
that shares a port with the first makes a port change hands. The daemon's counters are
finite by themselves, so no run cuts its behaviours. Two callers are what a
second `Stop` takes; two connections, that one may wait behind another. Two kills
let a stale socket meet a restart twice; two daemons let each remove the other's
path, while one of them is also seen alone until the other starts
(`MaxCrashes` bounds the kills). `MaxGen` bounds key generation: three
generations let a half-written one lie between two whole ones; a model at its
last generation simply cannot generate again. Two pids and overlapping ports let
one process end and another take its port during a scan, and the programs are
every notation of the README's sections on ssh and kubectl, with one or two `-L`,
and those the classifiers mistake (`-D` alone, beside `-L`, with `-oLogLevel`, an
sshuttle, a kubectl that looks like ssh; `ProcsAssumption` has TLC confirm that the proofs speak of all of them).
Two commands are what it takes to overlap in the config file, two ports to see an
update of one lost by one of the other, and of the intervals one starts the daemon
and one does not; commands repeat without bound. Of the aliases the first and the
last differ in the loop, so two will do; `MaxFaults`, the number of steps of all
commands that fail or are interrupted, lets one fault spoil a setup and another
the uninstall or the second setup after it; commands, crashes, restarts and reboots
are not bounded.
The safety properties marked in section 4 are also proved for every value of the
constants.

**Fairness.** `Daemon!FairSpec`: the goroutine keeps running (Go schedules it
and every call it makes returns), dnsmasq handles a signal it was sent, and the
daemon is started again when it ends (`Restart=always`, `KeepAlive`). No fairness
is assumed of forwards, signals or crashes, and none of successes over failures:
the run with liveness has no faults. `EventuallyMapped` and `EventuallyForgotten`
speak of behaviours in which the daemon is eventually up for good, and
`EventuallyMapped` of those in which the forwards settle and the pool suffices.
`Proxy!FairSpec`: goroutines that can run do, and the kernel hands over every
connection of its backlog. Nobody has to close a connection or send anything.
`IpcSocket!FairSpec`: a daemon that starts or stops goes on with it, and one that has run is started again;
a second one need never start, and nothing is assumed of clients.
`ConfigFile!FairSpec`: the service starts the daemon again; commands and the user
need not do anything, and `DaemonComesUp` is about behaviours that end with sound
texts. `LadSetup!FairSpec`: a command that was begun goes on. `proxy_stop` turns deadlock checking off: a
stopped proxy with all connections closed has nothing left to do.

## 4. The proofs

All theorems hold for every value of the constants, under the assumptions the
modules state (`NoJob` is no entry, the pool is not empty, ...) and those named
here.

* **`Daemon_proof`**, with any faults and crashes: `TypeCorrect`,
  `PoolAlwaysAccounted`, `ListenersAlwaysOwned`, `RecordsAlwaysPresent`,
  `RefinesPortMap`, `AlwaysListedLast`. They rest on one inductive invariant,
  `IInv`. `PoolAccounted` alone is not inductive: that `Records` may enter the
  job without overwriting another's entry needs `TodoInv` (a forward still to be
  added has a port no holder has), that `AddFails` and `Drops` free the right
  address needs `JobInv` (where the goroutine is decides whether the job is an
  entry or not), and `ListedLast` needs `AddInv` (how far the add has got). The
  proof is one lemma per group of actions; `IInvFrame` and `IInvDnsFrame` settle
  the many steps that leave most variables alone. The refinement follows: only
  `Records`, `Drops` and `ProcessEnds` change the store, and they are `Map`,
  `Unmap` and `Reset`.
* **`DaemonClean_proof`**, assuming `Faults = {}`: `NamesAlwaysLeadHome`,
  `AlwaysSettledServesAll`, `ProxiesAlwaysUp`, `AlwaysCleanShutdown`, from
  `CleanInv`, inductive relative to `IInv`: state files belong to holders, the
  hosts file equals their union except while it is written, and dnsmasq equals
  the hosts file except while it is written or a signal is on its way. That a
  signal is pending from the moment the files differ is the argument for the
  reuse of addresses. With any faults: `DomainsAlwaysUnique`, assuming
  `SuffixesDistinct`, and `FittingNamesUnique`, which derives that from the
  lengths of the names: no name is cut.
* **`Proxy_proof`**: `StopAlwaysQuiesces`, `NeverSpuriousLog`,
  `AnswersNeverCut`, for any number of connections and callers. `StopInv` ties `quit`, `once` and the listener together: only one
  caller is inside the `Once`, and past it the listener is closed. `PipeInv` says
  why a copy that is done has ended (its source stopped sending, or its
  destination is gone); only with that does the end of both copies, the moment
  `pipe` closes, mean that no answer is outstanding.
* **`IpcSocket_proof`**: `NeverDeadSocket` for any number of daemons, by
  `FileInv` (without a kill the path names a daemon only from its bind to its
  unlink); `AlwaysReachable` and `StoppedAlwaysMeansStopped` for a daemon as long
  as no other one ran, by `AloneInv` (whatever is not off has run, so that the
  others cannot interfere; the path is the daemon's own from bind to unlink).
  Without that condition the second is false.
* **`TlsCert_proof`**, assuming that uninstall is not interrupted while it
  deletes: `ChainAlwaysValid`, `AlwaysInstallsSigner`, `TrustAlwaysKept`, and
  with `RuntimeDir = FALSE` `SetupAlwaysLasts`. `LoadCert` never checks the
  signature; what makes it safe is the order of the writes. `DiskInv`: a matching
  good pair has its signer beside it, or, while uninstall deletes, none
  (`Signed`). `WriteInv`: while `EnsureCert` writes,
  there is no good pair, and the files before `at` are of this generation.
  `ReadInv` carries that over to a reader between two of its reads, as long as no
  file was deleted since it started. Both platforms are covered.
* **`ConfigFile_proof`**, for any number of commands, ports, names and intervals:
  `UpdatesAlwaysKept` and `AlwaysStartable`, from `ConfigInvariant`. Neither says
  anything about what a command still has in memory; `FreshInv` does (an
  undisturbed command holds the wanted text with its change), `SoundInv` keeps of
  it what survives an interrupt (a positive interval), and `WriterInv` says that
  beside an undisturbed command nobody writes, so that it finds the file as it
  left it.

* **`LadSetup_proof`**, for any number of aliases and faults, on both platforms:
  `LadTypeOK`, `LadOwnLinesKept`, `LadRouted`, `LadSetupSuffices`,
  `LadUninstallReverses`, `LadLinkGoes`, and with `DaemonIsRoot = FALSE` `LadBindable`. The
  properties speak of commands that have ended, so none is inductive: one has to
  say for every step what the steps before it have established, and that a crash,
  a reboot, an ignored error or an interrupted earlier command does not undo it.
  `IInv` has three parts. `BaseInv`: the types, which steps a command has
  (`ControlInv`), what `removeLine` holds in memory while `dnsmasq.conf` is empty,
  what no command writes on the other platform, that nothing is root's before
  somebody uses sudo. `SetupInv`: what is in place once setup is past a step
  without an error (`SetUp(steps)`; `AliasInv`, `RouteInv`, `ReadyInv`), which a
  second setup and a reboot keep. `GoneInv`: the same for uninstall
  (`TornDown(steps)`). Each part has a lemma per group of actions. TLC checked
  `IInv` on the instance of `lad_setup` first, and with `DaemonIsRoot = TRUE`.
* **`Scanner_proof`**, for any pids and programs: `ScanMissesNone` and, with
  `ReusePids = FALSE`, `ScanReportsForwards`. Both assume of the programs what
  `Truthful` says: a command line that is taken for ssh gives a port the process
  listens on only in the specification of that forward, one that is taken for
  kubectl only in the pair of it; forwards have positive remote ports and different
  local ones. Programs that are taken for forwards and are none are included, and so
  are sockets beside the forwards. `ParsesSSH` and `ParsesKubectl` show that a remote
  end the parsers find is that of the forward on the port; `LastingInv` (a socket of
  a process that lasts is still to be read or its forward is in the result) is
  inductive even when pids are reused, which is why completeness does not depend on
  that; `ReportInv` needs that what answers under a listed pid is the process
  listed, or none.

Only model-checked: liveness (`EventuallyMapped`, `EventuallyForgotten`,
`StopsEventually`, `StopCompletes`, `ConnReleased`, `EventuallyServed`,
`StaleSocketHarmless`, `DaemonComesUp`), which needs fairness and
ENABLED. Every other property of a passing run is also proved.

## 5. What is not modelled

* Contents: bytes of connections, TLS handshakes, PEM and JSON, log and table
  output. A one-line file is written entirely or left empty: torn lines are left
  out. Generating keys and copying the CA with `tee` do not fail half-way.
* `Manager.RemoveAll`: nothing calls it.
* The client's 5 s timeout: the handler waits only for a short read lock. Of a
  daemon that takes longer, `lad status` would say "stopped"; that commands end at
  all is the timeout's and the kernel's doing, and no property speaks of it.
  Failures of `MkdirAll` and `Chmod` on the socket's directory.
* One `setup`, `uninstall` or service command runs at a time. A daemon started by
  hand during `uninstall` is left out. `setup` and `uninstall` are split: their dnsmasq half and the
  service are `LadSetup`'s, certificates and data directory `TlsCert`'s, the config
  file `ConfigFile`'s; the halves share no state but the service. The socket file
  that `uninstall` deletes with the rest is left out.
* In `LadSetup`: the contents of the files setup writes (a file is there or not),
  the files of earlier versions that teardown deletes, the hints printed for other
  network managers, `networkctl reload` for anything but the one link, an uninstall
  under sudo. That macOS looks for a line with `Contains` is taken as equality.
* In `ConfigFile`: tld and service_ports, which are loaded and saved the way the
  interval is. A text is truncated and then written whole.
* In `LadSetup` a reboot makes the aliases and starts the daemon in one step. A
  daemon that adds a forward before the LaunchDaemon has run fails to bind, and that
  entry keeps no proxy (ADR 006 line 22); in `Daemon` this is the fault `"bind"`.
* How dnsmasq answers queries. That it refuses to start on a line it cannot parse,
  on a missing `conf-dir` and on an address in use is external knowledge
  (`CanStart`), as is what systemd, launchd, brew and networkd do.
* `Status` and the second request of `lad status`, of which no property speaks.

## 6. Plan

Done, in order of importance: the daemon with its allocator, names and records
and its abstract specification; the proxy; the IPC socket; the certificates; the
scanner; the config file; setup, teardown and the service on both platforms; and
proofs of all safety properties of these.

Left:

1. A composition of `Daemon` with `Proxy`: pipes that outlive `Stop` and dial a
   port that changed hands; an accept loop that ended while its entry is listed.
   As an abstract specification of the proxy: a socket that opens and closes
   once, which is what `Daemon` uses.
2. A composition of `Daemon` with `Scanner`: the forwards the daemon sees are
   those of one snapshot, read over time. `ScanSound` and `ScanComplete` are what
   `Daemon` takes for granted of a scan.
