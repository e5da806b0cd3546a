------------------------------ MODULE Scanner -------------------------------
(***************************************************************************)
(* internal/scanner: which processes forward which ports.  Scan takes the  *)
(* listening sockets from ss (Linux) or lsof (macOS) and then, one by one, *)
(* the command lines from /proc or ps, while processes come and go.        *)
(*                                                                         *)
(* A command line is a sequence of tokens.  A token is a word, a group of  *)
(* flag letters (-L, -fNL), a specification split at its colons (8080:80,  *)
(* 127.0.0.1:8181:db:80) or such a specification attached to -L.  The      *)
(* classifiers look for patterns anywhere in the line, none of which spans *)
(* a blank, so a token has the set of those found in it: "-L" stands for   *)
(* the expression -[a-zA-Z]*L, which -oLogLevel=ERROR matches as well.     *)
(***************************************************************************)
EXTENDS Naturals, SequencesExt

CONSTANTS
  Pids,
  Procs,        \* the programs that may run, records as in the MC module
  NoProc,
  ReusePids     \* a pid may be given to another process during a scan

ASSUME ScannerAssumption == NoProc \notin Procs /\ ReusePids \in BOOLEAN

Token(kind, name, letters, parts, has) ==
  [kind |-> kind, name |-> name, letters |-> letters, parts |-> parts, has |-> has]
Word(name, has) == Token("word", name, {}, << >>, has)
Flags(letters) == Token("flags", "", letters, << >>, IF "L" \in letters THEN {"-L"} ELSE {})
Spec(parts) == Token("spec", "", {}, parts, {})
Attached(parts) == Token("attached", "", {}, parts, {"-L"})

\* A part of a specification: its text, what strconv.Atoi makes of it, and the
\* numbers it ends and begins with.
Num(n) == [atoi |-> n, last |-> n, first |-> n, text |-> ""]
Text(s) == [atoi |-> 0, last |-> 0, first |-> 0, text |-> s]

-----------------------------------------------------------------------------
(* Mutant of sshSpecInfo: the form with a bind address is forgotten. *)
sshSpecInfoUnbound(parts, localPort) ==
  IF Len(parts) = 3 /\ parts[1].atoi = localPort
  THEN [host |-> parts[2].text, rport |-> parts[3].atoi]
  ELSE [host |-> "", rport |-> 0]

(* [bindaddr:]localPort:remoteHost:remotePort *)
sshSpecInfo(parts, localPort) ==
  LET n == Len(parts) IN
  IF n \in {3, 4} /\ parts[n - 2].atoi = localPort
  THEN [host |-> parts[n - 1].text, rport |-> parts[n].atoi]
  ELSE [host |-> "", rport |-> 0]

isSSHCombinedLFlag(token) ==
  token.kind = "flags" /\ token.letters # {"L"} /\ "L" \in token.letters

(* The specification token i of cmdline stands for or announces. *)
SpecAt(cmdline, i) ==
  LET f == cmdline[i]
      next == IF i < Len(cmdline) THEN cmdline[i + 1].parts ELSE << >>
  IN IF f.kind = "attached" THEN f.parts
     ELSE IF f.letters = {"L"} \/ isSSHCombinedLFlag(f) THEN next
     ELSE << >>

(* Mutant of parseSSHInfo: the first specification, whatever its port. *)
parseSSHInfoFirst(cmdline, localPort) ==
  LET specs == {i \in DOMAIN cmdline : Len(SpecAt(cmdline, i)) \in {3, 4}}
      parts == SpecAt(cmdline, Min(specs))
  IN IF specs = {} THEN [host |-> "", rport |-> 0]
     ELSE [host |-> parts[Len(parts) - 1].text, rport |-> parts[Len(parts)].atoi]

parseSSHInfo(cmdline, localPort) ==
  LET hits == {i \in DOMAIN cmdline :
                 sshSpecInfo(SpecAt(cmdline, i), localPort).rport > 0}
  IN IF hits = {} THEN [host |-> "", rport |-> 0]
     ELSE sshSpecInfo(SpecAt(cmdline, Min(hits)), localPort)

(* The number after the first localPort: in a token. *)
PairAt(parts, localPort) ==
  LET hits == {k \in 1..Len(parts) - 1 : parts[k].last = localPort /\ parts[k + 1].first > 0}
  IN IF hits = {} THEN 0 ELSE parts[Min(hits) + 1].first

(* The word after port-forward, less its prefix; the first localPort:N. *)
parseKubectlInfo(cmdline, localPort) ==
  LET verbs == {i \in 1..Len(cmdline) - 1 : cmdline[i].name = "port-forward"}
      hits == {i \in DOMAIN cmdline : PairAt(cmdline[i].parts, localPort) > 0}
  IN [resource |-> IF verbs = {} THEN "" ELSE cmdline[Min(verbs) + 1].name,
      rport |-> IF hits = {} THEN 0 ELSE PairAt(cmdline[Min(hits)].parts, localPort)]

Matches(cmdline, pattern) == \E i \in DOMAIN cmdline : pattern \in cmdline[i].has

ClassifySSH(cmdline) == Matches(cmdline, "ssh") /\ Matches(cmdline, "-L")

ClassifyKubectl(cmdline) == Matches(cmdline, "kubectl") /\ Matches(cmdline, "port-forward")

(* ParseRemoteInfo: the PortForward of a socket and a command line. *)
PortForward(pid, port, cmdline) ==
  IF ClassifySSH(cmdline)
  THEN LET info == parseSSHInfo(cmdline, port) IN
       [pid |-> pid, port |-> port, tool |-> "ssh", host |-> info.host,
        resource |-> "", rport |-> info.rport]
  ELSE LET info == parseKubectlInfo(cmdline, port) IN
       [pid |-> pid, port |-> port, tool |-> "kubectl", host |-> "",
        resource |-> info.resource, rport |-> info.rport]

-----------------------------------------------------------------------------
VARIABLES
  os,         \* "linux" | "darwin"
  procs,      \* procs[pid]: what runs under pid, or NoProc
  phase,      \* "idle" | "reading" | "done"
  todo,       \* candidates, <<pid, port>>, whose command line is not read
  result,     \* the PortForwards so far
  began,      \* procs when ss or lsof ran
  alive       \* the pids that have not ended since

vars == <<os, procs, phase, todo, result, began, alive>>
scanVars == <<os, phase, todo, result, began>>

NoProcs == [p \in Pids |-> NoProc]

Init ==
  /\ os \in {"linux", "darwin"}
  /\ procs = NoProcs
  /\ phase = "idle"
  /\ todo = {}
  /\ result = {}
  /\ began = NoProcs
  /\ alive = {}

Running == {p \in Pids : procs[p] # NoProc}

PortsOf(proc) == {fwd.port : fwd \in proc.forwards} \cup proc.sockets

(* ss -tlnp: loopback sockets of programs whose name has ssh or kubectl in
   it; lsof: sockets on any address, of programs with just these names. *)
SsKeeps(proc) == proc.loopback /\ proc.nameHas \cap {"ssh", "kubectl"} # {}
LsofKeeps(proc) == proc.program \in {"ssh", "kubectl"}
Listed(proc) == IF os = "linux" THEN SsKeeps(proc) ELSE LsofKeeps(proc)

Candidates ==
  UNION {{<<p, port>> : port \in PortsOf(procs[p])} : p \in {q \in Running : Listed(procs[q])}}

ScanBegins ==
  /\ phase = "idle"
  /\ phase' = "reading"
  /\ todo' = Candidates
  /\ alive' = Running
  /\ began' = procs
  /\ result' = {}
  /\ UNCHANGED <<os, procs>>

(* /proc/PID/cmdline, or ps: the process may be gone. *)
classifyCmdline(proc) ==
  proc # NoProc /\ (ClassifySSH(proc.cmdline) \/ ClassifyKubectl(proc.cmdline))

(* The body of the loop over the candidates. *)
Reads(c) ==
  /\ phase = "reading"
  /\ c \in todo
  /\ todo' = todo \ {c}
  /\ LET proc == procs[c[1]] IN
     result' =
       IF classifyCmdline(proc)
       THEN result \cup {PortForward(c[1], c[2], proc.cmdline)}
       ELSE result
  /\ UNCHANGED <<os, procs, phase, began, alive>>

ScanEnds ==
  /\ phase = "reading"
  /\ todo = {}
  /\ phase' = "done"
  /\ UNCHANGED <<os, procs, todo, result, began, alive>>

NextPoll ==
  /\ phase = "done"
  /\ phase' = "idle"
  /\ UNCHANGED <<os, procs, todo, result, began, alive>>

(* A port is bound by one process at a time. *)
Spawn(pid, proc) ==
  /\ procs[pid] = NoProc
  /\ phase # "idle" /\ began[pid] # NoProc => ReusePids
  /\ \A p \in Running : PortsOf(procs[p]) \cap PortsOf(proc) = {}
  /\ procs' = [procs EXCEPT ![pid] = proc]
  /\ UNCHANGED <<scanVars, alive>>

Exit(pid) ==
  /\ procs[pid] # NoProc
  /\ procs' = [procs EXCEPT ![pid] = NoProc]
  /\ alive' = alive \ {pid}
  /\ UNCHANGED scanVars

Next ==
  \/ ScanBegins \/ ScanEnds \/ NextPoll
  \/ \E c \in todo : Reads(c)
  \/ \E pid \in Pids : Exit(pid) \/ \E proc \in Procs : Spawn(pid, proc)

ScanSpec == Init /\ [][Next]_vars

-----------------------------------------------------------------------------
(* A forward of proc, as the user meant it. *)
AsMeant(pid, fwd, proc) ==
  [pid |-> pid, port |-> fwd.port, tool |-> proc.program, host |-> fwd.host,
   resource |-> proc.resource, rport |-> fwd.rport]

(* The command line has the forward's specification in full: not so for one
   that ~/.ssh/config asks for, or `kubectl port-forward app 8080`. *)
Specifies(parts, fwd) ==
  LET n == Len(parts) IN
  /\ n \in {3, 4}
  /\ parts[n - 2].atoi = fwd.port
  /\ parts[n - 1].text = fwd.host
  /\ parts[n].atoi = fwd.rport

SpelledSSH(proc, fwd) ==
  /\ proc.program = "ssh" /\ Matches(proc.cmdline, "ssh")
  /\ \E i \in DOMAIN proc.cmdline : Specifies(SpecAt(proc.cmdline, i), fwd)

SpelledKubectl(proc, fwd) ==
  /\ proc.program = "kubectl" /\ ClassifyKubectl(proc.cmdline)
  /\ ~ClassifySSH(proc.cmdline)
  /\ \E i \in DOMAIN proc.cmdline : PairAt(proc.cmdline[i].parts, fwd.port) = fwd.rport

Spelled(proc, fwd) == SpelledSSH(proc, fwd) \/ SpelledKubectl(proc, fwd)

(* A forward that lasts through the scan and that its command line spells out
   is found, with its remote host or resource and its remote port, whatever
   starts and ends meanwhile: on macOS wherever it listens, on Linux if it
   listens on a loopback address. *)
ScanComplete ==
  phase = "done" =>
    \A pid \in alive : os = "darwin" \/ began[pid].loopback =>
      \A fwd \in began[pid].forwards :
        Spelled(began[pid], fwd) => AsMeant(pid, fwd, began[pid]) \in result

(* What the scan reports was a socket of that process when the scan began, and
   the remote end it reports, if any, is that of the forward on this socket.
   A socket that is no forward may be reported, with remote port 0: the
   classifiers also take `ssh -oLogLevel=ERROR -D 1080` for a forward. *)
ScanSound ==
  phase = "done" =>
    \A e \in result :
      LET proc == began[e.pid] IN
      /\ proc # NoProc /\ e.port \in PortsOf(proc)
      /\ e.rport # 0 => \E fwd \in proc.forwards : e = AsMeant(e.pid, fwd, proc)

-----------------------------------------------------------------------------
(* What the theorems assume of the programs.  A flag with an L, a specification
   attached to -L and the word port-forward match their patterns, and a
   program's name contains itself. *)
Lexical(proc) ==
  LET cl == proc.cmdline IN
  /\ DOMAIN cl = 1..Len(cl)
  /\ \A i \in DOMAIN cl : "L" \in cl[i].letters \/ cl[i].kind = "attached" => "-L" \in cl[i].has
  /\ proc.program \in {"ssh", "kubectl"} => proc.program \in proc.nameHas

(* A command line that is taken for ssh gives a port the process listens on
   only in the specification of its forward; one that is taken for kubectl
   only in that pair, and port-forward is followed by the resource. *)
TruthfulSSH(proc) ==
  \A i \in DOMAIN proc.cmdline, port \in PortsOf(proc) :
    LET parts == SpecAt(proc.cmdline, i) IN
    sshSpecInfo(parts, port).rport > 0 =>
      /\ proc.program = "ssh" /\ proc.resource = ""
      /\ \E fwd \in proc.forwards : fwd.port = port /\ Specifies(parts, fwd)

TruthfulKubectl(proc) ==
  \A i \in DOMAIN proc.cmdline, port \in PortsOf(proc) :
    LET cl == proc.cmdline
        rport == PairAt(cl[i].parts, port)
    IN
    rport > 0 =>
      /\ proc.program = "kubectl"
      /\ \E fwd \in proc.forwards : fwd.port = port /\ fwd.host = "" /\ fwd.rport = rport
      /\ \E v \in 1..Len(cl) - 1 :
           /\ cl[v].name = "port-forward" /\ cl[v + 1].name = proc.resource
           /\ \A w \in 1..Len(cl) - 1 : cl[w].name = "port-forward" => w = v

Truthful(proc) ==
  /\ Lexical(proc)
  /\ \A fwd \in proc.forwards : fwd.rport > 0
  /\ \A f, g \in proc.forwards : f.port = g.port => f = g
  /\ ClassifySSH(proc.cmdline) => TruthfulSSH(proc)
  /\ ~ClassifySSH(proc.cmdline) /\ ClassifyKubectl(proc.cmdline) => TruthfulKubectl(proc)
=============================================================================
