---------------------------- MODULE Scanner_proof ----------------------------
(***************************************************************************)
(* Proofs about Scanner.tla: for any pids and any programs whose command   *)
(* lines do not lie about the ports they listen on (Truthful), with any    *)
(* number of specifications, other sockets and other programs' names.      *)
(***************************************************************************)
EXTENDS Scanner, WellFoundedInduction, TLAPS

(* The first of some positions in a command line is one of them. *)
LEMMA MinIsMember ==
  ASSUME NEW S, S \subseteq Nat, S # {}
  PROVE  Min(S) \in S
<1>1. PICK x \in S : \A y \in S : <<y, x>> \notin OpToRel(<, Nat)
  BY WFMin, NatLessThanWellFounded
<1>2. ASSUME NEW y \in S, y < x
      PROVE  FALSE
  <2>1. x \in Nat /\ y \in Nat
    OBVIOUS
  <2>2. <<y, x>> \in OpToRel(<, Nat)
    BY <1>2, <2>1, Zenon DEF OpToRel
  <2> QED
    BY <1>1, <2>2
<1>3. \A y \in S : x =< y
  BY <1>2
<1> QED
  BY <1>3 DEF Min

(* What a parser found is the remote end of a forward of proc. *)
SSHEnd(info, fwd) == info.host = fwd.host /\ info.rport = fwd.rport
KubectlEnd(info, fwd, proc) ==
  fwd.host = "" /\ info.resource = proc.resource /\ info.rport = fwd.rport

(* Wherever parseSSHInfo finds a remote end, it is that of the forward with
   this local port, among any number of specifications. *)
LEMMA ParsesSSH ==
  ASSUME NEW proc, Truthful(proc), ClassifySSH(proc.cmdline), NEW port \in PortsOf(proc),
         parseSSHInfo(proc.cmdline, port).rport # 0
  PROVE  /\ proc.program = "ssh" /\ proc.resource = ""
         /\ \E fwd \in proc.forwards :
              fwd.port = port /\ SSHEnd(parseSSHInfo(proc.cmdline, port), fwd)
<1> DEFINE cl == proc.cmdline
           info(i) == sshSpecInfo(SpecAt(cl, i), port)
           hits == {i \in DOMAIN cl : info(i).rport > 0}
<1>1. hits # {}
  BY DEF parseSSHInfo
<1>2. Min(hits) \in hits
  <2>1. hits \subseteq Nat
    BY DEF Truthful, Lexical
  <2> QED
    BY <1>1, <2>1, MinIsMember
<1>3. parseSSHInfo(cl, port) = info(Min(hits))
  BY <1>1 DEF parseSSHInfo
<1> DEFINE j == Min(hits)
           parts == SpecAt(cl, j)
<1>4. j \in DOMAIN cl /\ sshSpecInfo(parts, port).rport > 0
  BY <1>2
<1>5. /\ proc.program = "ssh" /\ proc.resource = ""
      /\ \E fwd \in proc.forwards : fwd.port = port /\ Specifies(parts, fwd)
  BY <1>4 DEF Truthful, TruthfulSSH
<1>6. PICK fwd \in proc.forwards : fwd.port = port /\ Specifies(parts, fwd)
  BY <1>5
<1>7. SSHEnd(sshSpecInfo(parts, port), fwd)
  BY <1>6 DEF Specifies, sshSpecInfo, SSHEnd
<1> QED
  BY <1>3, <1>5, <1>6, <1>7

(* So with parseKubectlInfo, the resource and the remote port. *)
LEMMA ParsesKubectl ==
  ASSUME NEW proc, Truthful(proc), ClassifyKubectl(proc.cmdline), ~ClassifySSH(proc.cmdline),
         NEW port \in PortsOf(proc), parseKubectlInfo(proc.cmdline, port).rport # 0
  PROVE  /\ proc.program = "kubectl"
         /\ \E fwd \in proc.forwards :
              fwd.port = port /\ KubectlEnd(parseKubectlInfo(proc.cmdline, port), fwd, proc)
<1> DEFINE cl == proc.cmdline
           verbs == {i \in 1..Len(cl) - 1 : cl[i].name = "port-forward"}
           hits == {i \in DOMAIN cl : PairAt(cl[i].parts, port) > 0}
<1>1. hits # {}
  BY DEF parseKubectlInfo
<1>2. Min(hits) \in hits
  <2>1. hits \subseteq Nat
    BY DEF Truthful, Lexical
  <2> QED
    BY <1>1, <2>1, MinIsMember
<1> DEFINE j == Min(hits)
           rport == PairAt(cl[j].parts, port)
<1>3. /\ proc.program = "kubectl"
      /\ \E fwd \in proc.forwards : fwd.port = port /\ fwd.host = "" /\ fwd.rport = rport
      /\ \E v \in 1..Len(cl) - 1 :
           /\ cl[v].name = "port-forward" /\ cl[v + 1].name = proc.resource
           /\ \A w \in 1..Len(cl) - 1 : cl[w].name = "port-forward" => w = v
  BY <1>2 DEF Truthful, TruthfulKubectl
<1>4. PICK v \in 1..Len(cl) - 1 :
        /\ cl[v].name = "port-forward" /\ cl[v + 1].name = proc.resource
        /\ \A w \in 1..Len(cl) - 1 : cl[w].name = "port-forward" => w = v
  BY <1>3
<1>5. verbs = {v} /\ Min(verbs) = v
  <2>1. verbs = {v}
    BY <1>4
  <2>2. verbs \subseteq Nat
    OBVIOUS
  <2> QED
    BY <2>1, <2>2, MinIsMember
<1>6. PICK fwd \in proc.forwards : fwd.port = port /\ fwd.host = "" /\ fwd.rport = rport
  BY <1>3
<1>7. KubectlEnd(parseKubectlInfo(cl, port), fwd, proc)
  BY <1>1, <1>4, <1>5, <1>6 DEF parseKubectlInfo, KubectlEnd
<1> QED
  BY <1>3, <1>6, <1>7

(* A remote end that is reported is that of the forward on this socket. *)
LEMMA ReportsMeant ==
  ASSUME NEW proc, Truthful(proc), classifyCmdline(proc),
         NEW pid, NEW port \in PortsOf(proc),
         PortForward(pid, port, proc.cmdline).rport # 0
  PROVE  \E fwd \in proc.forwards :
           fwd.port = port /\ PortForward(pid, port, proc.cmdline) = AsMeant(pid, fwd, proc)
<1>1. CASE ClassifySSH(proc.cmdline)
  <2> DEFINE info == parseSSHInfo(proc.cmdline, port)
  <2>1. PortForward(pid, port, proc.cmdline) =
          [pid |-> pid, port |-> port, tool |-> "ssh", host |-> info.host,
           resource |-> "", rport |-> info.rport]
    BY <1>1, Zenon DEF PortForward
  <2>2. info.rport # 0
    <3>1. PortForward(pid, port, proc.cmdline).rport = info.rport
      BY <1>1 DEF PortForward
    <3> QED
      BY <3>1
  <2>3. /\ proc.program = "ssh" /\ proc.resource = ""
        /\ \E fwd \in proc.forwards :
             fwd.port = port /\ SSHEnd(info, fwd)
    BY <1>1, <2>2, ParsesSSH
  <2>4. PICK fwd \in proc.forwards :
             fwd.port = port /\ SSHEnd(info, fwd)
    BY <2>3
  <2>5. PortForward(pid, port, proc.cmdline) = AsMeant(pid, fwd, proc)
    BY <2>1, <2>3, <2>4, Zenon DEF AsMeant, SSHEnd
  <2> QED
    BY <2>4, <2>5
<1>2. CASE ~ClassifySSH(proc.cmdline)
  <2> DEFINE info == parseKubectlInfo(proc.cmdline, port)
  <2>1. PortForward(pid, port, proc.cmdline) =
          [pid |-> pid, port |-> port, tool |-> "kubectl", host |-> "",
           resource |-> info.resource, rport |-> info.rport]
    BY <1>2, Zenon DEF PortForward
  <2>2. info.rport # 0 /\ ClassifyKubectl(proc.cmdline)
    <3>1. PortForward(pid, port, proc.cmdline).rport = info.rport
      BY <1>2 DEF PortForward
    <3> QED
      BY <1>2, <3>1 DEF classifyCmdline
  <2>3. /\ proc.program = "kubectl"
        /\ \E fwd \in proc.forwards :
             fwd.port = port /\ KubectlEnd(info, fwd, proc)
    BY <1>2, <2>2, ParsesKubectl
  <2>4. PICK fwd \in proc.forwards :
             fwd.port = port /\ KubectlEnd(info, fwd, proc)
    BY <2>3
  <2>5. PortForward(pid, port, proc.cmdline) = AsMeant(pid, fwd, proc)
    BY <2>1, <2>3, <2>4, Zenon DEF AsMeant, KubectlEnd
  <2> QED
    BY <2>4, <2>5
<1> QED
  BY <1>1, <1>2

(* A forward that its command line spells out is reported as it was meant. *)
LEMMA ReportsSpelled ==
  ASSUME NEW proc, proc # NoProc, Truthful(proc), NEW pid,
         NEW fwd \in proc.forwards, Spelled(proc, fwd)
  PROVE  /\ classifyCmdline(proc)
         /\ PortForward(pid, fwd.port, proc.cmdline) = AsMeant(pid, fwd, proc)
<1> DEFINE cl == proc.cmdline
<1>0. fwd.rport > 0 /\ fwd.port \in PortsOf(proc)
  BY DEF Truthful, PortsOf
<1>1. ASSUME SpelledSSH(proc, fwd)
      PROVE  ClassifySSH(cl) /\ PortForward(pid, fwd.port, cl).rport # 0
  <2>1. PICK i \in DOMAIN cl : Specifies(SpecAt(cl, i), fwd)
    BY <1>1 DEF SpelledSSH
  <2>2. SpecAt(cl, i) # << >>
    <3>1. Len(SpecAt(cl, i)) \in {3, 4}
      BY <2>1 DEF Specifies
    <3>2. Len(<< >>) = 0
      OBVIOUS
    <3> QED
      BY <3>1, <3>2
  <2>3. "-L" \in cl[i].has
    BY <2>2 DEF SpecAt, isSSHCombinedLFlag, Truthful, Lexical
  <2>4. ClassifySSH(cl)
    BY <1>1, <2>3 DEF SpelledSSH, ClassifySSH, Matches
  <2> DEFINE info(k) == sshSpecInfo(SpecAt(cl, k), fwd.port)
             hits == {k \in DOMAIN cl : info(k).rport > 0}
  <2>5. i \in hits
    BY <1>0, <2>1 DEF Specifies, sshSpecInfo
  <2>6. Min(hits) \in hits
    <3>1. hits \subseteq Nat
      BY DEF Truthful, Lexical
    <3> QED
      BY <2>5, <3>1, MinIsMember
  <2>7. parseSSHInfo(cl, fwd.port).rport > 0
    BY <2>5, <2>6 DEF parseSSHInfo
  <2>8. PortForward(pid, fwd.port, cl).rport = parseSSHInfo(cl, fwd.port).rport
    BY <2>4 DEF PortForward
  <2> QED
    BY <2>4, <2>7, <2>8
<1>2. ASSUME SpelledKubectl(proc, fwd)
      PROVE  ClassifyKubectl(cl) /\ PortForward(pid, fwd.port, cl).rport # 0
  <2>1. PICK i \in DOMAIN cl : PairAt(cl[i].parts, fwd.port) = fwd.rport
    BY <1>2 DEF SpelledKubectl
  <2> DEFINE hits == {k \in DOMAIN cl : PairAt(cl[k].parts, fwd.port) > 0}
  <2>2. i \in hits
    BY <1>0, <2>1
  <2>3. Min(hits) \in hits
    <3>1. hits \subseteq Nat
      BY DEF Truthful, Lexical
    <3> QED
      BY <2>2, <3>1, MinIsMember
  <2>4. parseKubectlInfo(cl, fwd.port).rport > 0
    BY <2>2, <2>3 DEF parseKubectlInfo
  <2>5. PortForward(pid, fwd.port, cl).rport = parseKubectlInfo(cl, fwd.port).rport
    BY <1>2 DEF PortForward, SpelledKubectl
  <2> QED
    BY <1>2, <2>4, <2>5 DEF SpelledKubectl
<1>3. classifyCmdline(proc) /\ PortForward(pid, fwd.port, cl).rport # 0
  BY <1>1, <1>2 DEF Spelled, classifyCmdline
<1>4. PICK g \in proc.forwards :
        g.port = fwd.port /\ PortForward(pid, fwd.port, cl) = AsMeant(pid, g, proc)
  BY <1>0, <1>3, ReportsMeant
<1>5. g = fwd
  BY <1>4 DEF Truthful
<1> QED
  BY <1>3, <1>4, <1>5

-----------------------------------------------------------------------------
(* The invariant of a scan.  Its first four parts hold whatever happens to the
   pids; the last two need that no pid is given to another process meanwhile. *)
DataOK ==
  /\ procs \in [Pids -> Procs \cup {NoProc}]
  /\ began \in [Pids -> Procs \cup {NoProc}]
  /\ alive \subseteq Pids

StillThere == \A p \in alive : began[p] # NoProc /\ procs[p] = began[p]

(* What is left to read are sockets of the processes that were listed. *)
Leftover(c) ==
  \E p \in Pids : /\ began[p] # NoProc /\ Listed(began[p])
                  /\ \E port \in PortsOf(began[p]) : c = <<p, port>>

TodoInv == (\A c \in todo : Leftover(c)) /\ (phase = "done" => todo = {})

(* A socket of a process that lasts is still to be read, or its forward found. *)
CompleteInv ==
  \A p \in alive : Listed(began[p]) =>
    \A fwd \in began[p].forwards : Spelled(began[p], fwd) =>
      <<p, fwd.port>> \in todo \/ AsMeant(p, fwd, began[p]) \in result

(* Whatever answers under a pid that was listed is the process that was. *)
SameProcess ==
  phase # "idle" => \A p \in Pids : began[p] # NoProc => procs[p] \in {began[p], NoProc}

SoundInv ==
  \A e \in result :
    LET proc == began[e.pid] IN
    /\ proc # NoProc /\ e.port \in PortsOf(proc)
    /\ e.rport # 0 => \E fwd \in proc.forwards : e = AsMeant(e.pid, fwd, proc)

LastingInv == DataOK /\ StillThere /\ TodoInv /\ CompleteInv
ReportInv == SameProcess /\ SoundInv
ScanInv == LastingInv /\ ReportInv

LEMMA ScanInit == Init => ScanInv
  BY DEF Init, NoProcs, ScanInv, LastingInv, ReportInv, DataOK, StillThere, TodoInv,
         CompleteInv, SameProcess, SoundInv

(* Scan lists the sockets of every process there is. *)
LEMMA ScanBeginsStep ==
  ASSUME LastingInv, ScanBegins
  PROVE  ScanInv'
<1> USE DEF ScanBegins
<1>1. DataOK' /\ StillThere' /\ SameProcess'
  BY DEF LastingInv, DataOK, StillThere, SameProcess, Running
<1>2. \A proc : Listed(proc)' <=> Listed(proc)
  BY DEF Listed
<1>3. TodoInv'
  <2>1. ASSUME NEW c \in todo'
        PROVE  Leftover(c)'
    <3>1. PICK p \in Running : Listed(procs[p]) /\ \E port \in PortsOf(procs[p]) : c = <<p, port>>
      BY <2>1 DEF Candidates
    <3> QED
      BY <1>2, <3>1 DEF Leftover, Running
  <2> QED
    BY <2>1 DEF TodoInv
<1>4. SoundInv'
  BY DEF SoundInv
<1>5. CompleteInv'
  <2>1. ASSUME NEW p \in alive', Listed(began[p])', NEW fwd \in began'[p].forwards
        PROVE  <<p, fwd.port>> \in todo'
    BY <1>2, <2>1 DEF Candidates, PortsOf
  <2> QED
    BY <2>1 DEF CompleteInv
<1> QED
  BY <1>1, <1>3, <1>4, <1>5 DEF ScanInv, LastingInv, ReportInv

(* The reading of one candidate's command line adds what it says of the socket,
   if it is still the process that was listed, and nothing if there is none any
   more. *)
LEMMA ReadsAdd ==
  ASSUME LastingInv, NEW c \in todo, Reads(c)
  PROVE  \E p, port :
           /\ p \in Pids /\ began[p] # NoProc /\ port \in PortsOf(began[p]) /\ c = <<p, port>>
           /\ procs[p] = began[p] =>
                result' = IF classifyCmdline(began[p])
                          THEN result \cup {PortForward(p, port, began[p].cmdline)} ELSE result
           /\ procs[p] = NoProc => result' = result
<1>1. PICK p \in Pids : /\ began[p] # NoProc
                        /\ \E port \in PortsOf(began[p]) : c = <<p, port>>
  BY DEF LastingInv, TodoInv, Leftover
<1>2. PICK port \in PortsOf(began[p]) : c = <<p, port>>
  BY <1>1
<1>3. c[1] = p /\ c[2] = port
  BY <1>2
<1>4. procs[p] = began[p] =>
        result' = IF classifyCmdline(began[p])
                  THEN result \cup {PortForward(p, port, began[p].cmdline)} ELSE result
  BY <1>3 DEF Reads
<1>5. procs[p] = NoProc => result' = result
  BY <1>3 DEF Reads, classifyCmdline
<1> QED
  BY <1>1, <1>2, <1>4, <1>5

(* A lasting process is read as it was listed. *)
LEMMA LastingReads ==
  ASSUME \A proc \in Procs : Truthful(proc), LastingInv, NEW c \in todo, Reads(c)
  PROVE  LastingInv'
<1>1. PICK p, port :
        /\ p \in Pids /\ began[p] # NoProc /\ c = <<p, port>>
        /\ procs[p] = began[p] =>
             result' = IF classifyCmdline(began[p])
                       THEN result \cup {PortForward(p, port, began[p].cmdline)} ELSE result
  BY ReadsAdd
<1>2. UNCHANGED <<os, procs, phase, began, alive>> /\ todo' = todo \ {c}
  BY DEF Reads
<1>3. DataOK' /\ StillThere'
  BY <1>2 DEF LastingInv, DataOK, StillThere
<1>4. TodoInv'
  BY <1>2 DEF LastingInv, TodoInv, Leftover, Listed, Reads
<1>5. CompleteInv'
  <2>1. ASSUME p \in alive, NEW fwd \in began[p].forwards, Spelled(began[p], fwd),
               fwd.port = port
        PROVE  AsMeant(p, fwd, began[p]) \in result'
    <3>1. Truthful(began[p]) /\ procs[p] = began[p]
      BY <1>1, <2>1 DEF LastingInv, DataOK, StillThere
    <3>2. /\ classifyCmdline(began[p])
          /\ PortForward(p, port, began[p].cmdline) = AsMeant(p, fwd, began[p])
      BY <1>1, <2>1, <3>1, ReportsSpelled
    <3> QED
      BY <1>1, <3>1, <3>2
  <2>2. result \subseteq result'
    BY DEF Reads
  <2>3. ASSUME NEW q \in alive', Listed(began[q])', NEW fwd \in began'[q].forwards,
               Spelled(began[q], fwd)'
        PROVE  <<q, fwd.port>> \in todo' \/ AsMeant(q, fwd, began'[q]) \in result'
    <3>1. q \in alive /\ Listed(began[q]) /\ fwd \in began[q].forwards /\ Spelled(began[q], fwd)
      BY <1>2, <2>3 DEF Listed
    <3>2. <<q, fwd.port>> \in todo \/ AsMeant(q, fwd, began[q]) \in result
      BY <3>1 DEF LastingInv, CompleteInv
    <3>3. CASE <<q, fwd.port>> = c
      BY <1>1, <1>2, <2>1, <3>1, <3>3
    <3>4. CASE <<q, fwd.port>> # c
      BY <1>2, <2>2, <3>2, <3>4
    <3> QED
      BY <3>3, <3>4
  <2> QED
    BY <2>3 DEF CompleteInv
<1> QED
  BY <1>3, <1>4, <1>5 DEF LastingInv

(* What the reading of a socket reports is true of that socket. *)
LEMMA ReportReads ==
  ASSUME \A proc \in Procs : Truthful(proc), ScanInv, NEW c \in todo, Reads(c)
  PROVE  ReportInv'
<1> USE DEF ScanInv
<1>1. PICK p, port :
        /\ p \in Pids /\ began[p] # NoProc /\ port \in PortsOf(began[p])
        /\ procs[p] = began[p] =>
             result' = IF classifyCmdline(began[p])
                       THEN result \cup {PortForward(p, port, began[p].cmdline)} ELSE result
        /\ procs[p] = NoProc => result' = result
  BY ReadsAdd
<1>2. procs[p] \in {began[p], NoProc}
  BY <1>1 DEF ReportInv, SameProcess, Reads
<1>3. SameProcess'
  BY DEF ReportInv, SameProcess, Reads
<1>4. SoundInv'
  <2> DEFINE new == PortForward(p, port, began[p].cmdline)
  <2>1. new.pid = p /\ new.port = port
    BY DEF PortForward
  <2>2. ASSUME classifyCmdline(began[p]), new.rport # 0
        PROVE  \E fwd \in began[p].forwards : new = AsMeant(p, fwd, began[p])
    <3>1. Truthful(began[p])
      BY <1>1 DEF LastingInv, DataOK
    <3> QED
      BY <1>1, <2>2, <3>1, ReportsMeant
  <2>3. began' = began
    BY DEF Reads
  <2>4. result' = result \/ (classifyCmdline(began[p]) /\ result' = result \cup {new})
    BY <1>1, <1>2
  <2> HIDE DEF new
  <2> QED
    BY <1>1, <2>1, <2>2, <2>3, <2>4 DEF ReportInv, SoundInv
<1> QED
  BY <1>3, <1>4 DEF ReportInv

(* The other steps: the scan ends, the next one is due, a process starts or ends. *)
Others ==
  \/ ScanEnds \/ NextPoll
  \/ \E pid \in Pids : Exit(pid) \/ \E proc \in Procs : Spawn(pid, proc)
  \/ UNCHANGED vars

LEMMA LastingOthers ==
  ASSUME LastingInv, Others
  PROVE  LastingInv'
<1>1. CASE ScanEnds \/ NextPoll \/ UNCHANGED vars
  BY <1>1 DEF LastingInv, DataOK, StillThere, TodoInv, Leftover, CompleteInv, Listed,
     ScanEnds, NextPoll, vars
<1>2. ASSUME NEW pid \in Pids, Exit(pid)
      PROVE  LastingInv'
  BY <1>2 DEF LastingInv, DataOK, StillThere, TodoInv, Leftover, CompleteInv, Listed,
     Exit, scanVars
<1>3. ASSUME NEW pid \in Pids, NEW proc \in Procs, Spawn(pid, proc)
      PROVE  LastingInv'
  <2>1. pid \notin alive
    BY <1>3 DEF LastingInv, StillThere, Spawn
  <2> QED
    BY <1>3, <2>1 DEF LastingInv, DataOK, StillThere, TodoInv, Leftover, CompleteInv,
       Listed, Spawn, scanVars
<1> QED
  BY <1>1, <1>2, <1>3 DEF Others

LEMMA ReportOthers ==
  ASSUME ReusePids = FALSE, ScanInv, Others
  PROVE  ReportInv'
<1> USE DEF ScanInv, LastingInv, DataOK, ReportInv, SameProcess, SoundInv
<1>1. CASE ScanEnds \/ NextPoll \/ UNCHANGED vars
  BY <1>1 DEF ScanEnds, NextPoll, vars
<1>2. ASSUME NEW pid \in Pids, Exit(pid)
      PROVE  ReportInv'
  BY <1>2 DEF Exit, scanVars
<1>3. ASSUME NEW pid \in Pids, NEW proc \in Procs, Spawn(pid, proc)
      PROVE  ReportInv'
  BY <1>3 DEF Spawn, scanVars
<1> QED
  BY <1>1, <1>2, <1>3 DEF Others

LEMMA LastingInvariance ==
  ASSUME \A proc \in Procs : Truthful(proc)
  PROVE  ScanSpec => []LastingInv
<1>1. Init => LastingInv
  BY ScanInit DEF ScanInv
<1>2. LastingInv /\ [Next]_vars => LastingInv'
  BY ScanBeginsStep, LastingReads, LastingOthers DEF Next, Others, ScanInv
<1> QED
  BY <1>1, <1>2, PTL DEF ScanSpec

LEMMA ScanInvariance ==
  ASSUME ReusePids = FALSE, \A proc \in Procs : Truthful(proc)
  PROVE  ScanSpec => []ScanInv
<1>1. ScanInv /\ [Next]_vars => ScanInv'
  BY ScanBeginsStep, LastingReads, ReportReads, LastingOthers, ReportOthers
     DEF Next, Others, ScanInv
<1> QED
  BY ScanInit, <1>1, PTL DEF ScanSpec

(* While no pid is given to another process, what Scan reports are sockets of
   the processes that were there when it began, and a remote end it reports is
   that of the forward on this socket, whatever processes start and end between
   ss or lsof and the reading of the command lines. *)
THEOREM ScanReportsForwards ==
  ASSUME ReusePids = FALSE, \A proc \in Procs : Truthful(proc)
  PROVE  ScanSpec => []ScanSound
<1>1. ScanInv => ScanSound
  BY DEF ScanInv, ReportInv, SoundInv, ScanSound
<1> QED
  BY <1>1, ScanInvariance, PTL

(* Scan misses no forward that lasts through it, that its command line spells
   out and that ss or lsof shows, even when the pids of processes that ended
   are given to others meanwhile. *)
THEOREM ScanMissesNone ==
  ASSUME \A proc \in Procs : Truthful(proc)
  PROVE  ScanSpec => []ScanComplete
<1>1. ASSUME LastingInv, phase = "done", NEW pid \in alive,
             os = "darwin" \/ began[pid].loopback, NEW fwd \in began[pid].forwards,
             Spelled(began[pid], fwd)
      PROVE  AsMeant(pid, fwd, began[pid]) \in result
  <2>1. Truthful(began[pid])
    BY <1>1 DEF LastingInv, DataOK, StillThere
  <2>2. began[pid].program \in {"ssh", "kubectl"}
    BY <1>1 DEF Spelled, SpelledSSH, SpelledKubectl
  <2>3. Listed(began[pid])
    BY <1>1, <2>1, <2>2 DEF Listed, SsKeeps, LsofKeeps, Truthful, Lexical
  <2> QED
    BY <1>1, <2>3 DEF LastingInv, CompleteInv, TodoInv
<1>2. LastingInv => ScanComplete
  BY <1>1 DEF ScanComplete
<1> QED
  BY <1>2, LastingInvariance, PTL
=============================================================================
