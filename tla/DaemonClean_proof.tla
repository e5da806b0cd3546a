------------------------- MODULE DaemonClean_proof --------------------------
(***************************************************************************)
(* Proofs about the daemon when no call fails and it does not crash:       *)
(* names, records, addresses and proxies stay in step.  Uniqueness of the  *)
(* names needs no such assumption.                                         *)
(***************************************************************************)
EXTENDS Daemon_proof

(* Steps that leave the files and dnsmasq alone, and no entry's line
   without its owner. *)
LEMMA CleanFrame ==
  ASSUME CleanInv,
         UNCHANGED <<conf, hosts, sighup, served>>,
         \A e \in Holders : \E d \in Holders' :
           d.fwd.port = e.fwd.port /\ LineOf(d) = LineOf(e),
         \/ UNCHANGED <<pc, job, active>>
         \/ /\ pc \notin {"hosts", "hostsdata", "reload"}
            /\ pc' \notin {"conf", "confdata", "hosts", "hostsdata", "reload", "drop"},
         RunInv'
  PROVE  CleanInv'
<1> USE DEF CleanInv
<1>1. LinesOf(Holders) \subseteq LinesOf(Holders')
  BY DEF LinesOf
<1>2. (LinesOf(Holders))' = LinesOf(Holders')
  BY DEF LinesOf, LineOf
<1>3. ConfInv'
  <2>1. \A p \in Ports : \A l \in conf[p] :
          \E d \in Holders' : d.fwd.port = p /\ l = LineOf(d)
    BY DEF ConfInv
  <2>2. /\ (pc \in {"conf", "confdata"} => conf[job.fwd.port] = {})'
        /\ (Removing /\ pc \in {"hosts", "hostsdata", "reload", "drop"} =>
              conf[job.fwd.port] = {})'
    BY DEF ConfInv, Removing
  <2> QED BY <2>1, <2>2 DEF ConfInv, LineOf
<1>4. HostsInv'
  BY <1>1, <1>2 DEF HostsInv, HostLines, LinesIn
<1>5. ServedInv'
  BY <1>1, <1>2 DEF ServedInv
<1> QED BY <1>3, <1>4, <1>5

(* A port without an entry has no record. *)
LEMMA NoOwnerNoRecord ==
  ASSUME CleanInv, IInv, NEW p \in Ports, \A e \in Holders : e.fwd.port # p
  PROVE  conf[p] = {}
BY DEF CleanInv, ConfInv

(* A record in the hosts file that is not the job's is another entry's, on
   another port and another address. *)
LEMMA HostLinesOwned ==
  ASSUME CleanInv, IInv PROVE HostLines \subseteq LinesOf(Holders)
BY DEF CleanInv, ConfInv, HostLines, LinesIn, LinesOf

(* dnsmasq rereading the hosts file keeps CleanInv. *)
LEMMA CleanDnsmasq ==
  ASSUME CleanInv, IInv, DnsmasqRereads PROVE CleanInv'
<1> USE DEF CleanInv, DnsmasqRereads, Reread
<1>1. Holders' = Holders /\ (LinesOf(Holders))' = LinesOf(Holders)
  BY DEF Holders, LinesOf, LineOf
<1>2. ConfInv' /\ RunInv'
  BY <1>1 DEF ConfInv, RunInv, Adding, LineOf, Removing
<1>3. HostsInv' /\ ServedInv'
  BY <1>1 DEF HostsInv, ServedInv, HostLines, LinesIn
<1> QED BY <1>2, <1>3

(* Scanning, and going from one job to the next, keeps CleanInv. *)
LEMMA CleanPoll ==
  ASSUME Faults = {}, CleanInv, IInv, IInv', PollStep PROVE CleanInv'
<1> USE DEF CleanInv
<1>1. CASE Tick
  BY <1>1, CleanFrame DEF Tick, dnsVars, Holders, Adding, RunInv
<1>2. CASE Scan
  BY <1>2, CleanFrame DEF Scan, dnsVars, Holders, Adding, RunInv
<1>3. CASE ScanFails
  BY <1>3 DEF ScanFails
<1>4. CASE AddsDone
  BY <1>4, CleanFrame DEF AddsDone, dnsVars, Holders, Adding, RunInv
<1>5. CASE RemovesDone /\ ~stopping
  BY <1>5, CleanFrame DEF RemovesDone, dnsVars, Holders, Adding, RunInv
<1>6. CASE RemovesDone /\ stopping
  <2>1. active = {}
    BY <1>6, NoJobAssumption DEF RemovesDone, RunInv, IInv, JobInv, TypeOK
  <2>2. Holders = {}
    BY <1>6, <2>1 DEF RemovesDone, IInv, JobInv, Holders
  <2> QED BY <1>6, <2>2, CleanFrame DEF RemovesDone, ProcessEnds, dnsVars, Adding, RunInv
<1> QED BY <1>1, <1>2, <1>3, <1>4, <1>5, <1>6 DEF PollStep

(* Each step of add() outside the DNS manager keeps CleanInv. *)
LEMMA CleanAdd ==
  ASSUME Faults = {}, CleanInv, IInv, IInv', AddStep PROVE CleanInv'
<1> USE DEF CleanInv
<1>1. ASSUME NEW f \in Forwards, AddBegins(f) PROVE CleanInv'
  <2>1. PICK ip \in IPs : job' = NewEntry(f, ip)
    BY <1>1 DEF AddBegins
  <2>2. job'.fwd = f
    BY <2>1 DEF NewEntry
  <2>3. Holders \subseteq Holders'
    BY <1>1 DEF AddBegins, IInv, JobInv, Holders
  <2>4. (LinesOf(Holders))' = LinesOf(Holders') /\ LinesOf(Holders) \subseteq LinesOf(Holders')
    BY <2>3 DEF LinesOf, LineOf
  <2>5. conf[f.port] = {}
    <3>1. \A e \in Holders : e.fwd.port # f.port
      BY <1>1 DEF AddBegins, IInv, TodoInv, PortsOf
    <3> QED BY <3>1, NoOwnerNoRecord, ForwardsAssumption
  <2>6. ConfInv'
    BY <1>1, <2>2, <2>3, <2>5 DEF AddBegins, dnsVars, ConfInv, LineOf
  <2>7. HostsInv' /\ ServedInv'
    BY <1>1, <2>4 DEF AddBegins, dnsVars, HostsInv, ServedInv, HostLines, LinesIn
  <2>8. RunInv'
    BY <1>1 DEF AddBegins, IInv, JobInv, Adding, RunInv
  <2> QED BY <2>6, <2>7, <2>8
<1>2. ASSUME NEW f \in Forwards, AddRefused(f) PROVE CleanInv'
  BY <1>2, CleanFrame DEF AddRefused, dnsVars, Holders, Adding, RunInv
<1>3. CASE StartsProxy
  <2>1. /\ job \in Entry /\ job # NoJob /\ Holders = active \cup {job}
    BY <1>3, NoJobAssumption DEF StartsProxy, IInv, JobInv, Adding, TypeOK, Holders
  <2>2. job' \in Entry /\ job'.up /\ job'.fwd = job.fwd /\ LineOf(job') = LineOf(job)
    BY <1>3, <2>1 DEF StartsProxy, Entry, LineOf
  <2>3. UNCHANGED <<active, leaving, stopping, conf, hosts, sighup, served>>
        /\ pc = "proxy" /\ pc' = "record"
    BY <1>3 DEF StartsProxy, dnsVars
  <2>4. Holders' = active \cup {job'}
    BY <2>2, <2>3, NoJobAssumption DEF Holders, IInv, TypeOK
  <2>5. RunInv'
    BY <2>2, <2>3 DEF IInv, JobInv, Adding, RunInv
  <2> QED BY <2>1, <2>2, <2>3, <2>4, <2>5, CleanFrame
<1>4. CASE ProxyFails
  <2>1. job \in Holders /\ AddressInUse
    BY <1>4 DEF ProxyFails, IInv, JobInv, Adding, Holders
  <2>2. PICK k \in listeners : k.ip = job.ip
    BY <2>1 DEF AddressInUse
  <2>3. PICK h \in Holders : ProxyRuns(h) /\ k = Listener(h)
    BY DEF IInv, ListenersOwned
  <2>4. h = job
    BY <2>1, <2>2, <2>3 DEF IInv, PoolAccounted, Listener
  <2> QED BY <1>4, <2>3, <2>4 DEF ProxyFails, ProxyRuns
<1>5. CASE Records
  <2>1. job \in active' /\ active \subseteq active' /\ active' \subseteq active \cup {job}
    BY <1>5, RecordsMaps DEF Records, Put, Deleted, IInv, PoolAccounted
  <2>2. RunInv'
    BY <1>5, <2>1 DEF Records, IInv, JobInv, Adding, RunInv
  <2>3. Holders \subseteq Holders'
    BY <1>5, <2>1 DEF Records, Holders
  <2> QED BY <1>5, <2>2, <2>3, CleanFrame DEF Records, dnsVars
<1> QED BY <1>1, <1>2, <1>3, <1>4, <1>5 DEF AddStep

(* The DNS manager's steps keep CleanInv: they write or drop the record the
   job is about and leave the other entries' lines alone. *)
LEMMA CleanDns ==
  ASSUME Faults = {}, CleanInv, IInv, IInv', DnsStep PROVE CleanInv'
<1> USE DEF CleanInv
<1>0. job # NoJob /\ job \in Entry /\ job \in Holders /\ job.fwd.port \in Ports
      /\ DOMAIN conf = Ports /\ ~DnsCallMayFail
  <2>1. ~DnsCallMayFail
    BY DEF DnsCallMayFail
  <2>2. job \in Entry /\ job # NoJob
    BY <2>1, IInvTypes, NoJobAssumption
    DEF DnsStep, OpensConf, WritesConf, OpensHosts, WritesHosts, Reloads,
        AddFails, DnsRemoveFails, TypeInv
  <2>3. DOMAIN conf = Ports
    BY DEF IInv, TypeOK, DnsTypeOK
  <2> QED BY <2>1, <2>2, <2>3, EntryParts DEF Holders
<1>1. CASE OpensConf
  <2>1. conf' = conf
    BY <1>0, <1>1 DEF OpensConf, TruncateConf, ConfInv, IInv, TypeOK, DnsTypeOK
  <2>2. Holders' = Holders /\ (LinesOf(Holders))' = LinesOf(Holders)
    BY <1>1 DEF OpensConf, Holders, LinesOf, LineOf
  <2>3. ConfInv' /\ HostsInv' /\ ServedInv'
    BY <1>1, <2>1, <2>2 DEF OpensConf, TruncateConf, ConfInv, HostsInv, ServedInv,
       HostLines, LinesIn, LineOf, Removing
  <2>4. RunInv'
    BY <1>1 DEF OpensConf, RunInv, Adding
  <2> QED BY <2>3, <2>4
<1>2. CASE WritesConf
  <2>1. conf' = [conf EXCEPT ![job.fwd.port] = {LineOf(job)}] /\ ~Removing /\ Adding
    BY <1>2 DEF WritesConf, FillConf, IInv, JobInv, Adding, Removing
  <2>2. Holders' = Holders /\ (LinesOf(Holders))' = LinesOf(Holders)
    BY <1>2 DEF WritesConf, Holders, LinesOf, LineOf
  <2>3. ConfInv'
    BY <1>0, <1>2, <2>1, <2>2 DEF WritesConf, ConfInv, LineOf, Removing
  <2>4. HostsInv' /\ ServedInv'
    BY <1>2, <2>2 DEF WritesConf, FillConf, HostsInv, ServedInv
  <2>5. RunInv'
    BY <1>2 DEF WritesConf, RunInv, Adding
  <2> QED BY <2>3, <2>4, <2>5
<1>3. CASE OpensHosts
  <2>2. Holders' = Holders /\ (LinesOf(Holders))' = LinesOf(Holders)
    BY <1>3 DEF OpensHosts, Holders, LinesOf, LineOf
  <2>3. ConfInv' /\ RunInv'
    BY <1>3, <2>2 DEF OpensHosts, TruncateHosts, ConfInv, RunInv, Adding, LineOf, Removing
  <2>4. HostsInv' /\ ServedInv'
    BY <1>3, <2>2 DEF OpensHosts, TruncateHosts, HostsInv, ServedInv
  <2> QED BY <2>3, <2>4
<1>4. CASE WritesHosts
  <2>2. Holders' = Holders /\ (LinesOf(Holders))' = LinesOf(Holders)
    BY <1>4 DEF WritesHosts, Holders, LinesOf, LineOf
  <2>3. ConfInv' /\ RunInv'
    BY <1>4, <2>2 DEF WritesHosts, FillHosts, ConfInv, RunInv, Adding, LineOf, Removing
  <2>4. HostsInv' /\ ServedInv'
    <3>1. Unreadable = {{}}
      BY DEF Unreadable
    <3>2. hosts' = HostLines
      BY <1>4, <3>1 DEF WritesHosts, FillHosts, HostLines
    <3> QED BY <1>4, <2>2, <3>2, HostLinesOwned
        DEF WritesHosts, FillHosts, HostsInv, ServedInv, HostLines, LinesIn
  <2> QED BY <2>3, <2>4
<1>5. CASE Reloads
  <2>2. Holders' = Holders /\ (LinesOf(Holders))' = LinesOf(Holders)
    BY <1>5 DEF Reloads, Holders, LinesOf, LineOf
  <2>3. ConfInv'
    BY <1>5, <2>2 DEF Reloads, reload, ConfInv, LineOf, Removing
  <2>4. HostsInv' /\ ServedInv'
    BY <1>5, <2>2 DEF Reloads, reload, HostsInv, ServedInv, HostLines, LinesIn
  <2>5. RunInv'
    BY <1>5 DEF Reloads, RunInv, Adding
  <2> QED BY <2>3, <2>4, <2>5
<1> QED BY <1>0, <1>1, <1>2, <1>3, <1>4, <1>5 DEF DnsStep, AddFails, DnsRemoveFails

(* Each step of remove() outside the DNS manager keeps CleanInv. *)
LEMMA CleanRemove ==
  ASSUME Faults = {}, CleanInv, IInv, IInv', RemoveStep PROVE CleanInv'
<1> USE DEF CleanInv
<1>1. ASSUME NEW e \in active, RemoveBegins(e) PROVE CleanInv'
  <2>1. Holders' = Holders
    BY <1>1, NoJobAssumption DEF RemoveBegins, Holders, IInv, JobInv, TypeOK
  <2>2. RunInv'
    <3>1. \A d \in active : d # e => d.fwd.port # e.fwd.port
      BY <2>1, <1>1, NoJobAssumption DEF RemoveBegins, IInv, JobInv, PoolAccounted, Holders, TypeOK
    <3> QED BY <1>1, <3>1, NoJobAssumption DEF RemoveBegins, RunInv, Adding, IInv, JobInv, TypeOK
  <2> QED BY <1>1, <2>1, <2>2, CleanFrame DEF RemoveBegins, dnsVars
<1>2. CASE StopsProxy
  BY <1>2, CleanFrame DEF StopsProxy, dnsVars, Holders, RunInv, Adding
<1>3. CASE RemovesConf
  <2>0. job \in active /\ job.fwd.port \in Ports /\ DOMAIN conf = Ports
    BY <1>3, EntryParts DEF RemovesConf, IInv, JobInv, TypeOK, DnsTypeOK
  <2>1. conf' = [conf EXCEPT ![job.fwd.port] = {}]
    BY <1>3 DEF RemovesConf, RemoveConf
  <2>2. Holders' = Holders /\ (LinesOf(Holders))' = LinesOf(Holders)
    BY <1>3 DEF RemovesConf, Holders, LinesOf, LineOf
  <2>3. ConfInv'
    BY <1>3, <2>0, <2>1, <2>2 DEF RemovesConf, ConfInv, LineOf, Removing
  <2>4. HostsInv' /\ ServedInv'
    BY <1>3, <2>2 DEF RemovesConf, RemoveConf, HostsInv, ServedInv
  <2>5. RunInv'
    BY <1>3 DEF RemovesConf, RunInv, Adding
  <2> QED BY <2>3, <2>4, <2>5
<1>4. CASE Drops
  <2>1. /\ job \in active /\ job \in Entry /\ Holders = active /\ job # NoJob
        /\ job \in Holders /\ conf[job.fwd.port] = {}
    BY <1>4, NoJobAssumption
    DEF Drops, IInv, JobInv, TypeOK, Holders, ConfInv, Removing
  <2>2. active' = active \ {job} /\ Holders' = active'
    BY <1>4, <2>1, DropsUnmaps, NoJobAssumption
    DEF Drops, IInv, PoolAccounted, Holders, TypeOK
  <2>3. ASSUME NEW p \in Ports, NEW l \in conf[p]
        PROVE  \E e \in Holders' : e.fwd.port = p /\ l = LineOf(e)
    <3>1. PICK e \in Holders : e.fwd.port = p /\ l = LineOf(e)
      BY <2>3 DEF ConfInv
    <3>2. e # job
      BY <2>1, <2>3, <3>1
    <3> QED BY <2>1, <2>2, <3>1, <3>2
  <2>4. ConfInv'
    BY <1>4, <2>3 DEF Drops, dnsVars, ConfInv, LineOf
  <2>5. HostLines \subseteq LinesOf(Holders') /\ (LinesOf(Holders))' = LinesOf(Holders')
    BY <2>3 DEF HostLines, LinesIn, LinesOf, LineOf
  <2>6. HostsInv' /\ ServedInv'
    BY <1>4, <2>5 DEF Drops, dnsVars, HostsInv, ServedInv, HostLines, LinesIn
  <2>7. RunInv'
    BY <1>4, <2>2 DEF Drops, RunInv, Adding
  <2> QED BY <2>4, <2>6, <2>7
<1> QED BY <1>1, <1>2, <1>3, <1>4 DEF RemoveStep

(* Without faults every step keeps CleanInv. *)
LEMMA CleanStep ==
  ASSUME Faults = {} PROVE CleanInv /\ IInv /\ IInv' /\ [Next]_vars => CleanInv'
<1> SUFFICES ASSUME CleanInv, IInv, IInv', [Next]_vars PROVE CleanInv'
  OBVIOUS
<1>1. CASE UNCHANGED vars
  BY <1>1, CleanFrame DEF vars, Holders, CleanInv, RunInv, Adding
<1>2. CASE Environment
  BY <1>2, CleanFrame, CleanDnsmasq
  DEF Environment, Listen, Exit, dnsVars, Holders, CleanInv, RunInv, Adding
<1>3. CASE Start \/ Signal
  BY <1>3, CleanFrame
  DEF Start, Signal, dnsVars, Holders, CleanInv, RunInv, Adding, IInv, JobInv, PortsOf
<1>4. CASE Crash
  BY <1>4 DEF Crash
<1>5. CASE DaemonStep
  BY <1>5, CleanPoll, CleanAdd, CleanDns, CleanRemove DEF DaemonStep
<1> QED BY <1>1, <1>2, <1>3, <1>4, <1>5 DEF Next

(* A fresh daemon owns no record, entry or listener. *)
LEMMA CleanInit == Init => CleanInv
<1> SUFFICES ASSUME Init PROVE CleanInv
  OBVIOUS
<1>1. HostLines = {}
  BY DEF Init, DnsInit, HostLines, LinesIn
<1> QED BY <1>1 DEF Init, DnsInit, CleanInv, ConfInv, HostsInv, ServedInv, RunInv, Adding

(* CleanInv is inductive relative to IInv. *)
LEMMA CleanInvariance == ASSUME Faults = {} PROVE Spec => [](IInv /\ CleanInv)
BY CleanInit, CleanStep, Invariance, PTL DEF Spec

(* A name leads to its own forward's proxy, never to another's, once dnsmasq
   has handled its last SIGHUP. *)
THEOREM NamesAlwaysLeadHome == ASSUME Faults = {} PROVE Spec => []NamesLeadHome
<1>1. IInv /\ CleanInv => NamesLeadHome
  <2> SUFFICES ASSUME IInv, CleanInv, ~sighup, NEW l \in served, NEW k \in listeners,
                      l.ip = k.ip
               PROVE  \E e \in Holders : l = LineOf(e) /\ k = Listener(e)
    BY DEF NamesLeadHome
  <2>1. PICK e \in Holders : l = LineOf(e)
    BY DEF CleanInv, ServedInv, LinesOf
  <2>2. PICK h \in Holders : k = Listener(h)
    BY DEF IInv, ListenersOwned
  <2>3. e = h
    BY <2>1, <2>2 DEF IInv, PoolAccounted, LineOf, Listener
  <2> QED BY <2>1, <2>2, <2>3
<1> QED BY <1>1, CleanInvariance, PTL

(* Between polls, once dnsmasq has caught up, names resolve to exactly what
   clients list. *)
THEOREM AlwaysSettledServesAll == ASSUME Faults = {} PROVE Spec => []SettledServesAll
<1>1. IInv /\ CleanInv => SettledServesAll
  <2> SUFFICES ASSUME IInv, CleanInv, pc = "idle", ~sighup PROVE served = LinesOf(store)
    BY DEF SettledServesAll
  <2>1. Holders = active /\ store = active /\ job = NoJob
    BY NoJobAssumption DEF IInv, JobInv, TypeOK, Holders, PoolAccounted
  <2>2. served = HostLines
    BY DEF CleanInv, ServedInv, HostsInv
  <2>3. HostLines \subseteq LinesOf(store)
    BY <2>1, HostLinesOwned
  <2>4. LinesOf(store) \subseteq HostLines
    <3>1. \A e \in active : conf[e.fwd.port] = {LineOf(e)} /\ e.fwd.port \in Ports
      BY <2>1, EntryParts, NoJobAssumption DEF IInv, RecordsPresent, TypeOK
    <3> QED BY <2>1, <3>1 DEF LinesOf, HostLines, LinesIn
  <2> QED BY <2>2, <2>3, <2>4
<1> QED BY <1>1, CleanInvariance, PTL

(* Every proxy starts. *)
THEOREM ProxiesAlwaysUp == ASSUME Faults = {} PROVE Spec => []AllProxiesUp
<1>1. IInv /\ CleanInv => AllProxiesUp
  BY DEF IInv, PoolAccounted, CleanInv, RunInv, AllProxiesUp
<1> QED BY <1>1, CleanInvariance, PTL

(* A daemon that was stopped leaves no record. *)
THEOREM AlwaysCleanShutdown == ASSUME Faults = {} PROVE Spec => []CleanShutdown
<1>1. IInv /\ CleanInv => CleanShutdown
  <2> SUFFICES ASSUME IInv, CleanInv, pc = "down" PROVE hosts = {} /\ HostLines = {}
    BY DEF CleanShutdown
  <2>1. Holders = {}
    BY DEF IInv, JobInv, CleanInv, RunInv, Holders
  <2> QED BY <2>1, HostLinesOwned DEF CleanInv, HostsInv, LinesOf
<1> QED BY <1>1, CleanInvariance, PTL

-----------------------------------------------------------------------------
(* Names, whatever fails. *)

(* Steps in which no entry is new, or the job changes no name. *)
LEMMA NameFrame ==
  ASSUME NameInv, Holders' \subseteq Holders PROVE NameInv'
BY DEF NameInv

(* Every step keeps the names apart. *)
LEMMA NameStep ==
  ASSUME SuffixesDistinct PROVE IInv /\ IInv' /\ NameInv /\ [Next]_vars => NameInv'
<1> SUFFICES ASSUME IInv, IInv', NameInv, [Next]_vars PROVE NameInv'
  OBVIOUS
<1>1. CASE Environment \/ Start \/ Signal \/ Crash \/ UNCHANGED vars
  BY <1>1, NameFrame DEF Environment, Listen, Exit, DnsmasqRereads, Start, Signal,
                         Crash, ProcessEnds, vars, Holders
<1>2. CASE PollStep
  BY <1>2, NameFrame DEF PollStep, Tick, Scan, ScanFails, AddsDone, RemovesDone,
                         ProcessEnds, Holders
<1>3. ASSUME NEW f \in Forwards, AddBegins(f) PROVE NameInv'
  <2>1. PICK ip \in IPs : job' = NewEntry(f, ip)
    BY <1>3 DEF AddBegins
  <2>2. job'.fwd = f /\ job'.name = Generate(f, ActiveNames)
    BY <2>1 DEF NewEntry
  <2>3. Holders = active /\ Holders' \subseteq active \cup {job'}
    BY <1>3, NoJobAssumption DEF AddBegins, IInv, JobInv, TypeOK, Holders
  <2>4. ASSUME NEW e \in active PROVE e.name # job'.name
    <3>1. f.port # e.fwd.port /\ e.fwd \in Forwards
      BY <1>3, <2>3, EntryParts DEF AddBegins, IInv, TodoInv, TypeOK, PortsOf
    <3>2. e.name \in {PlainName(e.fwd), SuffixedName(e.fwd)}
      BY <2>3 DEF NameInv
    <3>3. SuffixedName(f) # e.name
      BY <3>1, <3>2 DEF SuffixesDistinct
    <3>4. CASE PlainName(f) \in ActiveNames
      BY <2>2, <3>3, <3>4 DEF Generate
    <3>5. CASE PlainName(f) \notin ActiveNames
      BY <2>2, <3>5 DEF Generate, ActiveNames
    <3> QED BY <3>4, <3>5
  <2> QED BY <2>2, <2>3, <2>4, GenerateInNames DEF NameInv
<1>4. CASE StartsProxy
  <2>1. job \in Entry /\ job # NoJob /\ Holders = active \cup {job}
    BY <1>4, NoJobAssumption DEF StartsProxy, IInv, JobInv, Adding, TypeOK, Holders
  <2>2. job'.fwd = job.fwd /\ job'.name = job.name /\ active' = active
    BY <1>4, <2>1 DEF StartsProxy, Entry
  <2>3. Holders' \subseteq active \cup {job'} /\ job \notin active
    BY <1>4, <2>2 DEF StartsProxy, Holders, IInv, JobInv, Adding
  <2> QED BY <2>1, <2>2, <2>3 DEF NameInv
<1>5. CASE Records
  <2>1. active' \subseteq Holders /\ job' = NoJob
    BY <1>5, NoJobAssumption
    DEF Records, Put, Deleted, IInv, JobInv, Adding, TypeOK, Holders
  <2> QED BY <2>1, NameFrame DEF Holders
<1>6. CASE ProxyFails \/ \E f \in Forwards : AddRefused(f)
  BY <1>6, NameFrame DEF ProxyFails, AddRefused, Holders
<1>7. CASE DnsStep
  BY <1>7, NameFrame DEF DnsStep, OpensConf, WritesConf, OpensHosts, WritesHosts,
                         Reloads, AddFails, DnsRemoveFails, Holders
<1>8. CASE RemoveStep
  <2>1. Holders' \subseteq Holders
    BY <1>8 DEF RemoveStep, RemoveBegins, StopsProxy, RemovesConf, Drops, Deleted, Holders
  <2> QED BY <2>1, NameFrame
<1> QED BY <1>1, <1>2, <1>3, <1>4, <1>5, <1>6, <1>7, <1>8 DEF Next, DaemonStep, AddStep

(* Names are unique when no two forwards' suffixed names coincide. *)
THEOREM DomainsAlwaysUnique ==
  ASSUME SuffixesDistinct PROVE Spec => []UniqueDomains
<1>1. Init => NameInv
  BY DEF Init, NameInv, Holders
<1>2. Spec => []NameInv
  BY <1>1, NameStep, Invariance, PTL DEF Spec
<1>3. IInv /\ NameInv => UniqueDomains
  <2>1. IInv => store \subseteq Holders
    BY NoJobAssumption DEF IInv, PoolAccounted, TypeOK, Holders
  <2> QED BY <2>1 DEF NameInv, UniqueDomains
<1> QED BY <1>2, <1>3, Invariance, PTL

(* The cut never applies to names that fit: the suffix survives, so that
   suffixed names differ in their last word. *)
LEMMA FittingNames ==
  ASSUME NEW Word, NEW f \in Forwards, baseIdentifier(f) \in Seq(Word),
         Len(baseIdentifier(f)) + 2 <= MaxWords
  PROVE  LET n == Len(baseIdentifier(f))
         IN  /\ Len(PlainName(f)) = n + 1
             /\ PlainName(f)[n + 1] = serviceLabel(f.rport)
             /\ Len(SuffixedName(f)) = n + 2
             /\ SuffixedName(f)[n + 2] = <<"num", f.port>>
<1> DEFINE b == baseIdentifier(f)
<1> DEFINE w == serviceLabel(f.rport)
<1> DEFINE q == <<"num", f.port>>
<1>0. b \in Seq(Word \cup {w, q}) /\ Len(b) \in Nat /\ MaxWords \in Nat
  BY ForwardsAssumption
<1> HIDE DEF b, w, q
<1>1. Len(Append(b, w)) = Len(b) + 1 /\ Append(b, w)[Len(b) + 1] = w
  BY <1>0
<1>2. Len(b \o <<w, q>>) = Len(b) + 2 /\ (b \o <<w, q>>)[Len(b) + 2] = q
  BY <1>0
<1>3. Len(b) + 2 <= MaxWords
  BY DEF b
<1>4. sanitize(Append(b, w)) = Append(b, w) /\ sanitize(b \o <<w, q>>) = b \o <<w, q>>
  BY <1>0, <1>1, <1>2, <1>3 DEF sanitize
<1> QED BY <1>1, <1>2, <1>4 DEF b, w, q, PlainName, SuffixedName

(* A service label is never a number. *)
LEMMA LabelNotSuffix ==
  ASSUME NEW n, NEW p PROVE serviceLabel(n) # <<"num", p>>
BY DEF serviceLabel

(* Names that fit in their labels are unique. *)
THEOREM FittingNamesUnique ==
  ASSUME NEW Word, NamesFit, \A f \in Forwards : baseIdentifier(f) \in Seq(Word)
  PROVE  Spec => []UniqueDomains
<1>1. SuffixesDistinct
  <2> SUFFICES ASSUME NEW f \in Forwards, NEW g \in Forwards, f.port # g.port
               PROVE  SuffixedName(f) # SuffixedName(g) /\ SuffixedName(f) # PlainName(g)
    BY DEF SuffixesDistinct
  <2>1. Len(baseIdentifier(f)) \in Nat /\ Len(baseIdentifier(g)) \in Nat
    OBVIOUS
  <2>2. /\ Len(SuffixedName(f)) = Len(baseIdentifier(f)) + 2
        /\ SuffixedName(f)[Len(baseIdentifier(f)) + 2] = <<"num", f.port>>
    BY FittingNames DEF NamesFit
  <2>3. /\ Len(SuffixedName(g)) = Len(baseIdentifier(g)) + 2
        /\ SuffixedName(g)[Len(baseIdentifier(g)) + 2] = <<"num", g.port>>
        /\ Len(PlainName(g)) = Len(baseIdentifier(g)) + 1
        /\ PlainName(g)[Len(baseIdentifier(g)) + 1] = serviceLabel(g.rport)
    BY FittingNames DEF NamesFit
  <2>4. SuffixedName(f) # SuffixedName(g)
    BY <2>1, <2>2, <2>3
  <2>5. SuffixedName(f) # PlainName(g)
    BY <2>1, <2>2, <2>3, LabelNotSuffix
  <2> QED BY <2>4, <2>5
<1> QED BY <1>1, DomainsAlwaysUnique
=============================================================================
