---------------------------- MODULE Daemon_proof ----------------------------
(***************************************************************************)
(* Proofs about the daemon, for every set of forwards, every configuration *)
(* and every pool size, whatever fails and wherever the daemon crashes.    *)
(***************************************************************************)
EXTENDS DaemonProps, TLAPS

(* Generate answers one of the two names a forward can have. *)
LEMMA GenerateInNames ==
  ASSUME NEW f \in Forwards, NEW S
  PROVE  /\ Generate(f, S) \in {PlainName(f), SuffixedName(f)}
         /\ Generate(f, S) \in Names
BY DEF Generate, Names

(* A new entry is an entry. *)
LEMMA NewEntryType ==
  ASSUME NEW f \in Forwards, NEW ip \in IPs
  PROVE  NewEntry(f, ip) \in Entry
BY GenerateInNames DEF NewEntry, Entry

(* The types of an entry's fields. *)
LEMMA EntryParts ==
  ASSUME NEW e \in Entry
  PROVE  /\ e.fwd \in Forwards
         /\ e.fwd.port \in Ports
         /\ LineOf(e) \in Line
         /\ e.ip \in IPs
BY ForwardsAssumption DEF Entry, LineOf, Line

(* Type correctness needs to know that a step that works on the job has
   one. *)
TypeInv == TypeOK /\ (pc \in {"conf", "confdata", "hosts", "hostsdata",
                              "reload", "proxy", "record", "stop", "unconf",
                              "drop"} => job \in Entry)

(* The initial state is well typed. *)
LEMMA TypeInit == Init => TypeInv
BY NoJobAssumption DEF Init, TypeInv, TypeOK, DnsTypeOK, AllocInit, DnsInit, Locations

(* Every step is well typed. *)
LEMMA TypeStep == TypeInv /\ [Next]_vars => TypeInv'
<1> SUFFICES ASSUME TypeInv, [Next]_vars PROVE TypeInv'
  OBVIOUS
<1> USE DEF TypeInv, TypeOK, DnsTypeOK
<1>1. CASE UNCHANGED vars
  BY <1>1 DEF vars
<1>2. ASSUME NEW f \in Forwards, Listen(f) PROVE TypeInv'
  BY <1>2 DEF Listen, dnsVars
<1>3. ASSUME NEW f \in Forwards, Exit(f) PROVE TypeInv'
  BY <1>3 DEF Exit, dnsVars
<1>4. CASE DnsmasqRereads
  BY <1>4 DEF DnsmasqRereads, Reread
<1>5. CASE Start
  BY <1>5, CertLoadsAssumption DEF Start, dnsVars, Locations
<1>6. CASE Signal
  <2>1. PortsOf(active) \subseteq Ports
    BY EntryParts DEF PortsOf
  <2> QED BY <1>6, <2>1 DEF Signal, dnsVars, Locations
<1>7. ASSUME ProcessEnds PROVE TypeInv'
  BY <1>7 DEF ProcessEnds, dnsVars, Locations
<1>8. CASE Crash
  BY <1>7, <1>8 DEF Crash
<1>9. CASE PollStep
  <2>1. CASE Tick
    BY <2>1 DEF Tick, dnsVars, Locations
  <2>2. CASE Scan
    <3>1. PortsOf(active) \subseteq Ports
      BY EntryParts DEF PortsOf
    <3> QED BY <2>2, <3>1 DEF Scan, OnePerPort, dnsVars, Locations
  <2>3. CASE ScanFails
    BY <2>3 DEF ScanFails, dnsVars, Locations
  <2>4. CASE AddsDone
    BY <2>4 DEF AddsDone, dnsVars, Locations
  <2>5. CASE RemovesDone
    BY <2>5, <1>7 DEF RemovesDone, dnsVars, Locations
  <2> QED BY <1>9, <2>1, <2>2, <2>3, <2>4, <2>5 DEF PollStep
<1>10. CASE AddStep
  <2>1. ASSUME NEW f \in Forwards, AddBegins(f) PROVE TypeInv'
    <3>1. PICK ip \in IPs : Allocate(ip) /\ job' = NewEntry(f, ip)
      BY <2>1 DEF AddBegins
    <3>2. job' \in Entry
      BY <3>1, NewEntryType
    <3>3. used' \subseteq IPs
      BY <3>1 DEF Allocate
    <3> QED BY <2>1, <3>2, <3>3 DEF AddBegins, dnsVars, Locations
  <2>2. ASSUME NEW f \in Forwards, AddRefused(f) PROVE TypeInv'
    BY <2>2 DEF AddRefused, dnsVars
  <2>3. CASE StartsProxy
    <3>1. job \in Entry /\ job' \in Entry
      BY <2>3 DEF StartsProxy, Entry
    <3> QED BY <2>3, <3>1 DEF StartsProxy, dnsVars, Locations
  <2>4. CASE ProxyFails
    BY <2>4 DEF ProxyFails, dnsVars, Locations
  <2>5. CASE Records
    BY <2>5 DEF Records, Put, Deleted, dnsVars, Locations
  <2> QED BY <1>10, <2>1, <2>2, <2>3, <2>4, <2>5 DEF AddStep
<1>11. CASE DnsStep
  <2>1. CASE OpensConf
    BY <2>1 DEF OpensConf, TruncateConf, Locations
  <2>2. CASE WritesConf
    <3>1. LineOf(job) \in Line
      BY <2>2, EntryParts DEF WritesConf
    <3> QED BY <2>2, <3>1 DEF WritesConf, FillConf, Locations
  <2>3. CASE OpensHosts
    BY <2>3 DEF OpensHosts, TruncateHosts, Locations
  <2>4. CASE WritesHosts
    BY <2>4 DEF WritesHosts, FillHosts, Unreadable, LinesIn, Locations
  <2>5. CASE Reloads
    BY <2>5 DEF Reloads, reload, Locations
  <2>6. CASE AddFails
    BY <2>6 DEF AddFails, Free, dnsVars, Locations
  <2>7. CASE DnsRemoveFails
    BY <2>7 DEF DnsRemoveFails, DnsCallMayFail, dnsVars, Locations
  <2> QED BY <1>11, <2>1, <2>2, <2>3, <2>4, <2>5, <2>6, <2>7 DEF DnsStep
<1>12. CASE RemoveStep
  <2>1. ASSUME NEW e \in active, RemoveBegins(e) PROVE TypeInv'
    BY <2>1 DEF RemoveBegins, dnsVars, Locations
  <2>2. CASE StopsProxy
    BY <2>2 DEF StopsProxy, dnsVars, Locations
  <2>3. CASE RemovesConf
    BY <2>3 DEF RemovesConf, RemoveConf, Locations
  <2>4. CASE Drops
    BY <2>4 DEF Drops, Free, Deleted, dnsVars, Locations
  <2> QED BY <1>12, <2>1, <2>2, <2>3, <2>4 DEF RemoveStep
<1> QED
  BY <1>1, <1>2, <1>3, <1>4, <1>5, <1>6, <1>8, <1>9, <1>10, <1>11, <1>12
  DEF Next, Environment, DaemonStep

(* Every variable keeps its type. *)
THEOREM TypeCorrect == Spec => []TypeOK
<1>1. TypeInv => TypeOK
  BY DEF TypeInv
<1> QED BY TypeInit, TypeStep, <1>1, PTL DEF Spec

-----------------------------------------------------------------------------
(* The inductive invariant. *)

(* Initially the whole pool is free and nothing is active. *)
LEMMA IInvInit == Init => IInv
<1> SUFFICES ASSUME Init PROVE IInv
  OBVIOUS
<1>1. TypeOK
  BY TypeInit DEF TypeInv
<1>2. Holders = {}
  BY DEF Init, Holders
<1>3. PoolAccounted /\ ListenersOwned /\ RecordsPresent
  BY <1>2 DEF Init, AllocInit, PoolAccounted, ListenersOwned, RecordsPresent
<1>4. JobInv /\ TodoInv /\ AddInv
  BY DEF Init, JobInv, TodoInv, AddInv, Adding
<1> QED BY <1>1, <1>3, <1>4 DEF IInv

(* JobInv says where the job of TypeInv comes from. *)
LEMMA IInvTypes == IInv => TypeInv
BY NoJobAssumption DEF IInv, TypeInv, TypeOK, JobInv, Adding

(* Steps that leave entries, addresses, listeners, files and job alone. *)
LEMMA IInvFrame ==
  ASSUME IInv, TypeOK',
         UNCHANGED <<job, active, store, used, listeners, conf, hosts, unread>>,
         UNCHANGED <<sighup, served>> \/ served' = hosts',
         todo' \subseteq todo \/ TodoInv',
         \/ pc' = pc
         \/ /\ pc \in {"down", "idle", "scan", "adds", "removes"}
            /\ pc' \in {"down", "idle", "scan", "adds", "removes"}
  PROVE  IInv'
<1> USE DEF IInv
<1>1. Holders' = Holders
  BY DEF Holders
<1>2. PoolAccounted'
  BY <1>1 DEF PoolAccounted
<1>3. ListenersOwned'
  <2>1. NoJob \notin Holders
    BY DEF Holders
  <2>2. \A h \in Holders : ProxyRuns(h)' <=> ProxyRuns(h)
    BY <2>1 DEF ProxyRuns, JobInv
  <2> QED BY <1>1, <2>2 DEF ListenersOwned, Listener
<1>4. RecordsPresent'
  BY DEF RecordsPresent, LineOf
<1>5. JobInv' /\ AddInv'
  BY DEF JobInv, AddInv, Adding, LineOf
<1>6. TodoInv'
  BY <1>1 DEF TodoInv, PortsOf
<1> QED BY <1>2, <1>3, <1>4, <1>5, <1>6

(* The end of the process, by signal or crash, frees everything it held. *)
LEMMA IInvEnds == ASSUME ProcessEnds, TypeOK' PROVE IInv'
<1>1. Holders' = {}
  BY DEF ProcessEnds, Holders
<1>2. PoolAccounted' /\ ListenersOwned' /\ RecordsPresent'
  BY <1>1 DEF ProcessEnds, PoolAccounted, ListenersOwned, RecordsPresent
<1>3. JobInv' /\ TodoInv' /\ AddInv'
  BY DEF ProcessEnds, JobInv, TodoInv, AddInv, Adding
<1> QED BY <1>2, <1>3 DEF IInv

(* Scanning, and going from one job to the next, keeps IInv. *)
LEMMA IInvPoll == ASSUME IInv, TypeOK', PollStep PROVE IInv'
<1>1. CASE Tick
  BY <1>1, IInvFrame DEF Tick, dnsVars
<1>2. CASE Scan
  <2>1. job = NoJob
    BY <1>2 DEF Scan, IInv, JobInv
  <2>2. Holders' \subseteq active
    BY <1>2, <2>1 DEF Scan, Holders
  <2>3. TodoInv'
    BY <1>2, <2>2 DEF Scan, OnePerPort, TodoInv, PortsOf
  <2> QED BY <1>2, <2>3, IInvFrame DEF Scan, dnsVars
<1>3. CASE ScanFails
  BY <1>3, IInvFrame DEF ScanFails, dnsVars
<1>4. CASE AddsDone
  BY <1>4, IInvFrame DEF AddsDone, dnsVars
<1>5. CASE RemovesDone
  BY <1>5, IInvFrame, IInvEnds DEF RemovesDone, dnsVars
<1> QED BY <1>1, <1>2, <1>3, <1>4, <1>5 DEF PollStep

(* The DNS steps: entries and addresses stay, pc moves on. *)
LEMMA IInvDnsFrame ==
  ASSUME IInv, TypeOK', job # NoJob, pc # "record", pc # "stop",
         UNCHANGED <<job, active, store, used, listeners, todo>>,
         pc' \notin {"record", "stop"},
         RecordsPresent', JobInv', AddInv'
  PROVE  IInv'
<1>1. Holders' = Holders
  BY DEF Holders
<1>2. PoolAccounted' /\ TodoInv'
  BY <1>1 DEF IInv, PoolAccounted, TodoInv, PortsOf
<1>3. \A h \in Holders : ProxyRuns(h)' <=> ProxyRuns(h)
  BY DEF ProxyRuns
<1>4. ListenersOwned'
  BY <1>1, <1>3 DEF IInv, ListenersOwned, Listener
<1> QED BY <1>2, <1>4 DEF IInv

(* The state file of the job's port is no active entry's but its own. *)
LEMMA OthersRecords ==
  ASSUME IInv, job \in Entry, NEW S,
         conf' = [conf EXCEPT ![job.fwd.port] = S], UNCHANGED <<job, active>>
  PROVE  RecordsPresent' /\ conf'[job.fwd.port] = S
<1>1. job.fwd.port \in Ports /\ job \in Holders
  BY EntryParts, NoJobAssumption DEF Holders
<1>2. DOMAIN conf = Ports
  BY DEF IInv, TypeOK, DnsTypeOK
<1>3. ASSUME NEW e \in active, e # job
      PROVE  e.fwd.port \in Ports /\ e.fwd.port # job.fwd.port
  <2>1. e \in Entry /\ e \in Holders
    BY NoJobAssumption DEF IInv, TypeOK, Holders
  <2> QED BY <1>1, <1>3, <2>1, EntryParts DEF IInv, PoolAccounted
<1> QED BY <1>1, <1>2, <1>3 DEF IInv, RecordsPresent, LineOf

(* The DNS manager's steps touch neither pool nor proxies. *)
LEMMA IInvDns == ASSUME IInv, TypeOK', DnsStep PROVE IInv'
<1> DEFINE DnsLocs == {"conf", "confdata", "hosts", "hostsdata", "reload", "unconf"}
<1>0. pc \in DnsLocs => job \in Entry
  BY IInvTypes DEF TypeInv
<1>1. CASE OpensConf
  <2>1. RecordsPresent'
    BY <1>0, <1>1, OthersRecords DEF OpensConf, TruncateConf
  <2>2. JobInv' /\ AddInv'
    BY <1>1 DEF OpensConf, IInv, JobInv, AddInv, Adding
  <2> QED BY <1>0, <1>1, <2>1, <2>2, NoJobAssumption, IInvDnsFrame DEF OpensConf
<1>2. CASE WritesConf
  <2>1. RecordsPresent' /\ conf'[job.fwd.port] = {LineOf(job)}
    BY <1>0, <1>2, OthersRecords DEF WritesConf, FillConf
  <2>2. JobInv' /\ AddInv'
    BY <1>2, <2>1 DEF WritesConf, IInv, JobInv, AddInv, Adding, LineOf
  <2> QED BY <1>0, <1>2, <2>1, <2>2, NoJobAssumption, IInvDnsFrame DEF WritesConf
<1>3. CASE OpensHosts
  <2>1. RecordsPresent' /\ JobInv' /\ AddInv'
    BY <1>3 DEF OpensHosts, TruncateHosts, IInv, RecordsPresent, JobInv, AddInv,
                Adding, LineOf
  <2> QED BY <1>0, <1>3, <2>1, NoJobAssumption, IInvDnsFrame DEF OpensHosts
<1>4. CASE WritesHosts
  <2>1. RecordsPresent' /\ JobInv'
    BY <1>4 DEF WritesHosts, FillHosts, IInv, RecordsPresent, JobInv, Adding, LineOf
  <2>2. Adding => LineOf(job) \in LinesIn(Ports \ unread') \/ job.fwd.port \in unread'
    BY <1>0, <1>4, EntryParts DEF WritesHosts, IInv, AddInv, LinesIn
  <2>3. AddInv'
    BY <1>4, <2>2 DEF WritesHosts, FillHosts, IInv, AddInv, Adding, LineOf
  <2> QED BY <1>0, <1>4, <2>1, <2>3, NoJobAssumption, IInvDnsFrame DEF WritesHosts
<1>5. CASE Reloads
  <2>1. RecordsPresent' /\ JobInv' /\ AddInv'
    BY <1>5 DEF Reloads, reload, IInv, RecordsPresent, JobInv, AddInv, Adding,
                Removing, LineOf
  <2> QED BY <1>0, <1>5, <2>1, NoJobAssumption, IInvDnsFrame DEF Reloads
<1>6. CASE DnsRemoveFails
  <2>1. RecordsPresent' /\ JobInv' /\ AddInv'
    BY <1>6 DEF DnsRemoveFails, dnsVars, IInv, RecordsPresent, JobInv, AddInv,
                Adding, Removing, LineOf
  <2>2. pc \in DnsLocs
    BY <1>6 DEF DnsRemoveFails, DnsCallMayFail
  <2> QED BY <1>0, <1>6, <2>1, <2>2, NoJobAssumption, IInvDnsFrame DEF DnsRemoveFails
<1>7. CASE AddFails
  <2>1. pc \in DnsLocs /\ job \in Entry /\ job \notin active /\ job \in Holders
    BY <1>0, <1>7, NoJobAssumption DEF AddFails, DnsCallMayFail, Removing, Holders
  <2>2. Holders' = Holders \ {job} /\ Holders' = active
    BY <1>7, <2>1, NoJobAssumption DEF AddFails, Holders, IInv, TypeOK
  <2>3. PoolAccounted'
    BY <1>7, <2>1, <2>2 DEF AddFails, Free, IInv, PoolAccounted
  <2>4. ListenersOwned'
    <3>1. \A h \in Holders' : ProxyRuns(h)' <=> ProxyRuns(h)
      BY <1>7, <2>1, <2>2, NoJobAssumption DEF AddFails, ProxyRuns, IInv, TypeOK
    <3>2. ~ProxyRuns(job)
      BY <2>1 DEF ProxyRuns
    <3> QED BY <1>7, <2>2, <3>1, <3>2 DEF AddFails, IInv, ListenersOwned, Listener
  <2>5. RecordsPresent'
    BY <1>7, <2>1 DEF AddFails, dnsVars, IInv, RecordsPresent, LineOf
  <2>6. JobInv' /\ AddInv'
    BY <1>7 DEF AddFails, JobInv, AddInv, Adding
  <2>7. TodoInv'
    BY <1>7, <2>2 DEF AddFails, IInv, TodoInv, PortsOf
  <2> QED BY <2>3, <2>4, <2>5, <2>6, <2>7 DEF IInv
<1> QED BY <1>1, <1>2, <1>3, <1>4, <1>5, <1>6, <1>7 DEF DnsStep

(* add() takes an address nobody holds. *)
LEMMA IInvAddBegins ==
  ASSUME IInv, TypeOK', NEW f \in Forwards, AddBegins(f) PROVE IInv'
<1>1. PICK ip \in IPs : Allocate(ip) /\ job' = NewEntry(f, ip)
  BY DEF AddBegins
<1>2. job = NoJob /\ Holders = active
  BY NoJobAssumption DEF AddBegins, IInv, JobInv, TypeOK, Holders
<1>3. /\ job' \in Entry /\ job'.ip = ip /\ job'.fwd = f /\ ~job'.up
      /\ job' # NoJob
  BY <1>1, NewEntryType, NoJobAssumption DEF NewEntry
<1>4. Holders' = Holders \cup {job'}
  BY <1>2, <1>3, NoJobAssumption DEF AddBegins, Holders, IInv, TypeOK
<1>5. f.port \notin PortsOf(Holders) /\ ip \notin used
  BY <1>1 DEF AddBegins, IInv, TodoInv, Allocate
<1>6. job' \notin active /\ \A e \in Holders : e.fwd.port # f.port /\ e.ip # ip
  BY <1>2, <1>3, <1>5 DEF PortsOf, IInv, PoolAccounted
<1>7. PoolAccounted'
  BY <1>1, <1>3, <1>4, <1>6 DEF AddBegins, Allocate, IInv, PoolAccounted
<1>8. ListenersOwned'
  <2>1. \A h \in Holders : ProxyRuns(h)' <=> ProxyRuns(h)
    BY <1>2, <1>6, NoJobAssumption DEF AddBegins, ProxyRuns, IInv, TypeOK
  <2>2. ~ProxyRuns(job)'
    BY <1>3 DEF ProxyRuns
  <2>3. {h \in Holders' : ProxyRuns(h)'} = {h \in Holders : ProxyRuns(h)}
    BY <1>4, <2>1, <2>2
  <2> QED BY <2>3 DEF AddBegins, IInv, ListenersOwned, Listener
<1>9. RecordsPresent'
  BY <1>2, NoJobAssumption DEF AddBegins, dnsVars, IInv, TypeOK, RecordsPresent, LineOf
<1>10. JobInv' /\ AddInv'
  BY <1>3, <1>6 DEF AddBegins, JobInv, AddInv, Adding
<1>11. TodoInv'
  BY <1>3, <1>4 DEF AddBegins, IInv, TodoInv, PortsOf
<1> QED BY <1>7, <1>8, <1>9, <1>10, <1>11 DEF IInv

(* Each step of add() hands its address on, to an entry or back to the pool. *)
LEMMA IInvAdd == ASSUME IInv, TypeOK', AddStep PROVE IInv'
<1>1. ASSUME NEW f \in Forwards, AddBegins(f) PROVE IInv'
  BY <1>1, IInvAddBegins
<1>2. ASSUME NEW f \in Forwards, AddRefused(f) PROVE IInv'
  BY <1>2, IInvFrame DEF AddRefused, dnsVars
<1>3. CASE StartsProxy
  <2>1. /\ job \in Entry /\ job # NoJob /\ job \notin active
        /\ Holders = active \cup {job}
    BY <1>3, NoJobAssumption DEF StartsProxy, IInv, JobInv, Adding, TypeOK, Holders
  <2>2. /\ job' \in Entry /\ job' # NoJob /\ job'.up /\ job'.ip = job.ip
        /\ job'.fwd = job.fwd /\ job'.name = job.name /\ job'.tls = job.tls
    BY <1>3, <2>1, NoJobAssumption DEF StartsProxy, Entry
  <2>3. Holders' = active \cup {job'} /\ job' \notin active
    <3>1. \A e \in active : e.ip # job.ip /\ e # NoJob
      BY <2>1, NoJobAssumption DEF IInv, PoolAccounted, TypeOK
    <3> QED BY <1>3, <2>2, <3>1 DEF StartsProxy, Holders
  <2>4. PoolAccounted'
    <3>1. UNCHANGED <<used, active, store>>
      BY <1>3 DEF StartsProxy
    <3>2. \A d, e \in Holders' :
            d # e => d.ip # e.ip /\ d.fwd.port # e.fwd.port
      BY <2>1, <2>2, <2>3 DEF IInv, PoolAccounted
    <3>3. used' = {e.ip : e \in Holders'}
      BY <3>1, <2>1, <2>2, <2>3 DEF IInv, PoolAccounted
    <3> QED BY <3>1, <3>2, <3>3 DEF IInv, PoolAccounted
  <2>5. ListenersOwned'
    <3>1. \A h \in active : ProxyRuns(h)' <=> ProxyRuns(h)
      BY <1>3, <2>1, <2>3 DEF StartsProxy, ProxyRuns
    <3>2. ~ProxyRuns(job) /\ ProxyRuns(job)' /\ Listener(job') = Listener(job)
      BY <1>3, <2>2 DEF StartsProxy, ProxyRuns, Listener
    <3>3. listeners = {Listener(e) : e \in {h \in active : ProxyRuns(h)}}
      BY <2>1, <3>2 DEF IInv, ListenersOwned
    <3>4. listeners' = {Listener(e) : e \in {h \in Holders' : ProxyRuns(h)'}}
      BY <1>3, <2>3, <3>1, <3>2, <3>3 DEF StartsProxy
    <3> QED BY <3>4 DEF ListenersOwned, Listener
  <2>6. RecordsPresent'
    BY <1>3, <2>1 DEF StartsProxy, dnsVars, IInv, RecordsPresent, LineOf
  <2>7. JobInv' /\ AddInv'
    BY <1>3, <2>1, <2>2, <2>3 DEF StartsProxy, dnsVars, IInv, JobInv, AddInv, Adding, LineOf
  <2>8. TodoInv'
    <3>1. todo' = todo
      BY <1>3 DEF StartsProxy
    <3>2. PortsOf(Holders') = PortsOf(Holders)
      BY <2>1, <2>2, <2>3 DEF PortsOf
    <3> QED BY <3>1, <3>2 DEF IInv, TodoInv, PortsOf
  <2> QED BY <2>4, <2>5, <2>6, <2>7, <2>8 DEF IInv
<1>4. CASE ProxyFails
  <2>1. Holders' = Holders /\ job # NoJob /\ Adding /\ ~job.up
    BY <1>4 DEF ProxyFails, Holders, IInv, JobInv, AddInv, Adding
  <2>2. PoolAccounted' /\ TodoInv'
    BY <1>4, <2>1 DEF ProxyFails, IInv, PoolAccounted, TodoInv, PortsOf
  <2>3. \A h \in Holders : ProxyRuns(h)' <=> ProxyRuns(h)
    BY <1>4, <2>1 DEF ProxyFails, ProxyRuns
  <2>4. ListenersOwned'
    BY <1>4, <2>1, <2>3 DEF ProxyFails, IInv, ListenersOwned, Listener
  <2>5. RecordsPresent' /\ JobInv' /\ AddInv'
    BY <1>4, <2>1 DEF ProxyFails, dnsVars, IInv, RecordsPresent, JobInv, AddInv, Adding, LineOf
  <2> QED BY <2>2, <2>4, <2>5 DEF IInv
<1>5. CASE Records
  <2>1. /\ job \in Entry /\ job # NoJob /\ job \notin active /\ job \in Holders
        /\ Holders = active \cup {job} /\ store = active
    BY <1>5, NoJobAssumption
    DEF Records, IInv, JobInv, Adding, TypeOK, Holders, PoolAccounted
  <2>2. Deleted(active, job.fwd.port) = active
    BY <2>1 DEF Deleted, IInv, PoolAccounted
  <2>3. active' = active \cup {job} /\ store' = active'
    BY <1>5, <2>1, <2>2 DEF Records, Put
  <2>4. Holders' = Holders
    BY <1>5, <2>1, <2>3, NoJobAssumption DEF Records, Holders, IInv, TypeOK
  <2>5. PoolAccounted' /\ TodoInv'
    BY <1>5, <2>3, <2>4 DEF Records, IInv, PoolAccounted, TodoInv, PortsOf
  <2>6. \A h \in Holders : ProxyRuns(h)' <=> ProxyRuns(h)
    BY <1>5, <2>1, NoJobAssumption DEF Records, ProxyRuns, IInv, TypeOK
  <2>7. ListenersOwned'
    BY <1>5, <2>4, <2>6 DEF Records, IInv, ListenersOwned, Listener
  <2>8. RecordsPresent'
    BY <1>5, <2>1, <2>3 DEF Records, dnsVars, IInv, RecordsPresent, AddInv, Adding, LineOf
  <2>9. JobInv' /\ AddInv'
    BY <1>5 DEF Records, JobInv, AddInv, Adding
  <2> QED BY <2>5, <2>7, <2>8, <2>9 DEF IInv
<1> QED BY <1>1, <1>2, <1>3, <1>4, <1>5 DEF AddStep

(* Each step of remove() gives back what its entry held. *)
LEMMA IInvRemove == ASSUME IInv, TypeOK', RemoveStep PROVE IInv'
<1>1. ASSUME NEW e \in active, RemoveBegins(e) PROVE IInv'
  <2>1. job = NoJob /\ e # NoJob /\ Holders = active /\ Holders' = active
    BY <1>1, NoJobAssumption DEF RemoveBegins, IInv, JobInv, TypeOK, Holders
  <2>2. PoolAccounted' /\ TodoInv'
    BY <1>1, <2>1 DEF RemoveBegins, IInv, PoolAccounted, TodoInv, PortsOf
  <2>3. \A h \in Holders : ProxyRuns(h)' <=> ProxyRuns(h)
    BY <1>1, <2>1, NoJobAssumption DEF RemoveBegins, ProxyRuns, IInv, TypeOK
  <2>4. ListenersOwned'
    BY <1>1, <2>1, <2>3 DEF RemoveBegins, IInv, ListenersOwned, Listener
  <2>5. RecordsPresent' /\ JobInv' /\ AddInv'
    BY <1>1, <2>1, NoJobAssumption
    DEF RemoveBegins, dnsVars, IInv, TypeOK, RecordsPresent, JobInv, AddInv, Adding, LineOf
  <2> QED BY <2>2, <2>4, <2>5 DEF IInv
<1>2. CASE StopsProxy
  <2>1. Holders' = Holders /\ job \in active /\ job \in Holders /\ job \in Entry
    BY <1>2, NoJobAssumption DEF StopsProxy, Holders, IInv, JobInv, TypeOK
  <2>2. PoolAccounted' /\ TodoInv'
    BY <1>2, <2>1 DEF StopsProxy, IInv, PoolAccounted, TodoInv, PortsOf
  <2>3. /\ \A h \in Holders : h # job => (ProxyRuns(h)' <=> ProxyRuns(h))
        /\ ~ProxyRuns(job)' /\ (ProxyRuns(job) <=> job.up)
    BY <1>2 DEF StopsProxy, ProxyRuns
  <2>4. \A h \in Holders : h # job => Listener(h) # Listener(job)
    BY <2>1 DEF IInv, PoolAccounted, Listener
  <2>5. listeners' = {Listener(e) : e \in {h \in Holders : ProxyRuns(h)'}}
    <3>1. listeners = {Listener(e) : e \in {h \in Holders : ProxyRuns(h)}}
      BY DEF IInv, ListenersOwned
    <3>2. CASE job.up
      BY <1>2, <2>1, <2>3, <2>4, <3>1, <3>2 DEF StopsProxy
    <3>3. CASE ~job.up
      BY <1>2, <2>1, <2>3, <3>1, <3>3 DEF StopsProxy
    <3> QED BY <3>2, <3>3
  <2>6. ListenersOwned'
    BY <2>1, <2>5 DEF ListenersOwned, Listener
  <2>7. RecordsPresent' /\ JobInv' /\ AddInv'
    BY <1>2, <2>1 DEF StopsProxy, dnsVars, IInv, RecordsPresent, JobInv, AddInv, Adding, LineOf
  <2> QED BY <2>2, <2>6, <2>7 DEF IInv
<1>3. CASE RemovesConf
  <2>1. job \in active /\ job \in Entry
    BY <1>3 DEF RemovesConf, IInv, JobInv, TypeOK
  <2>2. RecordsPresent'
    BY <1>3, <2>1, OthersRecords DEF RemovesConf, RemoveConf
  <2>3. JobInv' /\ AddInv'
    BY <1>3, <2>1, NoJobAssumption DEF RemovesConf, JobInv, AddInv, Adding
  <2> QED BY <1>3, <2>1, <2>2, <2>3, NoJobAssumption, IInvDnsFrame DEF RemovesConf
<1>4. CASE Drops
  <2>1. /\ job \in active /\ job \in Entry /\ Holders = active /\ store = active
        /\ job # NoJob
    BY <1>4, NoJobAssumption DEF Drops, IInv, JobInv, TypeOK, Holders, PoolAccounted
  <2>2. Deleted(active, job.fwd.port) = active \ {job}
    BY <2>1 DEF Deleted, IInv, PoolAccounted
  <2>3. active' = active \ {job} /\ store' = active'
    BY <1>4, <2>1, <2>2 DEF Drops
  <2>4. Holders' = Holders \ {job} /\ Holders' = active'
    BY <1>4, <2>1, <2>3, NoJobAssumption DEF Drops, Holders, IInv, TypeOK
  <2>5. PoolAccounted'
    BY <1>4, <2>1, <2>3, <2>4 DEF Drops, Free, IInv, PoolAccounted
  <2>6. ListenersOwned'
    <3>1. \A h \in Holders' : ProxyRuns(h)' <=> ProxyRuns(h)
      BY <1>4, <2>1, <2>4, NoJobAssumption DEF Drops, ProxyRuns, IInv, TypeOK
    <3>2. ~ProxyRuns(job)
      BY <1>4 DEF Drops, ProxyRuns
    <3> QED BY <1>4, <2>4, <3>1, <3>2 DEF Drops, IInv, ListenersOwned, Listener
  <2>7. RecordsPresent' /\ JobInv' /\ AddInv'
    BY <1>4, <2>3 DEF Drops, dnsVars, IInv, RecordsPresent, JobInv, AddInv, Adding, LineOf
  <2>8. TodoInv'
    BY <1>4, <2>4 DEF Drops, IInv, TodoInv, PortsOf
  <2> QED BY <2>5, <2>6, <2>7, <2>8 DEF IInv
<1> QED BY <1>1, <1>2, <1>3, <1>4 DEF RemoveStep

(* Every step keeps IInv. *)
LEMMA IInvStep == IInv /\ [Next]_vars => IInv'
<1> SUFFICES ASSUME IInv, [Next]_vars PROVE IInv'
  OBVIOUS
<1>0. TypeOK'
  BY IInvTypes, TypeStep DEF TypeInv
<1>1. CASE UNCHANGED vars
  BY <1>0, <1>1, IInvFrame DEF vars
<1>2. CASE Environment
  BY <1>0, <1>2, IInvFrame DEF Environment, Listen, Exit, DnsmasqRereads, Reread, dnsVars
<1>3. CASE Start \/ Signal
  BY <1>0, <1>3, IInvFrame DEF Start, Signal, dnsVars
<1>4. CASE Crash
  BY <1>0, <1>4, IInvEnds DEF Crash
<1>5. CASE DaemonStep
  BY <1>0, <1>5, IInvPoll, IInvAdd, IInvDns, IInvRemove DEF DaemonStep
<1> QED BY <1>1, <1>2, <1>3, <1>4, <1>5 DEF Next

(* IInv is an invariant. *)
LEMMA Invariance == Spec => []IInv
BY IInvInit, IInvStep, PTL DEF Spec

(* The allocator's books are right at every step. *)
THEOREM PoolAlwaysAccounted == Spec => []PoolAccounted
<1>1. IInv => PoolAccounted
  BY DEF IInv
<1> QED BY <1>1, Invariance, PTL

(* No proxy outlives its entry or forwards elsewhere. *)
THEOREM ListenersAlwaysOwned == Spec => []ListenersOwned
<1>1. IInv => ListenersOwned
  BY DEF IInv
<1> QED BY <1>1, Invariance, PTL

(* An entry's record stays until the entry's own removal. *)
THEOREM RecordsAlwaysPresent == Spec => []RecordsPresent
<1>1. IInv => RecordsPresent
  BY DEF IInv
<1> QED BY <1>1, Invariance, PTL

-----------------------------------------------------------------------------
(* What clients see. *)

(* The only steps that change what clients list. *)
LEMMA StoreSteps ==
  ASSUME [Next]_vars PROVE store' = store \/ Records \/ Drops \/ store' = {}
<1>1. CASE Environment \/ Start \/ Signal \/ Crash \/ UNCHANGED vars
  BY <1>1 DEF Environment, Listen, Exit, DnsmasqRereads, Start, Signal, Crash,
              ProcessEnds, vars
<1>2. CASE PollStep
  BY <1>2 DEF PollStep, Tick, Scan, ScanFails, AddsDone, RemovesDone, ProcessEnds
<1>3. CASE AddStep
  <2>1. CASE StartsProxy
    BY <2>1 DEF StartsProxy
  <2> QED BY <1>3, <2>1 DEF AddStep, AddBegins, AddRefused, ProxyFails
<1>4. CASE DnsStep
  BY <1>4 DEF DnsStep, OpensConf, WritesConf, OpensHosts, WritesHosts, Reloads,
              AddFails, DnsRemoveFails
<1>5. CASE RemoveStep
  BY <1>5 DEF RemoveStep, RemoveBegins, StopsProxy, RemovesConf
<1> QED BY <1>1, <1>2, <1>3, <1>4, <1>5 DEF Next, DaemonStep

(* Records adds the job, whose port and address no listed entry has. *)
LEMMA RecordsMaps ==
  ASSUME IInv, Records
  PROVE  /\ job \in Entry /\ store' = store \cup {job}
         /\ \A n \in store : n.fwd.port # job.fwd.port /\ n.ip # job.ip
<1>1. /\ job \in Entry /\ job # NoJob /\ job \notin active /\ store = active
      /\ Holders = active \cup {job}
  BY NoJobAssumption DEF Records, IInv, JobInv, Adding, TypeOK, Holders, PoolAccounted
<1>2. \A n \in store : n.fwd.port # job.fwd.port /\ n.ip # job.ip
  BY <1>1 DEF IInv, PoolAccounted
<1> QED BY <1>1, <1>2 DEF Records, Put, Deleted

(* Drops takes away the job and nothing else. *)
LEMMA DropsUnmaps ==
  ASSUME IInv, Drops PROVE job \in store /\ store' = store \ {job}
<1>1. job \in active /\ store = active /\ Holders = active
  BY NoJobAssumption DEF Drops, IInv, JobInv, TypeOK, Holders, PoolAccounted
<1> QED BY <1>1 DEF Drops, Deleted, IInv, PoolAccounted

(* Every step is a step of PortMap on what clients list, or changes nothing there. *)
LEMMA PortMapStep == IInv /\ [Next]_vars => [Abstract!Next]_store
<1> SUFFICES ASSUME IInv, [Next]_vars PROVE [Abstract!Next]_store
  OBVIOUS
<1>1. CASE Records
  BY <1>1, RecordsMaps DEF Abstract!Next, Abstract!Map
<1>2. CASE Drops
  BY <1>2, DropsUnmaps DEF Abstract!Next, Abstract!Unmap
<1>3. CASE store' = {}
  BY <1>3 DEF Abstract!Next, Abstract!Reset
<1> QED BY <1>1, <1>2, <1>3, StoreSteps

(* What clients list is a PortMap, whatever fails. *)
THEOREM RefinesPortMap == Spec => ImplementsPortMap
<1>1. Init => Abstract!Init
  BY DEF Init, Abstract!Init
<1> QED BY <1>1, Invariance, PortMapStep, PTL DEF Spec, ImplementsPortMap, Abstract!Spec

(* A step that lists an entry finds its record and its proxy in place. *)
LEMMA ListedLastStep ==
  IInv /\ [Next]_vars => [\A e \in store' \ store : InPlace(e)']_vars
<1> SUFFICES ASSUME IInv, [Next]_vars, NEW e \in store' \ store PROVE InPlace(e)'
  OBVIOUS
<1>1. CASE Records
  <2>1. e = job /\ job \in Holders /\ Adding
    BY <1>1, RecordsMaps, NoJobAssumption DEF Holders, Records, IInv, JobInv
  <2>2. /\ LineOf(job) \in hosts \/ job.fwd.port \in unread
        /\ sighup \/ served = hosts
    BY <1>1, <2>1 DEF Records, IInv, AddInv
  <2>3. job.up => Listener(job) \in listeners
    BY <1>1, <2>1 DEF Records, IInv, ListenersOwned, ProxyRuns
  <2>4. InPlace(e)
    BY <2>1, <2>2, <2>3 DEF InPlace
  <2> QED BY <1>1, <2>4 DEF Records, dnsVars, InPlace, LineOf, Listener
<1> QED BY <1>1, StoreSteps, DropsUnmaps

(* An entry is listed only when its record is written, dnsmasq told of it and,
   unless its proxy failed to start, its listener is open; a state file that
   cannot be read is the only failure add() does not notice. *)
THEOREM AlwaysListedLast == Spec => ListedLast
BY Invariance, ListedLastStep, PTL DEF Spec, ListedLast
=============================================================================
