----------------------------- MODULE IpcSocket ------------------------------
(***************************************************************************)
(* internal/ipc: the Unix socket through which `lad list` and `lad status` *)
(* ask the daemon for its state.  Several processes may run `lad daemon`,  *)
(* they share one SocketPath and nothing keeps them apart.  The entries    *)
(* that are sent are the subject of Daemon.tla; here a request is answered *)
(* or it is not.                                                           *)
(***************************************************************************)
EXTENDS Naturals

CONSTANTS
  Daemons,      \* processes that may run `lad daemon`
  Clients,      \* processes that run `lad list` or `lad status`
  NoDaemon,
  MaxCrashes    \* bound: how many daemons are killed

ASSUME IpcAssumption == NoDaemon \notin Daemons /\ MaxCrashes \in Nat

VARIABLES
  file,      \* the daemon whose socket SocketPath names, or NoDaemon
  pc,        \* pc[d]: where daemon d is in Server.Start or Server.Stop
  crashes,
  ran,       \* the daemons that have run so far
  cmd,       \* cmd[c]: "idle" | "list" | "first" | "second" (of status)
  conn,      \* conn[c]: the daemon client c is connected to, or NoDaemon
  said       \* said[c]: "nothing" | "running" | "stopped", the last output

vars == <<file, pc, crashes, ran, cmd, conn, said>>
clientVars == <<cmd, conn, said>>

\* "remove", "bind", "chmod" are Start; "undo", "undoClose" its error path;
\* "unlink", "close", "rm" are Stop.
Phases == {"off", "remove", "bind", "chmod", "undo", "undoClose", "serve",
           "unlink", "close", "rm"}

(* Every variable keeps to the values it is documented with. *)
TypeOK ==
  /\ file \in Daemons \cup {NoDaemon}
  /\ pc \in [Daemons -> Phases]
  /\ crashes \in 0..MaxCrashes
  /\ ran \subseteq Daemons
  /\ cmd \in [Clients -> {"idle", "list", "first", "second"}]
  /\ conn \in [Clients -> Daemons \cup {NoDaemon}]
  /\ said \in [Clients -> {"nothing", "running", "stopped"}]

Init ==
  /\ file = NoDaemon
  /\ pc = [d \in Daemons |-> "off"]
  /\ crashes = 0
  /\ ran = {}
  /\ cmd = [c \in Clients |-> "idle"]
  /\ conn = [c \in Clients |-> NoDaemon]
  /\ said = [c \in Clients |-> "nothing"]

Goto(d, p, q) == pc[d] = p /\ pc' = [pc EXCEPT ![d] = q]

\* The kernel accepts connections from listen(2) to the listener's close.
Listening(d) == pc[d] \in {"chmod", "undo", "undoClose", "serve", "unlink", "close"}

Dialable == \E d \in Daemons : file = d /\ Listening(d)

-----------------------------------------------------------------------------
(* Client: one GetState, which a command does once or, for status, twice. *)

Ends(c, word) ==
  /\ cmd' = [cmd EXCEPT ![c] = "idle"]
  /\ said' = [said EXCEPT ![c] = word]

List(c) ==
  /\ cmd[c] = "idle"
  /\ cmd' = [cmd EXCEPT ![c] = "list"]
  /\ said' = [said EXCEPT ![c] = "nothing"]
  /\ UNCHANGED <<file, pc, crashes, ran, conn>>

Status(c) ==
  /\ cmd[c] = "idle"
  /\ cmd' = [cmd EXCEPT ![c] = "first"]
  /\ said' = [said EXCEPT ![c] = "nothing"]
  /\ UNCHANGED <<file, pc, crashes, ran, conn>>

Connects(c) ==
  /\ cmd[c] # "idle" /\ conn[c] = NoDaemon
  /\ Dialable
  /\ conn' = [conn EXCEPT ![c] = file]
  /\ UNCHANGED <<file, pc, crashes, ran, cmd, said>>

\* The second request of status ignores its error: the daemon was running.
Outcome(c) == IF cmd[c] = "second" THEN "running" ELSE "stopped"

Refused(c) ==
  /\ cmd[c] # "idle" /\ conn[c] = NoDaemon
  /\ ~Dialable
  /\ Ends(c, Outcome(c))
  /\ UNCHANGED <<file, pc, crashes, ran, conn>>

(* The connections of the clients in lost are reset. *)
Reset(lost) ==
  /\ conn' = [c \in Clients |-> IF c \in lost THEN NoDaemon ELSE conn[c]]
  /\ cmd' = [c \in Clients |-> IF c \in lost THEN "idle" ELSE cmd[c]]
  /\ said' = [c \in Clients |-> IF c \in lost THEN Outcome(c) ELSE said[c]]

ClientsOf(d) == {c \in Clients : conn[c] = d}

(* Mutant of Answers: an empty list counts as no daemon. *)
AnswersEmptyAsStopped(c) ==
  /\ conn[c] # NoDaemon
  /\ pc[conn[c]] \in {"serve", "unlink", "close", "rm"}
  /\ conn' = [conn EXCEPT ![c] = NoDaemon]
  /\ \/ Ends(c, "running")
     \/ Ends(c, "stopped")
  /\ UNCHANGED <<file, pc, crashes, ran>>

(* handleState, until the process ends. *)
Answers(c) ==
  /\ conn[c] # NoDaemon
  /\ pc[conn[c]] \in {"serve", "unlink", "close", "rm"}
  /\ conn' = [conn EXCEPT ![c] = NoDaemon]
  /\ IF cmd[c] = "first"
     THEN cmd' = [cmd EXCEPT ![c] = "second"] /\ said' = said
     ELSE Ends(c, "running")
  /\ UNCHANGED <<file, pc, crashes, ran>>

-----------------------------------------------------------------------------
(* Server.Start *)

Start(d) ==
  /\ Goto(d, "off", "remove")
  /\ ran' = ran \cup {d}
  /\ UNCHANGED <<file, crashes, clientVars>>

(* Mutant of RemovesStale: Start trusts the path to be free. *)
RemovesNothing(d) ==
  Goto(d, "remove", "bind") /\ UNCHANGED <<file, crashes, ran, clientVars>>

(* os.Remove(sockPath): whatever is there. *)
RemovesStale(d) ==
  /\ Goto(d, "remove", "bind")
  /\ file' = NoDaemon
  /\ UNCHANGED <<crashes, ran, clientVars>>

(* Mutant of Binds: os.Remove comes last, after listening and Chmod. *)
BindsThenRemoves(d) ==
  /\ Goto(d, "bind", "serve")
  /\ file' = NoDaemon
  /\ UNCHANGED <<crashes, ran, clientVars>>

Binds(d) ==
  /\ Goto(d, "bind", "chmod")
  /\ file = NoDaemon
  /\ file' = d
  /\ UNCHANGED <<crashes, ran, clientVars>>

(* The path exists: Start returns an error, Run and the process end. *)
BindFails(d) ==
  /\ file # NoDaemon
  /\ Goto(d, "bind", "off")
  /\ UNCHANGED <<file, crashes, ran, clientVars>>

(* os.Chmod fails only if the path is gone. *)
Chmods(d) ==
  /\ file # NoDaemon
  /\ Goto(d, "chmod", "serve")
  /\ UNCHANGED <<file, crashes, ran, clientVars>>

ChmodFails(d) ==
  /\ file = NoDaemon
  /\ Goto(d, "chmod", "undo")
  /\ UNCHANGED <<file, crashes, ran, clientVars>>

(* Mutant of Unlinks: the listener is closed and its path left to Stop. *)
UnlinksNothing(d) ==
  /\ Goto(d, "undo", "undoClose") \/ Goto(d, "unlink", "close")
  /\ UNCHANGED <<file, crashes, ran, clientVars>>

(* Close of a Go Unix listener unlinks its path, by name, and closes. *)
Unlinks(d) ==
  /\ Goto(d, "undo", "undoClose") \/ Goto(d, "unlink", "close")
  /\ file' = NoDaemon
  /\ UNCHANGED <<crashes, ran, clientVars>>

UndoCloses(d) ==
  /\ Goto(d, "undoClose", "off")
  /\ Reset(ClientsOf(d))
  /\ UNCHANGED <<file, crashes, ran>>

-----------------------------------------------------------------------------
(* Server.Stop, after SIGTERM, and the end of the process. *)

StopBegins(d) ==
  Goto(d, "serve", "unlink") /\ UNCHANGED <<file, crashes, ran, clientVars>>

\* Connections http.Serve has not accepted yet are reset.
Closes(d) ==
  /\ Goto(d, "close", "rm")
  /\ \E lost \in SUBSET ClientsOf(d) : Reset(lost)
  /\ UNCHANGED <<file, crashes, ran>>

(* os.Remove(sockPath) again, and the process ends. *)
RemovesPath(d) ==
  /\ Goto(d, "rm", "off")
  /\ file' = NoDaemon
  /\ Reset(ClientsOf(d))
  /\ UNCHANGED <<crashes, ran>>

(* The daemon is killed: its socket is dead, the path stays. *)
Crash(d) ==
  /\ pc[d] # "off"
  /\ crashes < MaxCrashes
  /\ crashes' = crashes + 1
  /\ pc' = [pc EXCEPT ![d] = "off"]
  /\ Reset(ClientsOf(d))
  /\ UNCHANGED <<file, ran>>

-----------------------------------------------------------------------------
StartStep(d) ==
  \/ RemovesStale(d) \/ Binds(d) \/ BindFails(d) \/ Chmods(d) \/ ChmodFails(d)
  \/ Unlinks(d) \/ UndoCloses(d) \/ Closes(d) \/ RemovesPath(d)

ClientStep(c) == Connects(c) \/ Refused(c) \/ Answers(c)

Next ==
  \/ \E d \in Daemons : Start(d) \/ StartStep(d) \/ StopBegins(d) \/ Crash(d)
  \/ \E c \in Clients : List(c) \/ Status(c) \/ ClientStep(c)

Spec == Init /\ [][Next]_vars

(* The service manager restarts a daemon that ended (Restart=always), and a
   daemon that can go on does. *)
FairSpec ==
  /\ Spec
  /\ \A d \in Daemons : WF_vars(d \in ran /\ Start(d)) /\ WF_vars(StartStep(d))

-----------------------------------------------------------------------------
Alone(d) == ran \subseteq {d}

(* A daemon that serves can be reached under SocketPath, as long as no other
   one ran: its own restarts and kills never cost it the path. *)
Reachable == \A d \in Daemons : Alone(d) /\ pc[d] = "serve" => file = d

(* When a command says that the daemon is stopped, a daemon that shares the
   path with no other is not serving before or after that step. *)
StoppedMeansStopped ==
  [][\A c \in Clients, d \in Daemons :
       Alone(d) /\ said[c] # "stopped" /\ said'[c] = "stopped" =>
         pc[d] # "serve" \/ pc'[d] # "serve"]_vars

(* A socket left by a killed daemon does not keep it from serving again. *)
StaleSocketHarmless ==
  \A d \in Daemons : []Alone(d) => (d \in ran /\ pc[d] = "off" ~> pc[d] = "serve")

(* The path names a dead socket only if a daemon was killed: "The daemon
   creates the socket on startup and removes it on shutdown". *)
NoDeadSocket == crashes = 0 /\ file # NoDaemon => Dialable

-----------------------------------------------------------------------------
(* The inductive invariants.  Without a kill the path names a daemon only
   from its bind to its unlink; the path of a daemon that is alone is its own
   all that time. *)
FileInv ==
  \A d \in Daemons :
    file = d /\ crashes = 0 => pc[d] \in {"chmod", "serve", "unlink", "undo"}

AloneInv ==
  \A d \in Daemons :
    /\ pc[d] # "off" => d \in ran
    /\ Alone(d) => /\ pc[d] \in {"chmod", "serve", "unlink"} => file = d
                   /\ pc[d] \notin {"undo", "undoClose"}
=============================================================================
