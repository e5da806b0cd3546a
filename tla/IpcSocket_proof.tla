--------------------------- MODULE IpcSocket_proof ---------------------------
(***************************************************************************)
(* Proofs about IpcSocket.tla, for any number of commands and of kills.    *)
(***************************************************************************)
EXTENDS IpcSocket, TLAPS

(* Every variable keeps its type. *)
LEMMA IpcType == Spec => []TypeOK
<1> USE IpcAssumption DEF TypeOK, clientVars
<1>1. Init => TypeOK
  BY DEF Init, Phases
<1>2. TypeOK /\ [Next]_vars => TypeOK'
  <2> SUFFICES ASSUME TypeOK, [Next]_vars PROVE TypeOK'
    OBVIOUS
  <2>1. ASSUME NEW d \in Daemons, Start(d) \/ StartStep(d) \/ StopBegins(d) \/ Crash(d)
        PROVE  TypeOK'
    <3> USE DEF Goto, Phases, Reset, Outcome, ClientsOf
    <3>1. CASE Start(d) BY <3>1 DEF Start
    <3>2. CASE RemovesStale(d) BY <3>2 DEF RemovesStale
    <3>3. CASE Binds(d) BY <3>3 DEF Binds
    <3>4. CASE BindFails(d) BY <3>4 DEF BindFails
    <3>5. CASE Chmods(d) BY <3>5 DEF Chmods
    <3>6. CASE ChmodFails(d) BY <3>6 DEF ChmodFails
    <3>7. CASE Unlinks(d) BY <3>7 DEF Unlinks
    <3>8. CASE UndoCloses(d) BY <3>8 DEF UndoCloses
    <3>9. CASE StopBegins(d) BY <3>9 DEF StopBegins
    <3>10. CASE Closes(d) BY <3>10 DEF Closes
    <3>11. CASE RemovesPath(d) BY <3>11 DEF RemovesPath
    <3>12. CASE Crash(d) BY <3>12 DEF Crash
    <3> QED BY <2>1, <3>1, <3>2, <3>3, <3>4, <3>5, <3>6, <3>7, <3>8, <3>9, <3>10,
               <3>11, <3>12 DEF StartStep
  <2>2. ASSUME NEW c \in Clients, List(c) \/ Status(c) \/ ClientStep(c)
        PROVE  TypeOK'
    <3> USE DEF Ends
    <3>1. CASE List(c) BY <3>1 DEF List
    <3>2. CASE Status(c) BY <3>2 DEF Status
    <3>3. CASE Connects(c) BY <3>3 DEF Connects
    <3>4. CASE Refused(c) BY <3>4 DEF Refused, Outcome
    <3>5. CASE Answers(c) BY <3>5 DEF Answers
    <3> QED BY <2>2, <3>1, <3>2, <3>3, <3>4, <3>5 DEF ClientStep
  <2>3. CASE UNCHANGED vars
    BY <2>3 DEF vars
  <2> QED BY <2>1, <2>2, <2>3 DEF Next
<1> QED
  BY <1>1, <1>2, PTL DEF Spec

(* A command changes neither the socket nor a daemon. *)
LEMMA CommandsOnlyAsk ==
  ASSUME NEW c \in Clients, List(c) \/ Status(c) \/ ClientStep(c)
  PROVE  UNCHANGED <<file, pc, crashes, ran>>
  BY DEF List, Status, ClientStep, Connects, Refused, Answers

(* However many daemons share the path, it names a dead socket only after
   one of them was killed: each unlinks before it closes. *)
THEOREM NeverDeadSocket == Spec => []NoDeadSocket
<1>1. Init => FileInv
  BY IpcAssumption DEF Init, FileInv
<1>2. TypeOK /\ TypeOK' /\ FileInv /\ [Next]_vars => FileInv'
  <2> SUFFICES ASSUME TypeOK, TypeOK', FileInv, [Next]_vars PROVE FileInv'
    OBVIOUS
  <2> USE IpcAssumption DEF TypeOK, FileInv, Goto
  <2>1. ASSUME NEW d \in Daemons, Start(d) \/ StartStep(d) \/ StopBegins(d) \/ Crash(d)
        PROVE  FileInv'
    BY <2>1 DEF Start, StartStep, RemovesStale, Binds, BindFails, Chmods, ChmodFails,
       Unlinks, UndoCloses, StopBegins, Closes, RemovesPath, Crash
  <2>2. CASE UNCHANGED <<file, pc, crashes, ran>>
    BY <2>2
  <2> QED BY <2>1, <2>2, CommandsOnlyAsk DEF Next, vars
<1>3. TypeOK /\ FileInv => NoDeadSocket
  BY DEF TypeOK, FileInv, NoDeadSocket, Dialable, Listening
<1> QED
  BY <1>1, <1>2, <1>3, IpcType, PTL DEF Spec

(* The path of a daemon that is alone is its own while it serves: the others
   are off, and their start ends its being alone. *)
LEMMA AloneOwns == Spec => []AloneInv
<1>1. Init => AloneInv
  BY DEF Init, AloneInv
<1>2. TypeOK /\ AloneInv /\ [Next]_vars => AloneInv'
  <2> SUFFICES ASSUME TypeOK, AloneInv, [Next]_vars PROVE AloneInv'
    OBVIOUS
  <2> USE IpcAssumption DEF TypeOK, AloneInv, Alone, Goto
  <2>1. ASSUME NEW d \in Daemons, Start(d) \/ StartStep(d) \/ StopBegins(d) \/ Crash(d)
        PROVE  AloneInv'
    <3>1. CASE Start(d)
      BY <3>1 DEF Start
    <3>2. CASE ~Start(d)
      BY <2>1, <3>2 DEF StartStep, RemovesStale, Binds, BindFails, Chmods, ChmodFails,
         Unlinks, UndoCloses, StopBegins, Closes, RemovesPath, Crash
    <3> QED BY <3>1, <3>2
  <2>2. CASE UNCHANGED <<file, pc, crashes, ran>>
    BY <2>2
  <2> QED BY <2>1, <2>2, CommandsOnlyAsk DEF Next, vars
<1> QED
  BY <1>1, <1>2, IpcType, PTL DEF Spec

(* A daemon that is alone, killed and restarted at will, is reachable
   whenever it serves. *)
THEOREM AlwaysReachable == Spec => []Reachable
<1>1. AloneInv => Reachable
  BY DEF AloneInv, Reachable
<1> QED
  BY <1>1, AloneOwns, PTL

(* And a command that finds it stopped is right. *)
THEOREM StoppedAlwaysMeansStopped == Spec => StoppedMeansStopped
<1>1. TypeOK /\ AloneInv /\ [Next]_vars =>
        [\A c \in Clients, d \in Daemons :
           Alone(d) /\ said[c] # "stopped" /\ said'[c] = "stopped" =>
             pc[d] # "serve" \/ pc'[d] # "serve"]_vars
  <2> SUFFICES ASSUME TypeOK, AloneInv, [Next]_vars, NEW c \in Clients, NEW d \in Daemons,
                      Alone(d), said[c] # "stopped", said'[c] = "stopped"
               PROVE  pc[d] # "serve" \/ pc'[d] # "serve"
    OBVIOUS
  <2> USE DEF TypeOK, AloneInv, Alone, Goto, clientVars
  <2>1. ASSUME NEW e \in Daemons, Start(e) \/ StartStep(e) \/ StopBegins(e) \/ Crash(e)
        PROVE  pc[d] # "serve" \/ pc'[d] # "serve"
    BY <2>1 DEF Start, StartStep, RemovesStale, Binds, BindFails, Chmods, ChmodFails,
       Unlinks, UndoCloses, StopBegins, Closes, RemovesPath, Crash
  <2>2. ASSUME NEW b \in Clients, List(b) \/ Status(b) \/ ClientStep(b)
        PROVE  pc[d] # "serve"
    <3>1. CASE Refused(b)
      BY <3>1 DEF Refused, Dialable, Listening
    <3>2. CASE ~Refused(b)
      BY <2>2, <3>2 DEF List, Status, ClientStep, Connects, Answers, Ends
    <3> QED BY <3>1, <3>2
  <2> QED BY <2>1, <2>2 DEF Next, vars
<1> QED
  BY <1>1, IpcType, AloneOwns, PTL DEF Spec, StoppedMeansStopped
=============================================================================
