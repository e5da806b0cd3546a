----------------------------- MODULE Proxy_proof -----------------------------
(***************************************************************************)
(* Proofs about Proxy.tla, for any connections and any callers of Stop.    *)
(***************************************************************************)
EXTENDS Proxy, TLAPS

(* Before Start nothing runs and nothing is closed. *)
LEMMA ProxyInit == Init => IInv
  BY DEF Init, IInv, StopInv, StopQuiesces, NoSpuriousLog

(* The steps of Stop keep the invariant. *)
LEMMA StopKeeps ==
  ASSUME IInv, NEW s \in Stoppers, StopBegins(s) \/ StopStep(s)
  PROVE  IInv'
<1> USE DEF IInv, StopInv, StopQuiesces, NoSpuriousLog, serveVars, connVars
<1>1. CASE StopBegins(s) BY <1>1 DEF StopBegins
<1>2. CASE ClosesQuit(s) BY <1>2 DEF ClosesQuit
<1>3. CASE ClosesListener(s) BY <1>3 DEF ClosesListener
<1>4. CASE OnceReturns(s) BY <1>4 DEF OnceReturns
<1>5. CASE StopReturns(s) BY <1>5 DEF StopReturns
<1> QED BY <1>1, <1>2, <1>3, <1>4, <1>5 DEF StopStep

(* So do Start and the accept loop. *)
LEMMA ServeKeeps ==
  ASSUME IInv, Start \/ AcceptFails \/ ServeStep
  PROVE  IInv'
<1> USE DEF IInv, StopInv, StopQuiesces, NoSpuriousLog, stopVars, serveVars, connVars
<1>1. CASE Start BY <1>1 DEF Start
<1>2. CASE AcceptFails BY <1>2 DEF AcceptFails
<1>3. CASE AcceptClosed BY <1>3 DEF AcceptClosed
<1>4. CASE ServeReturns
  <2>1. StopInv' /\ StopQuiesces'
    BY <1>4 DEF ServeReturns
  <2>2. logged' => logged \/ quit = 0
    BY <1>4, Zenon DEF ServeReturns
  <2>3. errors' = errors
    BY <1>4 DEF ServeReturns
  <2> QED BY <1>4, <2>1, <2>2, <2>3 DEF ServeReturns
<1>5. CASE \E c \in Conns : Accepts(c) BY <1>5 DEF Accepts
<1> QED BY <1>1, <1>2, <1>3, <1>4, <1>5 DEF ServeStep

(* A connection touches neither Stop nor the accept loop. *)
LEMMA PipeKeeps ==
  ASSUME NEW c \in Conns, PipeStep(c) \/ Peer(c)
  PROVE  UNCHANGED <<listener, stopVars, serveVars>>
  BY DEF PipeStep, Peer, Dials, DialFails, UpEnds, DownEnds, PipeReturns, Connects,
     ClientCloses, UpstreamCloses, UpBreaks, DownBreaks

(* The invariant is inductive. *)
LEMMA ProxyInvariance == Spec => []IInv
<1>1. IInv /\ [Next]_vars => IInv'
  <2> SUFFICES ASSUME IInv, [Next]_vars PROVE IInv'
    OBVIOUS
  <2>1. CASE UNCHANGED <<listener, stopVars, serveVars>>
    BY <2>1 DEF IInv, StopInv, StopQuiesces, NoSpuriousLog, stopVars, serveVars
  <2>2. CASE UNCHANGED vars
    BY <2>1, <2>2 DEF vars, stopVars, serveVars
  <2> QED
    BY <2>1, <2>2, StopKeeps, ServeKeeps, PipeKeeps DEF Next
<1> QED
  BY <1>1, ProxyInit, PTL DEF Spec

(* When a call of Stop has returned, the listener is closed and the accept
   loop has ended, however many goroutines call Stop. *)
THEOREM StopAlwaysQuiesces == Spec => []StopQuiesces
<1>1. IInv => StopQuiesces
  BY DEF IInv
<1> QED
  BY <1>1, ProxyInvariance, PTL

(* Stopping a proxy is never logged as an accept error. *)
THEOREM NeverSpuriousLog == Spec => []NoSpuriousLog
<1>1. IInv => NoSpuriousLog
  BY DEF IInv
<1> QED
  BY <1>1, ProxyInvariance, PTL

-----------------------------------------------------------------------------
(* The steps of a pipe and of its two ends keep the connections' invariant. *)
LEMMA PipeInvPipe ==
  ASSUME PipeInv, NEW c \in Conns, PipeStep(c) \/ Peer(c)
  PROVE  PipeInv'
<1> USE DEF PipeInv
<1>1. CASE Dials(c) BY <1>1 DEF Dials
<1>2. CASE DialFails(c) BY <1>2 DEF DialFails
<1>3. CASE UpEnds(c) BY <1>3 DEF UpEnds
<1>4. CASE DownEnds(c) BY <1>4 DEF DownEnds
<1>5. CASE PipeReturns(c) BY <1>5 DEF PipeReturns
<1>6. CASE Connects(c) BY <1>6 DEF Connects
<1>7. CASE ClientCloses(c) BY <1>7 DEF ClientCloses
<1>8. CASE UpstreamCloses(c) BY <1>8 DEF UpstreamCloses
<1>9. CASE UpBreaks(c) BY <1>9 DEF UpBreaks
<1>10. CASE DownBreaks(c) BY <1>10 DEF DownBreaks
<1> QED
  BY <1>1, <1>2, <1>3, <1>4, <1>5, <1>6, <1>7, <1>8, <1>9, <1>10 DEF PipeStep, Peer

(* Start, Stop and the accept loop leave every pipe alone: a connection goes
   from the backlog to the dial, or is reset with the listener. *)
LEMMA OthersLeavePipes ==
  ASSUME PipeInv,
         \/ Start \/ AcceptFails \/ ServeStep
         \/ \E s \in Stoppers : StopBegins(s) \/ StopStep(s)
  PROVE  /\ UNCHANGED <<up, down, client, upstream>>
         /\ conn' \in [Conns -> {"none", "backlog", "dial", "copy", "closed"}]
         /\ \A c \in Conns :
              conn'[c] = conn[c] \/ (conn[c] = "backlog" /\ conn'[c] \in {"dial", "closed"})
<1> USE DEF PipeInv, connVars
<1>1. CASE Start \/ AcceptFails \/ AcceptClosed \/ ServeReturns
  BY <1>1 DEF Start, AcceptFails, AcceptClosed, ServeReturns
<1>2. CASE \E c \in Conns : Accepts(c)
  BY <1>2 DEF Accepts
<1>3. ASSUME NEW s \in Stoppers, StopBegins(s) \/ ClosesQuit(s) \/ OnceReturns(s) \/ StopReturns(s)
      PROVE  UNCHANGED connVars
  BY <1>3 DEF StopBegins, ClosesQuit, OnceReturns, StopReturns
<1>4. CASE \E s \in Stoppers : ClosesListener(s)
  BY <1>4 DEF ClosesListener
<1> QED
  BY <1>1, <1>2, <1>3, <1>4 DEF ServeStep, StopStep

LEMMA PipeInvariance == Spec => []PipeInv
<1>1. Init => PipeInv
  BY DEF Init, PipeInv
<1>2. PipeInv /\ [Next]_vars => PipeInv'
  <2> SUFFICES ASSUME PipeInv, [Next]_vars PROVE PipeInv'
    OBVIOUS
  <2>1. CASE UNCHANGED vars
    BY <2>1 DEF vars, PipeInv
  <2>2. CASE \/ Start \/ AcceptFails \/ ServeStep
             \/ \E s \in Stoppers : StopBegins(s) \/ StopStep(s)
    BY <2>2, OthersLeavePipes DEF PipeInv
  <2> QED
    BY <2>1, <2>2, PipeInvPipe DEF Next
<1> QED
  BY <1>1, <1>2, PTL DEF Spec

(* pipe() never closes a connection while one end still sends and the other
   still listens, for any number of connections. *)
THEOREM AnswersNeverCut == Spec => NoAnswerCut
<1> DEFINE Cut(c) == conn[c] = "copy" /\ conn'[c] = "closed"
           Whole(c) == <<client[c], upstream[c]>> \notin
                         {<<"open", "open">>, <<"half", "open">>, <<"open", "half">>}
<1>1. ASSUME PipeInv, NEW c \in Conns, PipeReturns(c)
      PROVE  Whole(c)
  BY <1>1 DEF PipeInv, PipeReturns
<1>2. ASSUME PipeInv, NEW c \in Conns, NEW d \in Conns, PipeStep(d) \/ Peer(d), Cut(c)
      PROVE  c = d /\ PipeReturns(c)
  BY <1>2 DEF PipeInv, PipeStep, Peer, Dials, DialFails, UpEnds, DownEnds, PipeReturns,
     Connects, ClientCloses, UpstreamCloses, UpBreaks, DownBreaks
<1>3. PipeInv /\ [Next]_vars => [\A c \in Conns : Cut(c) => Whole(c)]_vars
  <2> SUFFICES ASSUME PipeInv, Next, NEW c \in Conns, Cut(c) PROVE Whole(c)
    OBVIOUS
  <2>1. CASE \/ Start \/ AcceptFails \/ ServeStep
             \/ \E s \in Stoppers : StopBegins(s) \/ StopStep(s)
    BY <2>1, OthersLeavePipes
  <2>2. CASE \E d \in Conns : PipeStep(d) \/ Peer(d)
    BY <2>2, <1>1, <1>2
  <2> QED
    BY <2>1, <2>2 DEF Next
<1> QED
  BY <1>3, PipeInvariance, PTL DEF Spec, NoAnswerCut
=============================================================================
