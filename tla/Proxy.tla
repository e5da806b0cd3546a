------------------------------- MODULE Proxy --------------------------------
(***************************************************************************)
(* internal/proxy: one TCP proxy.  Its goroutines are the callers of       *)
(* Stop, the accept loop serve(), and for every connection pipe() with its *)
(* two io.Copy.  TLS is part of accepting and dialling and changes none of *)
(* this; what is sent over a connection is left out, only its ends show.   *)
(***************************************************************************)
EXTENDS Naturals, FiniteSets

CONSTANTS
  Conns,          \* client connections
  Stoppers,       \* goroutines that call Stop
  AcceptErrors    \* how often Accept may fail by itself (EMFILE and the like)

ASSUME AcceptErrorsAssumption == AcceptErrors \in Nat

VARIABLES
  listener,   \* "none" | "open" | "closed"
  quit,       \* how often quit was closed; a second time panics
  once,       \* stopOnce: "free" | "quit" (running) | "done"
  stop,       \* stop[s]: "idle" | "once" | "closing" | "wait" | "returned"
  serve,      \* the accept loop: "none" | "accept" | "failed" | "done"
  logged,     \* serve() logged an accept error
  errors,     \* accept errors that were not due to Stop
  conn,       \* conn[c]: "none" | "backlog" | "dial" | "copy" | "closed"
  up, down,   \* io.Copy to and from upstream: "none" | "run" | "done"
  client,     \* client[c]: "open" | "half" (sends no more) | "gone" (closed)
  upstream    \* the same of the forward's end

vars == <<listener, quit, once, stop, serve, logged, errors, conn,
          up, down, client, upstream>>

stopVars == <<quit, once, stop>>
serveVars == <<serve, logged, errors>>
connVars == <<conn, up, down, client, upstream>>

(* Every variable ranges over the states of the Go object it stands for. *)
TypeOK ==
  /\ listener \in {"none", "open", "closed"}
  /\ quit \in Nat
  /\ once \in {"free", "quit", "done"}
  /\ stop \in [Stoppers -> {"idle", "once", "closing", "wait", "returned"}]
  /\ serve \in {"none", "accept", "failed", "done"}
  /\ logged \in BOOLEAN
  /\ errors \in 0..AcceptErrors
  /\ conn \in [Conns -> {"none", "backlog", "dial", "copy", "closed"}]
  /\ up \in [Conns -> {"none", "run", "done"}]
  /\ down \in [Conns -> {"none", "run", "done"}]
  /\ client \in [Conns -> {"open", "half", "gone"}]
  /\ upstream \in [Conns -> {"open", "half", "gone"}]

Init ==
  /\ listener = "none"
  /\ quit = 0
  /\ once = "free"
  /\ stop = [s \in Stoppers |-> "idle"]
  /\ serve = "none"
  /\ logged = FALSE
  /\ errors = 0
  /\ conn = [c \in Conns |-> "none"]
  /\ up = [c \in Conns |-> "none"]
  /\ down = [c \in Conns |-> "none"]
  /\ client = [c \in Conns |-> "gone"]
  /\ upstream = [c \in Conns |-> "gone"]

-----------------------------------------------------------------------------
(* Start that succeeds: the daemon drops a proxy whose Start failed. *)
Start ==
  /\ listener = "none"
  /\ listener' = "open"
  /\ serve' = "accept"
  /\ UNCHANGED <<stopVars, logged, errors, connVars>>

(* Stop, which is called on started proxies only. *)
StopBegins(s) ==
  /\ listener # "none"
  /\ stop[s] = "idle"
  /\ stop' = [stop EXCEPT ![s] = "once"]
  /\ UNCHANGED <<listener, quit, once, serveVars, connVars>>

(* Mutant of ClosesQuit: quit stays open. *)
ClosesQuitForgotten(s) ==
  /\ stop[s] = "once"
  /\ once = "free"
  /\ once' = "quit"
  /\ stop' = [stop EXCEPT ![s] = "closing"]
  /\ UNCHANGED <<listener, quit, serveVars, connVars>>

(* stopOnce.Do: the first caller runs the function, the others wait for its
   end. *)
ClosesQuit(s) ==
  /\ stop[s] = "once"
  /\ once = "free"
  /\ once' = "quit"
  /\ stop' = [stop EXCEPT ![s] = "closing"]
  /\ quit' = quit + 1
  /\ UNCHANGED <<listener, serveVars, connVars>>

ClosesListener(s) ==
  /\ stop[s] = "closing"
  /\ stop' = [stop EXCEPT ![s] = "wait"]
  /\ once' = "done"
  /\ listener' = "closed"
  /\ conn' = [c \in Conns |-> IF conn[c] = "backlog" THEN "closed" ELSE conn[c]]
  /\ UNCHANGED <<quit, serveVars, up, down, client, upstream>>

OnceReturns(s) ==
  /\ stop[s] = "once"
  /\ once = "done"
  /\ stop' = [stop EXCEPT ![s] = "wait"]
  /\ UNCHANGED <<listener, quit, once, serveVars, connVars>>

(* Mutants of StopReturns: no Wait; the group counts the pipes as well. *)
StopReturnsAtOnce(s) ==
  /\ stop[s] = "wait"
  /\ stop' = [stop EXCEPT ![s] = "returned"]
  /\ UNCHANGED <<listener, quit, once, serveVars, connVars>>
StopReturnsAfterPipes(s) ==
  /\ stop[s] = "wait"
  /\ serve = "done"
  /\ \A c \in Conns : conn[c] \notin {"dial", "copy"}
  /\ stop' = [stop EXCEPT ![s] = "returned"]
  /\ UNCHANGED <<listener, quit, once, serveVars, connVars>>

(* wg.Wait: the group counts the accept loop and nothing else. *)
StopReturns(s) ==
  /\ stop[s] = "wait"
  /\ serve = "done"
  /\ stop' = [stop EXCEPT ![s] = "returned"]
  /\ UNCHANGED <<listener, quit, once, serveVars, connVars>>

-----------------------------------------------------------------------------
(* serve() *)

(* Mutant of Accepts: pipe() runs in the accept loop's own goroutine. *)
AcceptsOneAtATime(c) ==
  /\ serve = "accept"
  /\ listener = "open"
  /\ conn[c] = "backlog"
  /\ \A d \in Conns : conn[d] \notin {"dial", "copy"}
  /\ conn' = [conn EXCEPT ![c] = "dial"]
  /\ UNCHANGED <<listener, stopVars, serveVars, up, down, client, upstream>>

Accepts(c) ==
  /\ serve = "accept"
  /\ listener = "open"
  /\ conn[c] = "backlog"
  /\ conn' = [conn EXCEPT ![c] = "dial"]
  /\ UNCHANGED <<listener, stopVars, serveVars, up, down, client, upstream>>

(* Accept fails because the listener is closed, or by itself. *)
AcceptClosed ==
  /\ serve = "accept"
  /\ listener = "closed"
  /\ serve' = "failed"
  /\ UNCHANGED <<listener, stopVars, logged, errors, connVars>>

AcceptFails ==
  /\ serve = "accept"
  /\ errors < AcceptErrors
  /\ errors' = errors + 1
  /\ serve' = "failed"
  /\ UNCHANGED <<listener, stopVars, logged, connVars>>

(* The select on quit, then the return: the loop never accepts again. *)
ServeReturns ==
  /\ serve = "failed"
  /\ serve' = "done"
  /\ logged' = (logged \/ quit = 0)
  /\ UNCHANGED <<listener, stopVars, errors, connVars>>

-----------------------------------------------------------------------------
(* pipe() *)

Dials(c) ==
  /\ conn[c] = "dial"
  /\ conn' = [conn EXCEPT ![c] = "copy"]
  /\ up' = [up EXCEPT ![c] = "run"]
  /\ down' = [down EXCEPT ![c] = "run"]
  /\ upstream' = [upstream EXCEPT ![c] = "open"]
  /\ UNCHANGED <<listener, stopVars, serveVars, client>>

DialFails(c) ==
  /\ conn[c] = "dial"
  /\ conn' = [conn EXCEPT ![c] = "closed"]
  /\ UNCHANGED <<listener, stopVars, serveVars, up, down, client, upstream>>

(* io.Copy ends at the end of its source.  It does not tell its
   destination. *)
UpEnds(c) ==
  /\ up[c] = "run"
  /\ client[c] # "open"
  /\ up' = [up EXCEPT ![c] = "done"]
  /\ UNCHANGED <<listener, stopVars, serveVars, conn, down, client, upstream>>

(* Mutant of DownEnds: the copy from upstream never notices its end. *)
DownEndsNever(c) == FALSE

DownEnds(c) ==
  /\ down[c] = "run"
  /\ upstream[c] # "open"
  /\ down' = [down EXCEPT ![c] = "done"]
  /\ UNCHANGED <<listener, stopVars, serveVars, conn, up, client, upstream>>

(* It also ends when it has data for a peer that is gone. *)
UpBreaks(c) ==
  /\ up[c] = "run"
  /\ upstream[c] = "gone"
  /\ up' = [up EXCEPT ![c] = "done"]
  /\ UNCHANGED <<listener, stopVars, serveVars, conn, down, client, upstream>>

DownBreaks(c) ==
  /\ down[c] = "run"
  /\ client[c] = "gone"
  /\ down' = [down EXCEPT ![c] = "done"]
  /\ UNCHANGED <<listener, stopVars, serveVars, conn, up, client, upstream>>

(* Mutant of PipeReturns: the first copy to end closes the connection. *)
PipeReturnsEarly(c) ==
  /\ conn[c] = "copy"
  /\ up[c] = "done" \/ down[c] = "done"
  /\ conn' = [conn EXCEPT ![c] = "closed"]
  /\ UNCHANGED <<listener, stopVars, serveVars, up, down, client, upstream>>

(* wg.Wait and the deferred Close of both ends. *)
PipeReturns(c) ==
  /\ conn[c] = "copy"
  /\ up[c] = "done" /\ down[c] = "done"
  /\ conn' = [conn EXCEPT ![c] = "closed"]
  /\ UNCHANGED <<listener, stopVars, serveVars, up, down, client, upstream>>

-----------------------------------------------------------------------------
(* The two ends of a connection. *)

Connects(c) ==
  /\ listener = "open"
  /\ conn[c] = "none"
  /\ conn' = [conn EXCEPT ![c] = "backlog"]
  /\ client' = [client EXCEPT ![c] = "open"]
  /\ UNCHANGED <<listener, stopVars, serveVars, up, down, upstream>>

(* An end stops sending, or closes for good. *)
ClientCloses(c) ==
  /\ \/ client[c] = "open" /\ client' = [client EXCEPT ![c] = "half"]
     \/ client[c] # "gone" /\ client' = [client EXCEPT ![c] = "gone"]
  /\ UNCHANGED <<listener, stopVars, serveVars, conn, up, down, upstream>>

UpstreamCloses(c) ==
  /\ \/ upstream[c] = "open" /\ upstream' = [upstream EXCEPT ![c] = "half"]
     \/ upstream[c] # "gone" /\ upstream' = [upstream EXCEPT ![c] = "gone"]
  /\ UNCHANGED <<listener, stopVars, serveVars, conn, up, down, client>>

-----------------------------------------------------------------------------
StopStep(s) == ClosesQuit(s) \/ ClosesListener(s) \/ OnceReturns(s) \/ StopReturns(s)

ServeStep == (\E c \in Conns : Accepts(c)) \/ AcceptClosed \/ ServeReturns

PipeStep(c) == Dials(c) \/ DialFails(c) \/ UpEnds(c) \/ DownEnds(c) \/ PipeReturns(c)

Peer(c) == Connects(c) \/ ClientCloses(c) \/ UpstreamCloses(c) \/ UpBreaks(c) \/ DownBreaks(c)

Next ==
  \/ Start \/ AcceptFails \/ ServeStep
  \/ \E s \in Stoppers : StopBegins(s) \/ StopStep(s)
  \/ \E c \in Conns : PipeStep(c) \/ Peer(c)

Spec == Init /\ [][Next]_vars

(* Every goroutine that can run does, and the kernel's backlog passes no
   connection over.  Nobody has to close a connection. *)
FairSpec ==
  /\ Spec
  /\ WF_vars(ServeStep)
  /\ \A c \in Conns : WF_vars(Accepts(c)) /\ WF_vars(PipeStep(c))
  /\ \A s \in Stoppers : WF_vars(StopStep(s))

-----------------------------------------------------------------------------
(* Once any call of Stop has returned the port is free and nothing accepts:
   remove() may hand the address to the next forward. *)
StopQuiesces ==
  \A s \in Stoppers : stop[s] = "returned" => listener = "closed" /\ serve = "done"

(* serve() reports only errors that Stop did not cause: quit is closed
   before the listener. *)
NoSpuriousLog == logged => errors > 0

(* A half-closed connection is not cut: while one end has only stopped
   sending, the other's answer still gets through. *)
NoAnswerCut ==
  [][\A c \in Conns :
       conn[c] = "copy" /\ conn'[c] = "closed" =>
         <<client[c], upstream[c]>> \notin {<<"open", "open">>, <<"half", "open">>,
                                            <<"open", "half">>}]_vars

(* Stop returns, even while connections are open. *)
StopCompletes ==
  \A s \in Stoppers : stop[s] = "once" ~> stop[s] = "returned"

(* A connection both ends have closed is released. *)
ConnReleased ==
  \A c \in Conns :
    conn[c] = "copy" /\ client[c] # "open" /\ upstream[c] # "open" ~> conn[c] = "closed"

(* Unless Accept itself fails, no client waits behind another: its
   connection is piped, refused or closed. *)
EventuallyServed ==
  \A c \in Conns : conn[c] = "backlog" ~> conn[c] # "backlog" \/ errors > 0

-----------------------------------------------------------------------------
(* The inductive invariant: the once-function runs in one goroutine, closes
   quit and then the listener, and only a closed listener ends a Stop. *)
StopInv ==
  /\ stop \in [Stoppers -> {"idle", "once", "closing", "wait", "returned"}]
  /\ errors \in Nat
  /\ quit = IF once = "free" THEN 0 ELSE 1
  /\ listener = "closed" <=> once = "done"
  /\ listener = "none" => serve = "none"
  /\ serve = "failed" => errors > 0 \/ quit = 1
  /\ \A s \in Stoppers :
       /\ stop[s] = "closing" => once = "quit" /\ listener # "none"
       /\ stop[s] # "idle" => listener # "none"
       /\ stop[s] \in {"wait", "returned"} => once = "done"
  /\ \A s, t \in Stoppers : stop[s] = "closing" /\ stop[t] = "closing" => s = t

IInv == StopInv /\ StopQuiesces /\ NoSpuriousLog

(* The inductive invariant of the connections: nothing is copied before the
   dial, and why each copy that is done has ended. *)
PipeInv ==
  /\ conn \in [Conns -> {"none", "backlog", "dial", "copy", "closed"}]
  /\ up \in [Conns -> {"none", "run", "done"}]
  /\ down \in [Conns -> {"none", "run", "done"}]
  /\ client \in [Conns -> {"open", "half", "gone"}]
  /\ upstream \in [Conns -> {"open", "half", "gone"}]
  /\ \A c \in Conns :
       /\ conn[c] \in {"none", "backlog", "dial"} => up[c] = "none" /\ down[c] = "none"
       /\ up[c] = "done" => client[c] # "open" \/ upstream[c] = "gone"
       /\ down[c] = "done" => upstream[c] # "open" \/ client[c] = "gone"
=============================================================================
