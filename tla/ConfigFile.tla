----------------------------- MODULE ConfigFile -----------------------------
(***************************************************************************)
(* The file of internal/config and everybody who uses it: `lad set` and    *)
(* `lad unset`, several at a time, which load the file, change it in       *)
(* memory and write it back without a lock; the user, who edits it by      *)
(* hand; `lad uninstall`, which deletes it; the daemon, which loads it     *)
(* when its service starts it.                                             *)
(*                                                                         *)
(* Of a text only the poll interval and the overrides are kept; tld and    *)
(* service_ports are loaded and saved the way the interval is.             *)
(***************************************************************************)
EXTENDS Integers

CONSTANTS
  Cmds,      \* processes that run set and unset, one after the other
  Ports,     \* local ports
  Names,     \* domain identifiers
  Polls,     \* poll intervals a user may write, in seconds
  None,      \* no override
  Null,      \* "overrides:" with nothing after it: a nil map
  NoText,    \* the file is missing or empty
  Garbled    \* a text Unmarshal refuses

defaultPoll == 2

ASSUME ConfigFileAssumption ==
  /\ Ports # {}
  /\ Polls \subseteq Int
  /\ defaultPoll \in Polls
  /\ None \notin Names
  /\ Null \notin [Ports -> Names \union {None}]

Config == [poll : Polls, ovr : [Ports -> Names \union {None}] \union {Null}]

ASSUME TextAssumption == NoText \notin Config /\ Garbled \notin Config /\ NoText # Garbled

Texts == Config \union {NoText, Garbled}
Ops == [port : Ports, name : Names \union {None}]    \* unset has no name

Default == [poll |-> defaultPoll, ovr |-> [p \in Ports |-> None]]

VARIABLES
  file,        \* config.yaml
  pc,          \* pc[c]: "idle" | "loaded" | "opened" (the file is truncated)
  op,          \* op[c]: the change c was asked for
  mem,         \* mem[c]: the Config c will save
  up,          \* the daemon runs
  want,        \* history: what the user wrote, and the updates saved since
  alone,       \* history: nobody touched the file since c loaded it
  overlapped,  \* history: since the user's text, one wrote what another had changed
  cut          \* history: since the user's text, one ended between open and write

vars == <<file, pc, op, mem, up, want, alone, overlapped, cut>>

(* Every variable keeps to the values it is documented with. *)
TypeOK ==
  /\ file \in Texts
  /\ pc \in [Cmds -> {"idle", "loaded", "opened"}]
  /\ op \in [Cmds -> Ops]
  /\ mem \in [Cmds -> Config]
  /\ up \in BOOLEAN
  /\ want \in Texts
  /\ alone \in [Cmds -> BOOLEAN]
  /\ overlapped \in BOOLEAN
  /\ cut \in BOOLEAN

NoOp == CHOOSE o \in Ops : TRUE

Init ==
  /\ file = NoText
  /\ pc = [c \in Cmds |-> "idle"]
  /\ op = [c \in Cmds |-> NoOp]
  /\ mem = [c \in Cmds |-> Default]
  /\ up = FALSE
  /\ want = NoText
  /\ alone = [c \in Cmds |-> FALSE]
  /\ overlapped = FALSE
  /\ cut = FALSE

-----------------------------------------------------------------------------
(* Mutant of Load: the settings that are not in the file stay zero. *)
LoadZero(text) == IF text = NoText THEN [Default EXCEPT !.poll = 0] ELSE text

(* Load fills in the defaults; a file that is not there, and an empty one,
   has nothing to replace them. It fails on a garbled text. *)
Load(text) == IF text = NoText THEN Default ELSE text
Loadable(text) == text # Garbled

Panics(cfg, o) == cfg.ovr = Null /\ o.name # None      \* a write to a nil map

(* SetOverride and RemoveOverride in memory. A nil map is saved as {}. *)
Change(cfg, o) ==
  [cfg EXCEPT !.ovr = IF @ = Null THEN Default.ovr ELSE [@ EXCEPT ![o.port] = o.name]]

(* Mutant of Loads: the change is made to the defaults, not to the file. *)
LoadsDefault(c) ==
  /\ pc[c] = "idle"
  /\ Loadable(file)
  /\ \E o \in Ops :
       /\ ~Panics(Load(file), o)
       /\ op' = [op EXCEPT ![c] = o]
       /\ mem' = [mem EXCEPT ![c] = Change(Default, o)]
  /\ pc' = [pc EXCEPT ![c] = "loaded"]
  /\ alone' = [alone EXCEPT ![c] = \A d \in Cmds : pc[d] # "opened"]
  /\ UNCHANGED <<file, up, want, overlapped, cut>>

(* cmdSet, cmdUnset: Load, then the change. A file that does not load ends
   the command, a set with a nil map panics; neither wrote anything. *)
Loads(c) ==
  /\ pc[c] = "idle"
  /\ Loadable(file)
  /\ \E o \in Ops :
       /\ ~Panics(Load(file), o)
       /\ op' = [op EXCEPT ![c] = o]
       /\ mem' = [mem EXCEPT ![c] = Change(Load(file), o)]
  /\ pc' = [pc EXCEPT ![c] = "loaded"]
  /\ alone' = [alone EXCEPT ![c] = \A d \in Cmds : pc[d] # "opened"]
  /\ UNCHANGED <<file, up, want, overlapped, cut>>

(* Save: WriteFile truncates the file, then writes it. *)
Opens(c) ==
  /\ pc[c] = "loaded"
  /\ file' = NoText
  /\ pc' = [pc EXCEPT ![c] = "opened"]
  /\ alone' = [d \in Cmds |-> d = c /\ alone[c]]
  /\ overlapped' = (overlapped \/ ~alone[c])
  /\ UNCHANGED <<op, mem, up, want, cut>>

(* What is left of a longer text that was written in between sticks out. *)
Fills(c) ==
  /\ pc[c] = "opened"
  /\ \/ file' = mem[c]
     \/ file # NoText /\ file' = Garbled
  /\ want' = IF Loadable(want) THEN Change(Load(want), op[c]) ELSE want
  /\ pc' = [pc EXCEPT ![c] = "idle"]
  /\ op' = [op EXCEPT ![c] = NoOp]
  /\ mem' = [mem EXCEPT ![c] = Default]
  /\ overlapped' = (overlapped \/ ~alone[c])
  /\ UNCHANGED <<up, alone, cut>>

(* The command is interrupted, or Save fails and the command with it. *)
Interrupt(c) ==
  /\ pc[c] # "idle"
  /\ cut' = (cut \/ pc[c] = "opened")
  /\ pc' = [pc EXCEPT ![c] = "idle"]
  /\ op' = [op EXCEPT ![c] = NoOp]
  /\ mem' = [mem EXCEPT ![c] = Default]
  /\ UNCHANGED <<file, up, want, alone, overlapped>>

-----------------------------------------------------------------------------
(* From here on the file is what the user made of it. *)
StartsOver ==
  /\ want' = file'
  /\ alone' = [c \in Cmds |-> FALSE]
  /\ overlapped' = FALSE
  /\ cut' = FALSE

Edits ==
  /\ file' \in Texts
  /\ StartsOver
  /\ UNCHANGED <<pc, op, mem, up>>

(* uninstall deletes the file; who has it open writes to nowhere. *)
Uninstall ==
  /\ file' = NoText
  /\ pc' = [c \in Cmds |-> IF pc[c] = "opened" THEN "idle" ELSE pc[c]]
  /\ op' = [c \in Cmds |-> IF pc[c] = "opened" THEN NoOp ELSE op[c]]
  /\ mem' = [c \in Cmds |-> IF pc[c] = "opened" THEN Default ELSE mem[c]]
  /\ StartsOver
  /\ UNCHANGED up

(* cmdDaemon fails when Load does, and NewTicker panics unless the interval
   is positive. *)
Startable(text) == Loadable(text) /\ Load(text).poll > 0

DaemonStarts ==
  /\ ~up
  /\ Startable(file)
  /\ up' = TRUE
  /\ UNCHANGED <<file, pc, op, mem, want, alone, overlapped, cut>>

DaemonEnds ==
  /\ up
  /\ up' = FALSE
  /\ UNCHANGED <<file, pc, op, mem, want, alone, overlapped, cut>>

-----------------------------------------------------------------------------
CmdStep(c) == Loads(c) \/ Opens(c) \/ Fills(c) \/ Interrupt(c)

Next ==
  \/ \E c \in Cmds : CmdStep(c)
  \/ Edits \/ Uninstall \/ DaemonStarts \/ DaemonEnds

Spec == Init /\ [][Next]_vars

(* The service starts the daemon again whenever it ends (Restart=always,
   KeepAlive). Commands and the user need not do anything. *)
FairSpec == Spec /\ WF_vars(DaemonStarts)

-----------------------------------------------------------------------------
(* No update gets lost but by overlapping commands (Load to Save is not one
   step) or an interrupt inside WriteFile: otherwise, when nobody writes, the
   file is the user's text with every set and unset since, in their order. *)
UpdatesKept ==
  ~overlapped /\ ~cut /\ (\A c \in Cmds : pc[c] # "opened") => file = want

(* set and unset never keep a daemon from starting that could start with the
   user's text: neither while they write, nor after an interrupt, unless they
   overlap. *)
StaysStartable == ~overlapped /\ Startable(want) => Startable(file)

(* A service whose configuration is sound keeps getting its daemon up,
   however often commands rewrite the file and are interrupted. *)
DaemonComesUp ==
  <>[](~overlapped /\ Startable(want)) => []<>up

-----------------------------------------------------------------------------
(* The inductive invariant. *)

\* A command that nobody disturbed will save the wanted text with its change.
FreshInv ==
  \A c \in Cmds : pc[c] # "idle" /\ alone[c] /\ ~overlapped /\ ~cut =>
    Loadable(want) /\ mem[c] = Change(Load(want), op[c])

\* Beside an undisturbed command nobody writes: it finds the file empty.
WriterInv ==
  \A c \in Cmds : pc[c] # "idle" /\ alone[c] =>
    /\ \A d \in Cmds \ {c} : pc[d] # "opened"
    /\ pc[c] = "opened" => file = NoText

\* What an undisturbed command saves can be started with, if the text can.
SoundInv ==
  \A c \in Cmds : pc[c] # "idle" /\ alone[c] /\ ~overlapped /\ Startable(want) =>
    mem[c].poll > 0

IInv == TypeOK /\ UpdatesKept /\ StaysStartable /\ FreshInv /\ WriterInv /\ SoundInv
=============================================================================
