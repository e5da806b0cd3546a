--------------------------- MODULE ConfigFile_proof ---------------------------
(***************************************************************************)
(* Proofs about ConfigFile.tla, for any number of commands, ports and      *)
(* names.                                                                  *)
(***************************************************************************)
EXTENDS ConfigFile, TLAPS

(* There is an operation. *)
LEMMA OpIsThere == NoOp \in Ops
<1>1. PICK p \in Ports : TRUE
  BY ConfigFileAssumption
<1>2. [port |-> p, name |-> None] \in Ops
  BY <1>1 DEF Ops
<1> QED
  BY <1>2 DEF NoOp

(* A file that was not written yet loads as the defaults. *)
LEMMA DefaultIsConfig == Default \in Config /\ Default.poll > 0 /\ Default.poll = 2
<1>1. [p \in Ports |-> None] \in [Ports -> Names \union {None}]
  OBVIOUS
<1> QED
  BY <1>1, ConfigFileAssumption DEF Default, Config, defaultPoll

(* Load gives a Config, and keeps the interval of a text. *)
LEMMA LoadIsConfig ==
  ASSUME NEW text \in Texts, Loadable(text)
  PROVE  Load(text) \in Config
BY DefaultIsConfig DEF Texts, Loadable, Load

(* A change gives a Config with the same interval. *)
LEMMA ChangeIsConfig ==
  ASSUME NEW cfg \in Config, NEW o \in Ops
  PROVE  Change(cfg, o) \in Config /\ Change(cfg, o).poll = cfg.poll
<1>1. Default.ovr \in [Ports -> Names \union {None}]
  BY DEF Default
<1>2. CASE cfg.ovr = Null
  BY <1>1, <1>2 DEF Change, Config
<1>3. CASE cfg.ovr # Null
  <2>1. cfg.ovr \in [Ports -> Names \union {None}]
    BY <1>3 DEF Config
  <2>2. [cfg.ovr EXCEPT ![o.port] = o.name] \in [Ports -> Names \union {None}]
    BY <2>1 DEF Ops
  <2> QED
    BY <1>3, <2>2 DEF Change, Config
<1> QED
  BY <1>2, <1>3

(* A saved Config is no other kind of text. *)
LEMMA ConfigLoads ==
  ASSUME NEW cfg \in Config
  PROVE  cfg \in Texts /\ Loadable(cfg) /\ Load(cfg) = cfg /\ cfg # NoText
BY TextAssumption DEF Texts, Loadable, Load

(* An empty file can be started with. *)
LEMMA EmptyStartable == NoText \in Texts /\ Loadable(NoText) /\ Startable(NoText)
BY DefaultIsConfig, TextAssumption DEF Texts, Startable, Loadable, Load

(* The first state satisfies the invariant. *)
LEMMA ConfigInit == Init => IInv
<1> SUFFICES ASSUME Init PROVE IInv
  OBVIOUS
<1>1. TypeOK
  <2>1. up \in BOOLEAN /\ overlapped \in BOOLEAN /\ cut \in BOOLEAN
    BY Zenon DEF Init
  <2> QED
    BY <2>1, OpIsThere, DefaultIsConfig, EmptyStartable DEF Init, TypeOK
<1> QED
  BY <1>1, EmptyStartable
     DEF Init, IInv, UpdatesKept, StaysStartable, FreshInv, WriterInv, SoundInv

(* Every variable keeps its type in every step. *)
LEMMA ConfigType == TypeOK /\ [Next]_vars => TypeOK'
<1> SUFFICES ASSUME TypeOK, [Next]_vars PROVE TypeOK'
  OBVIOUS
<1> USE OpIsThere, DefaultIsConfig, EmptyStartable DEF TypeOK
<1>1. ASSUME NEW c \in Cmds, Loads(c) PROVE TypeOK'
  <2>1. PICK o \in Ops : op' = [op EXCEPT ![c] = o]
                         /\ mem' = [mem EXCEPT ![c] = Change(Load(file), o)]
    BY <1>1 DEF Loads
  <2>2. Change(Load(file), o) \in Config
    BY <1>1, LoadIsConfig, ChangeIsConfig DEF Loads
  <2>3. alone' \in [Cmds -> BOOLEAN]
    BY <1>1 DEF Loads
  <2> QED
    BY <1>1, <2>1, <2>2, <2>3 DEF Loads
<1>2. ASSUME NEW c \in Cmds, Opens(c) PROVE TypeOK'
  <2>1. alone' \in [Cmds -> BOOLEAN] /\ overlapped' \in BOOLEAN
    BY <1>2 DEF Opens
  <2> QED
    BY <1>2, <2>1 DEF Opens
<1>3. ASSUME NEW c \in Cmds, Fills(c) PROVE TypeOK'
  <2>1. file' \in Texts
    BY <1>3, ConfigLoads DEF Fills, Texts
  <2>2. want' \in Texts
    BY <1>3, LoadIsConfig, ChangeIsConfig DEF Fills, Texts
  <2>3. overlapped' \in BOOLEAN
    BY <1>3 DEF Fills
  <2> QED
    BY <1>3, <2>1, <2>2, <2>3 DEF Fills
<1>4. ASSUME NEW c \in Cmds, Interrupt(c) PROVE TypeOK'
  <2>1. cut' \in BOOLEAN
    BY <1>4 DEF Interrupt
  <2> QED
    BY <1>4, <2>1 DEF Interrupt
<1>5. CASE Edits
  <2>1. overlapped' \in BOOLEAN /\ cut' \in BOOLEAN
    BY <1>5, Zenon DEF Edits, StartsOver
  <2> QED
    BY <1>5, <2>1 DEF Edits, StartsOver
<1>6. CASE Uninstall
  <2>1. overlapped' \in BOOLEAN /\ cut' \in BOOLEAN
    BY <1>6, Zenon DEF Uninstall, StartsOver
  <2> QED
    BY <1>6, <2>1 DEF Uninstall, StartsOver
<1>7. CASE DaemonStarts
  <2>1. up' \in BOOLEAN
    BY <1>7, Zenon DEF DaemonStarts
  <2> QED
    BY <1>7, <2>1 DEF DaemonStarts
<1>8. CASE DaemonEnds
  <2>1. up' \in BOOLEAN
    BY <1>8, Zenon DEF DaemonEnds
  <2> QED
    BY <1>8, <2>1 DEF DaemonEnds
<1>9. CASE UNCHANGED vars
  BY <1>9 DEF vars
<1> QED
  BY <1>1, <1>2, <1>3, <1>4, <1>5, <1>6, <1>7, <1>8, <1>9 DEF Next, CmdStep

(* A command that loads keeps the invariant: it starts from the file, which
   is the wanted text unless something was lost already. *)
LEMMA LoadsKeeps ==
  ASSUME IInv, TypeOK', NEW c \in Cmds, Loads(c)
  PROVE  IInv'
<1> USE DEF IInv, TypeOK
<1>1. PICK o \in Ops : op' = [op EXCEPT ![c] = o]
                       /\ mem' = [mem EXCEPT ![c] = Change(Load(file), o)]
  BY DEF Loads
<1>2. /\ pc[c] = "idle"
      /\ pc' = [pc EXCEPT ![c] = "loaded"]
      /\ alone' = [alone EXCEPT ![c] = \A d \in Cmds : pc[d] # "opened"]
      /\ Loadable(file)
      /\ UNCHANGED <<file, up, want, overlapped, cut>>
  BY DEF Loads
<1>3. UpdatesKept'
  BY <1>2 DEF UpdatesKept
<1>4. StaysStartable'
  BY <1>2 DEF StaysStartable
<1>5. FreshInv'
  <2> SUFFICES ASSUME NEW d \in Cmds, pc'[d] # "idle", alone'[d], ~overlapped, ~cut
               PROVE  Loadable(want) /\ mem'[d] = Change(Load(want), op'[d])
    BY <1>2 DEF FreshInv
  <2>1. CASE d = c
    BY <1>1, <1>2, <2>1 DEF UpdatesKept
  <2>2. CASE d # c
    BY <1>1, <1>2, <2>2 DEF FreshInv
  <2> QED BY <2>1, <2>2
<1>6. WriterInv'
  BY <1>1, <1>2 DEF WriterInv
<1>7. SoundInv'
  <2> SUFFICES ASSUME NEW d \in Cmds, pc'[d] # "idle", alone'[d], ~overlapped, Startable(want)
               PROVE  mem'[d].poll > 0
    BY <1>2 DEF SoundInv
  <2>1. CASE d = c
    <3>1. Load(file).poll > 0
      BY DEF StaysStartable, Startable
    <3>2. Change(Load(file), o).poll = Load(file).poll
      BY <1>2, LoadIsConfig, ChangeIsConfig
    <3> QED BY <1>1, <2>1, <3>1, <3>2
  <2>2. CASE d # c
    BY <1>1, <1>2, <2>2 DEF SoundInv
  <2> QED BY <2>1, <2>2
<1> QED
  BY <1>3, <1>4, <1>5, <1>6, <1>7

(* A command that truncates the file makes all others stale. *)
LEMMA OpensKeeps ==
  ASSUME IInv, TypeOK', NEW c \in Cmds, Opens(c)
  PROVE  IInv'
<1> USE DEF IInv, TypeOK, Opens
<1>1. UpdatesKept'
  BY DEF UpdatesKept
<1>2. StaysStartable'
  BY EmptyStartable DEF StaysStartable
<1>3. FreshInv'
  BY DEF FreshInv
<1>4. WriterInv'
  BY DEF WriterInv
<1>5. SoundInv'
  BY DEF SoundInv
<1> QED
  BY <1>1, <1>2, <1>3, <1>4, <1>5

(* A command that writes the file: when it is undisturbed it is the only
   such one and saves the wanted text; otherwise it overlapped. *)
LEMMA FillsKeeps ==
  ASSUME IInv, TypeOK', NEW c \in Cmds, Fills(c)
  PROVE  IInv'
<1> USE DEF IInv, TypeOK
<1>1. CASE ~alone[c]
  <2>1. overlapped'
    BY <1>1 DEF Fills
  <2>2. WriterInv'
    BY <1>1 DEF Fills, WriterInv
  <2> QED
    BY <2>1, <2>2 DEF UpdatesKept, StaysStartable, FreshInv, SoundInv
<1>2. CASE alone[c]
  <2>1. file = NoText /\ file' = mem[c] /\ pc[c] = "opened"
    BY <1>2 DEF Fills, WriterInv
  <2>2. \A d \in Cmds : ~(pc'[d] # "idle" /\ alone'[d])
    BY <1>2, <2>1 DEF Fills, WriterInv
  <2>3. overlapped' = overlapped /\ cut' = cut
    BY <1>2 DEF Fills
  <2>4. UpdatesKept'
    BY <1>2, <2>1, <2>3 DEF Fills, FreshInv, UpdatesKept
  <2>5. StaysStartable'
    <3> SUFFICES ASSUME ~overlapped, Startable(want') PROVE Startable(mem[c])
      BY <2>1, <2>3 DEF StaysStartable
    <3>1. Loadable(want) /\ want' = Change(Load(want), op[c])
      BY DEF Fills, Startable
    <3>2. want' \in Config /\ want'.poll = Load(want).poll
      BY <3>1, LoadIsConfig, ChangeIsConfig
    <3>3. Startable(want)
      BY <3>1, <3>2, ConfigLoads DEF Startable
    <3>4. mem[c].poll > 0
      BY <1>2, <2>1, <3>3 DEF SoundInv
    <3> QED BY <3>4, ConfigLoads DEF Startable
  <2> QED
    BY <2>2, <2>4, <2>5 DEF FreshInv, WriterInv, SoundInv
<1> QED
  BY <1>1, <1>2

(* The other steps of the commands, the user and the daemon. *)
LEMMA OthersKeep ==
  ASSUME IInv, TypeOK',
         \/ \E c \in Cmds : Interrupt(c)
         \/ Edits \/ Uninstall \/ DaemonStarts \/ DaemonEnds \/ UNCHANGED vars
  PROVE  IInv'
<1> USE DEF IInv, TypeOK
<1>1. ASSUME NEW c \in Cmds, Interrupt(c) PROVE IInv'
  <2>1. UpdatesKept'
    BY <1>1 DEF UpdatesKept, Interrupt
  <2>2. StaysStartable'
    BY <1>1 DEF StaysStartable, Interrupt
  <2>3. FreshInv' /\ SoundInv'
    BY <1>1 DEF FreshInv, SoundInv, Interrupt
  <2>4. WriterInv'
    BY <1>1 DEF WriterInv, Interrupt
  <2> QED BY <2>1, <2>2, <2>3, <2>4
<1>2. CASE Edits
  BY <1>2 DEF Edits, StartsOver, UpdatesKept, StaysStartable, FreshInv, WriterInv, SoundInv
<1>3. CASE Uninstall
  BY <1>3 DEF Uninstall, StartsOver, UpdatesKept, StaysStartable, FreshInv, WriterInv, SoundInv
<1>4. CASE DaemonStarts
  BY <1>4 DEF DaemonStarts, UpdatesKept, StaysStartable, FreshInv, WriterInv, SoundInv
<1>5. CASE DaemonEnds
  BY <1>5 DEF DaemonEnds, UpdatesKept, StaysStartable, FreshInv, WriterInv, SoundInv
<1>6. CASE UNCHANGED vars
  BY <1>6 DEF vars, UpdatesKept, StaysStartable, FreshInv, WriterInv, SoundInv
<1> QED
  BY <1>1, <1>2, <1>3, <1>4, <1>5, <1>6

(* Spec keeps the inductive invariant, with any number of commands. *)
THEOREM ConfigInvariant == Spec => []IInv
<1>1. IInv /\ [Next]_vars => IInv'
  <2> SUFFICES ASSUME IInv, [Next]_vars PROVE IInv'
    OBVIOUS
  <2>1. TypeOK'
    BY ConfigType DEF IInv
  <2> QED
    BY <2>1, LoadsKeeps, OpensKeeps, FillsKeeps, OthersKeep DEF Next, CmdStep
<1> QED
  BY <1>1, ConfigInit, PTL DEF Spec

(* A set or unset that neither overlaps another nor is interrupted inside
   WriteFile is never lost (config.go Load, SetOverride, Save). *)
THEOREM UpdatesAlwaysKept == Spec => []UpdatesKept
<1>1. IInv => UpdatesKept
  BY DEF IInv
<1> QED
  BY <1>1, ConfigInvariant, PTL

(* However commands are interrupted, a daemon can start with the file when it
   could with the user's text (config.go Load and Save, daemon.go's ticker). *)
THEOREM AlwaysStartable == Spec => []StaysStartable
<1>1. IInv => StaysStartable
  BY DEF IInv
<1> QED
  BY <1>1, ConfigInvariant, PTL
=============================================================================
