------------------------------- MODULE Domain -------------------------------
(***************************************************************************)
(* internal/domain: the name a port-forward gets.                          *)
(*                                                                         *)
(* Text is abstracted to a sequence of words, a word being a maximal run   *)
(* of letters and digits: that is all sanitize() keeps of its input, since *)
(* it lowercases, turns every other run of characters into one dash and    *)
(* trims the dashes at both ends.  A word is a pair <<kind, value>>: "id"  *)
(* for a plain word, "num" for a number, "port" for "port<N>", and "uni"   *)
(* for a word with a letter outside a-z, which sanitize() keeps since      *)
(* unicode.IsLetter accepts it.  The 63-byte cut of a label is a cut to    *)
(* the first MaxWords words.  The TLD, the same for every name, is left    *)
(* out.                                                                    *)
(***************************************************************************)
EXTENDS Config, Sequences

CONSTANTS
  Ports,      \* local ports a forward may listen on
  Forwards,   \* scanner.PortForward values: [port, host, resource, rport]
  Overrides,  \* cfg.Overrides: local port -> words of the chosen identifier
  MaxWords    \* words that fit in one DNS label

ASSUME ForwardsAssumption ==
  /\ \A f \in Forwards : f.port \in Ports
  /\ DOMAIN Overrides \subseteq Ports
  /\ MaxWords \in Nat \ {0}

sanitize(words) ==
  IF Len(words) > MaxWords THEN SubSeq(words, 1, MaxWords) ELSE words

(* Override, then ssh's remote host, then kubectl's resource, then the
   fallback "port-<localPort>". *)
baseIdentifier(pf) ==
  IF pf.port \in DOMAIN Overrides THEN Overrides[pf.port]
  ELSE IF pf.host # << >>         THEN pf.host
  ELSE IF pf.resource # << >>     THEN pf.resource
  ELSE << <<"id", "port">>, <<"num", pf.port>> >>

(* A known service's name, or the single word "port<N>". *)
serviceLabel(remotePort) ==
  IF ServiceName(remotePort) # "" THEN <<"id", ServiceName(remotePort)>>
                                  ELSE <<"port", remotePort>>

PlainName(pf) ==
  sanitize(Append(baseIdentifier(pf), serviceLabel(pf.rport)))

SuffixedName(pf) ==
  sanitize(baseIdentifier(pf)
             \o << serviceLabel(pf.rport), <<"num", pf.port>> >>)

(* Mutant of Generate: no collision check. *)
GenerateUnchecked(pf, activeNames) == PlainName(pf)

(* The plain name, or the one with the local port appended when the plain
   one is taken.  The second name is not checked against activeNames. *)
Generate(pf, activeNames) ==
  IF PlainName(pf) \in activeNames THEN SuffixedName(pf) ELSE PlainName(pf)

Names == {PlainName(f) : f \in Forwards} \cup {SuffixedName(f) : f \in Forwards}

(* The cut leaves every suffix intact: no two forwards on different ports
   share a suffixed name, and no suffixed name is another's plain name. *)
SuffixesDistinct ==
  \A f, g \in Forwards :
    f.port # g.port => /\ SuffixedName(f) # SuffixedName(g)
                       /\ SuffixedName(f) # PlainName(g)

(* Every name fits in its label with the suffix. *)
NamesFit ==
  \A f \in Forwards : Len(baseIdentifier(f)) + 2 <= MaxWords
=============================================================================
