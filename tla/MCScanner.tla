----------------------------- MODULE MCScanner ------------------------------
(***************************************************************************)
(* Command lines for the scanner: the forms of the README, section "SSH    *)
(* flag support" and "kubectl support", and programs that are no forward.  *)
(***************************************************************************)
EXTENDS Scanner

Fwd(port, host, rport) == [port |-> port, host |-> host, rport |-> rport]

Proc(program, nameHas, forwards, resource, sockets, cmdline) ==
  [program |-> program, nameHas |-> nameHas, forwards |-> forwards,
   resource |-> resource, sockets |-> sockets, loopback |-> TRUE,
   cmdline |-> cmdline]

SSH == Word("ssh", {"ssh"})
KUBECTL == Word("kubectl", {"kubectl"})
PortForwardVerb == Word("port-forward", {"port-forward"})
Bastion == Word("user@bastion", {})
Quiet == Word("-oLogLevel=ERROR", {"-L"})

\* ssh with one -L per forward, each written in the same way
Parts(bound, fwd) ==
  (IF bound THEN <<Text("127.0.0.1")>> ELSE << >>) \o
  <<Num(fwd.port), Text(fwd.host), Num(fwd.rport)>>

Written(style, bound, fwd) ==
  CASE style = "-L spec"  -> <<Flags({"L"}), Spec(Parts(bound, fwd))>>
    [] style = "-NL spec" -> <<Flags({"N", "L"}), Spec(Parts(bound, fwd))>>
    [] style = "-Lspec"   -> <<Attached(Parts(bound, fwd))>>

Ssh(style, bound, fwds) ==
  Proc("ssh", {"ssh"}, Range(fwds), "", {},
       <<SSH>>
       \o FlattenSeq([i \in DOMAIN fwds |-> Written(style, bound, fwds[i])])
       \o <<Bastion>>)

One == <<Fwd(1, "db", 5432)>>
Two == <<Fwd(2, "web", 80), Fwd(3, "api", 443)>>

\* kubectl -n ns port-forward app ports ...
Kubectl(forwards, ns, ports) ==
  Proc("kubectl", {"kubectl"}, forwards, "app", {},
       <<KUBECTL, Flags({"n"}), ns, PortForwardVerb, Word("app", {})>> \o ports)

KubectlPairs ==
  Kubectl({Fwd(1, "", 80), Fwd(4, "", 9090)}, Word("ns", {}),
          <<Spec(<<Num(1), Num(80)>>), Spec(<<Num(4), Num(9090)>>)>>)

\* A local port alone; a namespace that makes the line look like ssh's.
KubectlShort == Kubectl({Fwd(4, "", 4)}, Word("ns", {}), <<Spec(<<Num(4)>>)>>)
KubectlAsSsh ==
  Kubectl({Fwd(4, "", 9090)}, Word("ssh-Lab", {"ssh", "-L"}), <<Spec(<<Num(4), Num(9090)>>)>>)

\* ssh -D: by itself, with an option that looks like -L, and beside -L.
Socks(option) ==
  Proc("ssh", {"ssh"}, {}, "", {2}, <<SSH, option, Flags({"D"}), Spec(<<Num(2)>>), Bastion>>)
SocksBesideL ==
  [Ssh("-L spec", FALSE, One) EXCEPT !.sockets = {2},
                                     !.cmdline = @ \o <<Flags({"D"}), Spec(<<Num(2)>>)>>]

\* Other programs, one of which has ssh in its name and runs ssh quietly.
Sshuttle == Proc("sshuttle", {"ssh"}, {}, "", {3},
                 <<Word("sshuttle", {"ssh"}), Flags({"e"}), SSH, Quiet>>)
Sshd == Proc("sshd", {"ssh"}, {}, "", {4}, <<Word("sshd", {"ssh"})>>)
Server == Proc("python", {}, {}, "", {3}, <<Word("python", {})>>)
Public == [Ssh("-L spec", TRUE, One) EXCEPT !.loopback = FALSE]

SshForms ==
  {Ssh(style, bound, fwds) : style \in {"-L spec", "-NL spec", "-Lspec"},
                             bound \in BOOLEAN, fwds \in {One, Two}}

MCProcs ==
  SshForms \cup {KubectlPairs, KubectlShort, KubectlAsSsh, Socks(Flags({"N"})), Socks(Quiet),
                 SocksBesideL, Sshuttle, Sshd, Server, Public}

(* They are programs the theorems of Scanner_proof speak of. *)
ASSUME ProcsAssumption == \A proc \in MCProcs : Truthful(proc)
=============================================================================
