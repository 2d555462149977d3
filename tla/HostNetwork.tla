----------------------------- MODULE HostNetwork -----------------------------
(***************************************************************************)
(* What a tunnel does to the host it runs on: pkg/security/killswitch.go   *)
(* and pkg/router, driven in the order in which ant-daemon and antclient   *)
(* call them, one connection after the other.                              *)
(*                                                                         *)
(* Both packages run commands (iptables, pfctl, ip, route, networksetup).  *)
(* A connect or a disconnect is the sequence of its commands; the host     *)
(* executes them one at a time, each may fail, and the process may die     *)
(* between any two.  The packet filter and the routing table are the       *)
(* kernel's and outlive the process; the TUN device and the routes through *)
(* it do not.  Most errors are ignored, so the model keeps the commands    *)
(* that failed, and the properties say which of them they rest on.         *)
(***************************************************************************)
EXTENDS Integers, Sequences, SequencesExt

CONSTANTS
    Systems,        \* the operating systems looked at
    Servers,        \* addresses of VPN servers
    TestServers,    \* those on the host itself, or named without an IPv4 address
    Hosts,          \* addresses of other hosts
    IPv6,           \* those that are IPv6 addresses
    Half,           \* the half of the address space, "low" or "high", of each
    NoServer,
    TunNames,       \* names of TUN devices: the daemon's "ant0", a client's -tun
    NoTun,
    Failing,        \* the commands that may fail on each system
    Crashes,        \* the systems on which the process may die
    MaxConnects     \* bound on the connections

ASSUME SystemsAssumption == Systems \subseteq {"linux", "darwin"} /\ Crashes \subseteq Systems
ASSUME TestServersAssumption == TestServers \subseteq Servers
ASSUME AddressesAssumption ==
    /\ Hosts \cap Servers = {} /\ NoServer \notin Servers /\ IPv6 \subseteq Hosts
    /\ \A a \in Servers \cup Hosts : Half[a] \in {"low", "high"}
ASSUME TunNamesAssumption ==
    NoTun \notin TunNames /\ {"physical", "lo"} \cap (TunNames \cup {NoTun}) = {}
\* assignments to the program's own fields are no commands
ASSUME FailingAssumption ==
    \A s \in Systems : Failing[s] \cap {"enabled", "disabled", "disconnected"} = {}
ASSUME MaxConnectsAssumption == MaxConnects \in Nat

VARIABLES
    chain,          \* the rules of the OUTPUT chain, or of the pf anchor
    filterOn,       \* the packet filter runs
    attached,       \* it evaluates the chain
    routes,         \* routes added to the host's own
    dns,            \* resolvers of the host
    gateway,        \* physicalGateway of the router is not empty
    server,         \* the server of the connection, NoServer without one
    tunName,        \* the name of the process's TUN device, NoTun without a process
    enabled,        \* KillSwitch.enabled
    todo,           \* commands still to run in the current call
    switch,         \* the process has a KillSwitch that Enable was called on
    missed,         \* history: needed commands of this connection that failed
    asked,          \* history: what was last asked of the kill switch, and done
    left,           \* history: for each DROP rule left behind, the device it lets pass
    connects,       \* connections so far
    os              \* the operating system

vars == <<chain, filterOn, attached, routes, dns, gateway, server, tunName, enabled, todo,
          switch, missed, asked, left, connects, os>>

\* iptables rules go into the OUTPUT chain itself.  Nothing in the program
\* attaches the pf anchor to the main ruleset: whether the host has is open.
Init ==
    /\ chain = <<>>
    /\ os \in Systems
    /\ filterOn = (os = "linux")
    /\ attached \in IF os = "linux" THEN {TRUE} ELSE BOOLEAN
    /\ routes = {}
    /\ dns = "original"
    /\ gateway = FALSE
    /\ server = NoServer
    /\ tunName = NoTun
    /\ enabled = FALSE
    /\ todo = <<>>
    /\ switch = FALSE
    /\ missed = {}
    /\ asked = "nothing"
    /\ left = {}
    /\ connects = 0

-----------------------------------------------------------------------------
(* Rules and routes as the kernel reads them.                              *)

\* A rule may name a TUN device, by which packets leave or do not leave.
Named(kind, s, name) == [kind |-> kind, server |-> s, tun |-> name]
Rule(kind, s) == Named(kind, s, NoTun)

Drop == Rule("drop", NoServer)

Matches(rule, iface, dst) ==
    CASE rule.kind = "server" -> iface # rule.tun /\ dst = rule.server
      [] rule.kind = "lo"     -> iface = "lo"
      [] rule.kind = "tun"    -> iface = rule.tun
      [] rule.kind = "drop"   -> TRUE

\* iptables sees IPv4 only; pf sees both, once the anchor is attached.
Filtered(dst) == attached /\ (os = "linux" => dst \notin IPv6)

\* The first rule that matches decides; the policy of the chain is ACCEPT.
Dropped(iface, dst) ==
    /\ filterOn /\ Filtered(dst)
    /\ \E i \in DOMAIN chain :
          /\ chain[i].kind = "drop"
          /\ \A j \in 1 .. i - 1 : ~ Matches(chain[j], iface, dst)

\* The longest prefix wins: a host route, then the IPv4 routes of length 1,
\* then the default route of the host.  The host itself is reached without.
RouteOf(dst) ==
    IF /\ dst \notin TestServers \cup IPv6
       /\ Rule("host", dst) \notin routes /\ Rule(Half[dst], NoServer) \in routes
    THEN "tun" ELSE "physical"

-----------------------------------------------------------------------------
(* Commands                                                                *)

\* A command, and how many of the following ones are skipped if it fails.
Command(op, arg, skip) == [op |-> op, arg |-> arg, skip |-> skip]

AddRoute(kind, s, skip) == Command("addRoute", Rule(kind, s), skip)
DelRoute(kind, s) == Command("delRoute", Rule(kind, s), 0)

DivertAll ==
    <<AddRoute("low", NoServer, IF os = "linux" THEN 0 ELSE 1), AddRoute("high", NoServer, 0)>>

\* mutant: the host route comes last
SetupRoutesHostLast(s) ==
    IF os = "linux" THEN DivertAll
    ELSE <<Command("gateway", NoServer, 3)>> \o DivertAll \o <<AddRoute("host", s, 0)>>

\* SetupRoutes with the empty gateway both programs pass.  Linux then adds
\* no route to the server.  Darwin asks for the default gateway, gives up
\* without one, and gives up when the first /1 route cannot be added.  For a
\* server on this host, or one whose name has no IPv4 address, only the
\* subnet of the tunnel is diverted.
SetupRoutes(s) ==
    (IF os = "linux" THEN <<>>
     ELSE <<Command("gateway", NoServer, IF s \in TestServers THEN 1 ELSE 3)>>)
      \o (IF s \in TestServers THEN <<AddRoute("subnet", NoServer, 0)>>
          ELSE (IF os = "linux" THEN <<>> ELSE <<AddRoute("host", s, 0)>>) \o DivertAll)

SetupDNS == IF os = "linux" THEN <<>> ELSE <<Command("setDNS", "tunnel", 0)>>

AcceptServer(s, name) == Command("insert", Named("server", s, name), 0)
AcceptTun(name) == Command("append", Named("tun", NoServer, name), 0)
AppendDrop == Command("append", Drop, 0)
StartFilter == Command("startFilter", NoServer, 0)

AcceptAndDrop(s, name) ==
    <<AcceptServer(s, name), Command("append", Rule("lo", NoServer), 0), AcceptTun(name),
      AppendDrop, Command("enabled", NoServer, 0)>>

LoadAnchor(s) == <<Command("load", s, 2), StartFilter, Command("enabled", NoServer, 0)>>

\* mutant: old rules are flushed first
EnableAfterFlush(s, name) ==
    <<Command("flush", NoServer, 0)>>
        \o (IF os = "linux" THEN AcceptAndDrop(s, name) ELSE LoadAnchor(s))

\* KillSwitch.Enable.  iptables: four rules, errors ignored.  pfctl: the
\* anchor is loaded as a whole or the call fails.
Enable(s, name) == IF os = "linux" THEN AcceptAndDrop(s, name) ELSE LoadAnchor(s)

\* mutant: the wrong rule is deleted
DisableTunRule ==
    <<Command("delete", Named("tun", NoServer, tunName), 0), Command("disabled", NoServer, 0)>>

\* KillSwitch.Disable.  iptables: one DROP rule is deleted.  pfctl: the
\* anchor is flushed.
Disable ==
    <<IF os = "linux" THEN Command("delete", Drop, 0) ELSE Command("flush", NoServer, 0),
      Command("disabled", NoServer, 0)>>

\* The host route is deleted if there was a gateway for it.
RestoreRoutes(s) ==
    <<DelRoute("low", NoServer), DelRoute("high", NoServer), DelRoute("subnet", NoServer)>>
        \o (IF gateway THEN <<DelRoute("host", s)>> ELSE <<>>)

RestoreDNS == IF os = "linux" THEN <<>> ELSE <<Command("setDNS", "empty", 0)>>

\* mutant: block before pass
AnchorBlocksFirst(s) ==
    <<Rule("lo", NoServer), Drop, Named("tun", NoServer, tunName), Rule("server", s)>>

\* The rules of enableDarwin; "quick" makes the first match decide.
Anchor(s) ==
    <<Rule("lo", NoServer), Named("tun", NoServer, tunName), Rule("server", s), Drop>>

\* The first rule equal to the given one is removed.
Without(rules, rule) ==
    IF rule \notin Range(rules) THEN rules
    ELSE LET i == CHOOSE i \in DOMAIN rules :
                     rules[i] = rule /\ \A j \in 1 .. i - 1 : rules[j] # rule
         IN  RemoveAt(rules, i)

-----------------------------------------------------------------------------
Idle == todo = <<>>

\* The routes that stay when the TUN device is gone.
HostRoutes == {r \in routes : r.kind = "host"}

\* The commands whose failure a property below rests on: the rules that let
\* the tunnel pass, the one that drops, the start of a filter that does not
\* run, the route to the server, and the removal of those into the tunnel.
Needed ==
    {AcceptServer(server, tunName), AcceptTun(tunName), AppendDrop, AddRoute("host", server, 0),
     DelRoute("low", NoServer), DelRoute("high", NoServer)}
        \cup (IF filterOn THEN {} ELSE {StartFilter})

\* A DROP rule of this process that nobody will delete any more.
Leftover ==
    IF switch /\ Drop \in Range(chain)
    THEN {IF AcceptTun(tunName) \in missed THEN NoTun ELSE tunName} ELSE {}

\* handleConnect, or the start of antclient: a TUN device and its commands.
\* The daemon asks for the same name each time; macOS numbers the devices.
Connect(s, killSwitch, name) ==
    /\ Idle /\ server = NoServer /\ connects < MaxConnects
    /\ os = "linux" => tunName \in {NoTun, name}
    /\ server' = s
    /\ tunName' = name
    /\ gateway' = FALSE
    /\ connects' = connects + 1
    /\ todo' = SetupRoutes(s) \o SetupDNS \o (IF killSwitch THEN Enable(s, name) ELSE <<>>)
    /\ switch' = (switch \/ killSwitch)
    /\ missed' = {}
    /\ asked' = IF killSwitch /\ asked = "disable" THEN "nothing" ELSE asked
    /\ UNCHANGED <<chain, filterOn, attached, routes, dns, enabled, left, os>>

\* The head of todo is executed by the host ...
Execute ==
    /\ todo # <<>>
    /\ LET op == Head(todo).op
           arg == Head(todo).arg
           exits == op = "disconnected" /\ arg = "exits"
       IN  /\ chain' = CASE op = "insert" -> <<arg>> \o chain
                         [] op = "append" -> Append(chain, arg)
                         [] op = "delete" -> Without(chain, arg)
                         [] op = "load"   -> Anchor(arg)
                         [] op = "flush"  -> <<>>
                         [] OTHER         -> chain
           /\ routes' = CASE op = "addRoute"    -> routes \cup {arg}
                          [] op = "delRoute"    -> routes \ {arg}
                          [] op = "disconnected" -> HostRoutes
                          [] OTHER               -> routes
           /\ dns' = IF op = "setDNS" THEN arg ELSE dns
           /\ filterOn' = (filterOn \/ op = "startFilter")
           /\ gateway' = (gateway \/ op = "gateway")
           /\ enabled' = (op = "enabled" \/ (enabled /\ op # "disabled"))
           /\ asked' = IF op = "enabled" /\ missed \cap {AppendDrop, StartFilter} = {}
                       THEN "enable" ELSE asked
           /\ switch' = (switch /\ ~ exits)
           /\ tunName' = IF exits THEN NoTun ELSE tunName
           /\ server' = IF op = "disconnected" THEN NoServer ELSE server
    /\ todo' = Tail(todo)
    /\ UNCHANGED <<attached, missed, left, connects, os>>

\* ... or fails, and the error is ignored or ends the call.
Fails ==
    /\ todo # <<>> /\ Head(todo).op \in Failing[os]
    /\ todo' = SubSeq(todo, 2 + Head(todo).skip, Len(todo))
    /\ missed' = missed \cup ({Head(todo)} \cap Needed)
    /\ asked' = IF Head(todo).op \in {"delete", "flush"} THEN "nothing" ELSE asked
    /\ left' = IF Head(todo).op = "delete" THEN left \cup Leftover ELSE left
    /\ UNCHANGED <<chain, filterOn, attached, routes, dns, gateway, server, tunName, enabled,
                   switch, connects, os>>

\* handleDisconnect, or the deferred calls of antclient, which then exits.
\* The daemon keeps the kill switch of an earlier connection and calls
\* Disable on it again.
Disconnect(exits) ==
    /\ Idle /\ server # NoServer
    /\ todo' = (IF switch THEN Disable ELSE <<>>) \o RestoreRoutes(server)
                 \o RestoreDNS \o <<Command("disconnected", IF exits THEN "exits" ELSE "stays", 0)>>
    /\ asked' = IF switch THEN "disable" ELSE asked
    /\ UNCHANGED <<chain, filterOn, attached, routes, dns, gateway, server, tunName, enabled,
                   switch, missed, left, connects, os>>

\* The process dies and takes the TUN device and its routes along.
Crash ==
    /\ os \in Crashes /\ (server # NoServer \/ ~ Idle)
    /\ routes' = HostRoutes
    /\ gateway' = FALSE
    /\ server' = NoServer
    /\ tunName' = NoTun
    /\ enabled' = FALSE
    /\ todo' = <<>>
    /\ switch' = FALSE
    /\ asked' = IF asked = "disable" /\ ~ Idle THEN "nothing" ELSE asked
    /\ left' = left \cup Leftover
    /\ UNCHANGED <<chain, filterOn, attached, dns, missed, connects, os>>

Next ==
    \/ \E s \in Servers, killSwitch \in BOOLEAN, name \in TunNames : Connect(s, killSwitch, name)
    \/ Execute
    \/ Fails
    \/ \E exits \in BOOLEAN : Disconnect(exits)
    \/ Crash

Spec == Init /\ [][Next]_vars

-----------------------------------------------------------------------------
Kinds == {"server", "lo", "tun", "drop"}

TypeOK ==
    /\ \A r \in Range(chain) : r.kind \in Kinds /\ r.server \in Servers \cup {NoServer}
    /\ {filterOn, attached, gateway, enabled, switch} \subseteq BOOLEAN
    /\ routes \subseteq {Rule(kind, s) : kind \in {"low", "high", "host", "subnet"},
                                         s \in Servers \cup {NoServer}}
    /\ dns \in {"original", "tunnel", "empty"}
    /\ server \in Servers \cup {NoServer}
    /\ tunName \in TunNames \cup {NoTun} /\ left \subseteq TunNames \cup {NoTun}
    /\ asked \in {"nothing", "enable", "disable"}
    /\ connects \in 0 .. MaxConnects

\* "to block all non-tunnel outbound traffic when the VPN drops", as far as
\* the filter goes: from the moment Enable returns until Disable is called,
\* nothing but the tunnel reaches a host that is not a server, between two
\* commands, while a later connection adds its own rules, after the process
\* has died, and whatever commands fail but the one that drops or the one
\* that starts the filter.  iptables does not see IPv6, and pf not an anchor
\* that the host has not attached.
EnabledBlocks ==
    asked = "enable" => \A h \in Hosts : Filtered(h) => Dropped("physical", h)

\* The tunnel itself passes the kill switch, unless the rule for it failed:
\* its outer packets reach the server over the physical interface, its inner
\* ones leave by the device.  On Linux a DROP rule left behind comes before
\* the new rules and lets pass only the device it was made for.
TunnelPasses ==
    Idle /\ enabled =>
        /\ AcceptServer(server, tunName) \notin missed => ~ Dropped("physical", server)
        /\ AcceptTun(tunName) \notin missed /\ (os = "linux" => left \subseteq {tunName}) =>
              \A h \in Hosts : ~ Dropped(tunName, h)

\* "Disable deactivates the firewall kill switch": after a disconnect that
\* called it, and whose command did not fail, the host reaches the network
\* again, whatever connections there were before; on Linux, unless one of
\* them left a DROP rule behind.
DisabledIsOpen ==
    Idle /\ asked = "disable" /\ (os = "linux" => left = {}) =>
        \A h \in Hosts \cup Servers : ~ Dropped("physical", h)

\* "preserving the host gateway route to the VPN server to prevent routing
\* loops": at no moment, between two commands either, do the packets of the
\* tunnel go into the tunnel.
NoRoutingLoop == server # NoServer => RouteOf(server) = "physical"

\* While the kill switch is on, no server but the one of this connection is
\* reached outside the tunnel; Disable "flushes rules", those for an earlier
\* server too.
OnlyServerPasses ==
    Idle /\ enabled => \A s \in Servers \ {server} : Filtered(s) => Dropped("physical", s)

\* The commands that keep the server out of the tunnel.
RoutesOut == {AddRoute("host", server, 0), DelRoute("low", NoServer), DelRoute("high", NoServer)}

\* Both hold on macOS, where the route to the server comes first and goes
\* last and the anchor is replaced as a whole: the server, and with the kill
\* switch on only the server, is reached outside the tunnel.  The first
\* rests on the commands for these routes, the second on an attached anchor
\* and a filter that was started; the code looks at none of these.
DarwinServerOutside ==
    os = "darwin" =>
        /\ missed \cap RoutesOut = {} => NoRoutingLoop
        /\ StartFilter \notin missed => OnlyServerPasses

\* "RestoreDNS restores the original DNS resolver settings."
DNSRestored == Idle /\ asked = "disable" => dns = "original"

\* As DisabledIsOpen, whatever happened before.
DisabledIsAlwaysOpen ==
    Idle /\ asked = "disable" => \A h \in Hosts \cup Servers : ~ Dropped("physical", h)

\* "IsEnabled returns true if the kill switch is currently active": "all
\* non-tunnel outbound traffic" is blocked.
IsEnabledBlocks == Idle /\ enabled => \A h \in Hosts : Dropped("physical", h)
=============================================================================
