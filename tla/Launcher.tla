------------------------------- MODULE Launcher -------------------------------
(***************************************************************************)
(* How ant-ui finds, starts and talks to ant-daemon: the HTTP handlers of  *)
(* cmd/ant-ui, pkg/ipc and the life of the daemon process around it.       *)
(*                                                                         *)
(* ant-ui, and a daemon started without -sock, share one name.  On Unix it *)
(* is a socket file, which Remove, Listen, Chmod and Close all reach by    *)
(* its path, whoever made it; on Windows it is a TCP port, which one       *)
(* process at a time holds.  A daemon is started by ant-ui, by hand or by  *)
(* a service manager; the LaunchDaemon of macOS gives it another name, and *)
(* such a daemon touches nothing of this one and is never seen by ant-ui.  *)
(* (An ant-ui that is itself given -sock would look where the daemons it   *)
(* starts are not, and is left out.)  What a connect or disconnect request *)
(* does inside is module Daemon.                                           *)
(***************************************************************************)
EXTENDS Integers, FiniteSets

CONSTANTS
    Networks,       \* subset of {"unix", "tcp"}
    UIHandlers,     \* HTTP requests that can be in flight at once
    MaxDaemons,     \* bound on the daemons that are started
    MaxPolls        \* polls of handleStartDaemon before its deadline

ASSUME LauncherAssumption ==
    /\ Networks \subseteq {"unix", "tcp"}
    /\ MaxDaemons \in Nat /\ MaxPolls \in Nat \ {0}

VARIABLES
    network,
    file,           \* the socket file: who made it (0: there is none), is it open to all
    daemon,         \* where each daemon process is
    away,           \* daemons that were given another name
    listening,      \* daemons with an open listener
    connected,      \* daemons with a tunnel
    ui,             \* the HTTP requests
    races           \* history: what a start ran into

daemonVars == <<file, daemon, away, listening>>
uiVars == <<network, file, daemon, away, listening, connected, ui, races>>

Daemons == 1 .. MaxDaemons
Kinds == {"start", "status", "connect", "disconnect"}
Starting == {"start", "listen", "chmod"}
Serving == {"serve", "disconnect", "close", "remove"}   \* handleClient may run
Alive == {d \in Daemons : daemon[d] \in Starting \cup Serving}
Launched == {d \in Daemons : daemon[d] # "none"}

NoFile == [owner |-> 0, open |-> FALSE]
Idle == [pc |-> "idle", kind |-> "none", daemon |-> 0, polls |-> 0]

UIInit ==
    /\ network \in Networks
    /\ file = NoFile
    /\ daemon = [d \in Daemons |-> "none"]
    /\ away = {} /\ listening = {} /\ connected = {}
    /\ ui = [h \in UIHandlers |-> Idle]
    /\ races = {}

\* The daemon that net.Dial reaches, 0 for none.  ant-ui is not privileged.
Dialled ==
    IF network = "unix"
    THEN IF file.open /\ file.owner \in listening THEN file.owner ELSE 0
    ELSE IF listening \subseteq away THEN 0 ELSE CHOOSE d \in listening \ away : TRUE

-----------------------------------------------------------------------------
(* The daemon process d                                                    *)

SetDaemon(d, pc) ==
    /\ daemon' = [daemon EXCEPT ![d] = pc]
    /\ UNCHANGED <<network, away, ui, races>>

\* What d does to the file of its name.
SetFile(d, f) == file' = IF d \in away THEN file ELSE f

\* The user answers the elevation prompt, at any time.
Accept(d) ==
    /\ daemon[d] = "prompt"
    /\ SetDaemon(d, "start") /\ UNCHANGED <<file, listening, connected>>

Cancel(d) ==
    /\ daemon[d] = "prompt"
    /\ SetDaemon(d, "gone") /\ UNCHANGED <<file, listening, connected>>

\* mutant: an old socket file is left where it is
KeepStale(d) ==
    /\ daemon[d] = "start"
    /\ SetDaemon(d, "listen") /\ UNCHANGED <<file, listening, connected>>

\* NewServer, step by step.
RemoveStale(d) ==
    /\ daemon[d] = "start"
    /\ SetFile(d, NoFile)
    /\ SetDaemon(d, "listen") /\ UNCHANGED <<listening, connected>>

\* The kernel lets a daemon bind the shared name.
Free == IF network = "unix" THEN file = NoFile ELSE listening \subseteq away

Listen(d) ==
    /\ daemon[d] = "listen" /\ (d \in away \/ Free)
    /\ SetFile(d, IF network = "unix" THEN [owner |-> d, open |-> FALSE] ELSE file)
    /\ listening' = listening \cup {d}
    /\ SetDaemon(d, "chmod") /\ UNCHANGED connected

ListenFails(d) ==
    /\ daemon[d] = "listen" /\ (d \in away \/ ~ Free)
    /\ SetDaemon(d, "unbound") /\ UNCHANGED <<file, listening, connected>>

Chmod(d) ==
    /\ daemon[d] = "chmod"
    /\ SetFile(d, [file EXCEPT !.open = file.owner # 0])
    /\ SetDaemon(d, "serve") /\ UNCHANGED <<listening, connected>>

\* SIGINT or SIGTERM, then handleDisconnect and the deferred Close, which
\* unlinks the path twice: the listener does, and os.Remove.
Signal(d) ==
    /\ daemon[d] = "serve"
    /\ SetDaemon(d, "disconnect") /\ UNCHANGED <<file, listening, connected>>

Disconnect(d) ==
    /\ daemon[d] = "disconnect"
    /\ connected' = connected \ {d}
    /\ SetDaemon(d, "close") /\ UNCHANGED <<file, listening>>

CloseListener(d) ==
    /\ daemon[d] = "close"
    /\ SetFile(d, NoFile)
    /\ listening' = listening \ {d}
    /\ SetDaemon(d, "remove") /\ UNCHANGED connected

RemoveFile(d) ==
    /\ daemon[d] = "remove"
    /\ SetFile(d, NoFile)
    /\ connected' = connected \ {d}
    /\ SetDaemon(d, "gone") /\ UNCHANGED listening

\* A crash, or a signal before signal.Notify: the file stays.
Kill(d) ==
    /\ d \in Alive
    /\ listening' = listening \ {d} /\ connected' = connected \ {d}
    /\ SetDaemon(d, "killed") /\ UNCHANGED file

\* The next daemon is started, and nobody has looked for another one before:
\* by hand, as the README and the page of ant-ui say, or by a service
\* manager, at boot and again whenever it ended; with the shared name or
\* with another.
StartByHand(shared) ==
    /\ Launched # Daemons
    /\ LET d == Cardinality(Launched) + 1
       IN  /\ daemon' = [daemon EXCEPT ![d] = "start"]
           /\ away' = IF shared THEN away ELSE away \cup {d}
    /\ races' = races \cup
          (IF /\ shared
              /\ \/ \E d \in Daemons \ away : d \in Alive \/ daemon[d] = "prompt"
                 \/ \E h \in UIHandlers : ui[h].pc = "launch"
           THEN {"byHand"} ELSE {})
    /\ UNCHANGED <<network, file, listening, connected, ui>>

-----------------------------------------------------------------------------
(* The request in slot h of ant-ui                                         *)

SetUI(h, r) == ui' = [ui EXCEPT ![h] = r] /\ UNCHANGED <<network, daemonVars>>

Respond(h) == SetUI(h, Idle)

Begin(h, k) ==
    /\ ui[h].pc = "idle"
    /\ SetUI(h, [Idle EXCEPT !.pc = "dial", !.kind = k])
    /\ UNCHANGED <<connected, races>>

\* What the look for a daemon cannot see: another request that launches one,
\* a daemon that comes up, a daemon that shuts down.
Unseen(h) ==
    {r \in {"concurrent", "starting", "shutdown"} :
        CASE r = "concurrent" -> \E g \in UIHandlers \ {h} : ui[g].pc \in {"launch", "poll"}
          [] r = "starting"   -> \E d \in Daemons \ away : daemon[d] \in Starting
          [] r = "shutdown"   -> \E d \in Daemons \ away : daemon[d] = "remove"}

\* mutant: handleStartDaemon always launches
StartUnchecked(h) ==
    /\ ui[h].pc = "dial" /\ ui[h].kind = "start"
    /\ SetUI(h, [ui[h] EXCEPT !.pc = "launch"])
    /\ races' = races \cup Unseen(h) /\ UNCHANGED connected

\* handleStartDaemon: a daemon that answers is enough.
StartCheck(h) ==
    /\ ui[h].pc = "dial" /\ ui[h].kind = "start"
    /\ IF Dialled # 0 THEN Respond(h) /\ UNCHANGED races
       ELSE /\ SetUI(h, [ui[h] EXCEPT !.pc = "launch"])
            /\ races' = races \cup Unseen(h)
    /\ UNCHANGED connected

\* No executable, no elevation, cmd.Start fails.
LaunchFails(h) == ui[h].pc = "launch" /\ Respond(h) /\ UNCHANGED <<connected, races>>

Launch(h) ==
    /\ ui[h].pc = "launch" /\ Launched # Daemons
    /\ LET d == Cardinality(Launched) + 1
       IN  /\ daemon' = [daemon EXCEPT ![d] = "prompt"]
           /\ ui' = [ui EXCEPT ![h].pc = "poll", ![h].daemon = d]
    /\ UNCHANGED <<network, file, away, listening, connected, races>>

Poll(h) ==
    /\ ui[h].pc = "poll" /\ ui[h].polls < MaxPolls
    /\ IF Dialled # 0 THEN Respond(h) ELSE SetUI(h, [ui[h] EXCEPT !.polls = @ + 1])
    /\ UNCHANGED <<connected, races>>

\* "within 6s": the launch itself goes on.
PollTimeout(h) ==
    /\ ui[h].pc = "poll" /\ ui[h].polls = MaxPolls
    /\ races' = races \cup (IF ui[h].daemon \in Alive \/ daemon[ui[h].daemon] = "prompt"
                            THEN {"late"} ELSE {})
    /\ Respond(h) /\ UNCHANGED connected

\* handleStatus, handleConnect, handleDisconnect and a tick of handleEvents.
Dial(h) ==
    /\ ui[h].pc = "dial" /\ ui[h].kind # "start"
    /\ IF Dialled = 0 THEN Respond(h)
       ELSE SetUI(h, [ui[h] EXCEPT !.pc = "sent", !.daemon = Dialled])
    /\ UNCHANGED <<connected, races>>

\* handleClient and DaemonState.Handle, which outlive Close.
Handle(h) ==
    /\ ui[h].pc = "sent" /\ daemon[ui[h].daemon] \in Serving
    /\ \/ ui[h].kind = "status" /\ UNCHANGED connected
       \/ ui[h].kind = "connect" /\ connected' \in {connected, connected \cup {ui[h].daemon}}
       \/ ui[h].kind = "disconnect" /\ connected' = connected \ {ui[h].daemon}
    /\ Respond(h) /\ UNCHANGED races

\* The daemon has ended, or its listener closed before it accepted.
Broken(h) ==
    /\ ui[h].pc = "sent" /\ ui[h].daemon \notin listening
    /\ Respond(h) /\ UNCHANGED <<connected, races>>

-----------------------------------------------------------------------------
DaemonNext(d) ==
    \/ Accept(d) \/ Cancel(d) \/ RemoveStale(d) \/ Listen(d) \/ ListenFails(d) \/ Chmod(d)
    \/ Signal(d) \/ Disconnect(d) \/ CloseListener(d) \/ RemoveFile(d) \/ Kill(d)

StartNext(h) == StartCheck(h) \/ LaunchFails(h) \/ Launch(h) \/ Poll(h) \/ PollTimeout(h)

UINext ==
    \/ \E d \in Daemons : DaemonNext(d)
    \/ \E shared \in BOOLEAN : StartByHand(shared)
    \/ \E h \in UIHandlers :
          \/ \E k \in Kinds : Begin(h, k)
          \/ StartNext(h) \/ Dial(h) \/ Handle(h) \/ Broken(h)

UISpec == UIInit /\ [][UINext]_uiVars

-----------------------------------------------------------------------------
UITypeOK ==
    /\ network \in Networks
    /\ file \in [owner : 0 .. MaxDaemons, open : BOOLEAN]
    /\ listening \subseteq Alive /\ connected \subseteq Alive
    /\ \A h \in UIHandlers : ui[h].polls \in 0 .. MaxPolls
    /\ away \subseteq Launched
    /\ races \subseteq {"concurrent", "starting", "shutdown", "late", "byHand"}

\* One daemon has the shared name, unless a daemon was started by hand
\* without a look while there was another, or a start request overlapped
\* another one, gave up before its own daemon was there, or fell into the
\* start or the shutdown of a daemon: only then does the look at the socket
\* of handleStartDaemon miss one.  It never sees a daemon of another name.
OneDaemon == races = {} => Cardinality(Alive \ away) <= 1

\* Under the same condition a daemon that was started with the shared name
\* can bind it, although a killed one left its file there, and while it
\* serves it is the one that requests reach: a disconnect request finds the
\* daemon that was told to connect.
ServingIsReachable ==
    races = {} =>
        \A d \in Daemons \ away :
            /\ daemon[d] # "unbound"
            /\ daemon[d] \in {"serve", "disconnect"} => Dialled = d
            /\ d \in connected => Dialled \in {0, d}

-----------------------------------------------------------------------------
(* What the code does not have.                                            *)

\* "Check if daemon is already running": a start request of ant-ui never
\* adds a second daemon.
NeverTwoDaemons == "byHand" \notin races => Cardinality(Alive \ away) <= 1
=============================================================================
