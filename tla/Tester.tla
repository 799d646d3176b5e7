------------------------------- MODULE Tester -------------------------------
(***************************************************************************)
(* The tester of src/src/tester1 and the server processes it runs.  The    *)
(* test starts and shuts down servers, connects and disconnects them; each *)
(* incarnation of a server is a process with a fresh set of ends, that is  *)
(* given the Persister its predecessor left.  Calls come from the test's   *)
(* clients, and from servers, which forward theirs to the tester.          *)
(*                                                                         *)
(* A handler changes the state of its server and saves it before it        *)
(* replies, as Raft does; that is all that is said of the servers' code    *)
(* (external).  A handler may take for ever.                               *)
(***************************************************************************)
EXTENDS Labrpc

CONSTANTS
    Restarting,     \* the servers the test shuts down
    Unplugged       \* the servers the test disconnects

ASSUME TesterAssumption ==
    /\ Restarting \subseteq Server
    /\ Unplugged \subseteq Server
    /\ Conn = {"in", "out"} \X Server \X Incarnation

VARIABLES
    tester,     \* what the test's goroutine is doing, and to which server
    connected,  \* ServerGrp.connected
    inc,        \* how often a server was started
    proc,       \* the process of the latest incarnation
    persister,  \* its Persister: the calls whose effect is saved
    saved       \* Server.saved, the Persister for the next incarnation

daemonVars == <<inc, proc, persister, saved>>
vars == <<demuxVars, netVars, tester, connected, daemonVars>>

Ready == [at |-> "ready", srv |-> {}]
Turns(s, at) == tester' = [at |-> at, srv |-> {s}]

\* The test's goroutine is at a point of StartServer(s) or ShutdownServer(s).
TesterAt(s, at) == tester = [at |-> at, srv |-> {s}]

\* The end to s of the incarnation of t that runs now, and the other way round.
EndsBetween(s, T) == {End(s, inc[s], t) : t \in T} \cup {End(t, inc[t], s) : t \in T}

-----------------------------------------------------------------------------
(* StartServer() *)

\* startServer() makes fresh ends, runDaemon() a process that waits for its Persister.
StartServer(s) ==
    /\ tester = Ready /\ proc[s] = "off" /\ inc[s] < MaxStarts
    /\ Turns(s, "init")
    /\ inc' = [inc EXCEPT ![s] = @ + 1]
    /\ proc' = [proc EXCEPT ![s] = "booting"]
    /\ NewDemux(Out(s, inc[s] + 1))
    /\ UNCHANGED <<netVars, connected, persister, saved>>

\* DaemonSrv.Init(): the process has its Persister and listens; it has no services yet.
InitDaemon(s) ==
    /\ TesterAt(s, "init")
    /\ persister' = [persister EXCEPT ![s] = saved[s]]
    /\ proc' = [proc EXCEPT ![s] = "listening"]
    /\ Turns(s, "waitInit")
    /\ NewDemux(In(s, inc[s]))
    /\ UNCHANGED <<netVars, connected, inc, saved>>

\* The process has made its server and added its services.
AddServices(s) ==
    /\ proc[s] = "listening"
    /\ proc' = [proc EXCEPT ![s] = "running"]
    /\ UNCHANGED <<demuxVars, netVars, tester, connected, inc, persister, saved>>

DoNotWait(s) == TRUE                                              \* mutant
\* DaemonSrv.InitWait() returns.
InitWaitReturns(s) == proc[s] = "running"

\* ... and the server is added to the network.
ServerStarted(s) ==
    /\ TesterAt(s, "waitInit") /\ InitWaitReturns(s)
    /\ AddServer(s, inc[s])
    /\ tester' = Ready
    /\ UNCHANGED <<demuxVars, route, enabled, call, connected, daemonVars>>

-----------------------------------------------------------------------------
(* ShutdownServer() *)

Disconnect(s) ==
    /\ connected' = [connected EXCEPT ![s] = FALSE]
    /\ Disable(EndsBetween(s, Server))

ShutdownServer(s) ==
    /\ tester = Ready /\ s \in Restarting /\ proc[s] = "running"
    /\ Disconnect(s)
    /\ Turns(s, "delete")
    /\ UNCHANGED <<demuxVars, route, servers, call, daemonVars>>

ShutdownDelete(s) ==
    /\ TesterAt(s, "delete")
    /\ DeleteServer(s)
    /\ Turns(s, "close")
    /\ UNCHANGED <<demuxVars, route, enabled, call, connected, daemonVars>>

\* DaemonSrv.CheckpointPersister(): the process stops forwarding.  Connections to it
\* that were accepted stay open, and it answers requests until it is killed.
CheckpointClose(s) ==
    /\ TesterAt(s, "close")
    /\ CloseTransport(Out(s, inc[s]))
    /\ Turns(s, "closeMap")
    /\ UNCHANGED <<netVars, connected, daemonVars>>

CheckpointCloseMap(s) ==
    /\ TesterAt(s, "closeMap")
    /\ CloseCallMap(Out(s, inc[s]))
    /\ Turns(s, "copy")
    /\ UNCHANGED <<netVars, connected, daemonVars>>

\* ... and the Persister is copied for the tester.
CheckpointCopy(s) ==
    /\ TesterAt(s, "copy")
    /\ saved' = [saved EXCEPT ![s] = persister[s]]
    /\ Turns(s, "kill")
    /\ UNCHANGED <<demuxVars, netVars, connected, inc, proc, persister>>

\* DaemonClnt.kill(): the process is gone, with its handlers and its calls.
Kill(s) ==
    LET in  == In(s, inc[s])
        out == Out(s, inc[s])
    IN  /\ TesterAt(s, "kill")
        /\ proc' = [proc EXCEPT ![s] = "off"]
        /\ link' = [link EXCEPT ![in] = "down", ![out] = "down"]
        /\ requests' = [requests EXCEPT ![in] = {}]
        /\ replies' = [replies EXCEPT ![out] = <<>>]
        /\ calls' = [calls EXCEPT ![out] = NoCalls]
        /\ reader' = [reader EXCEPT ![out] = NoReader]
        /\ sending' = [sending EXCEPT ![out] =
                         [c \in Call |-> IF @[c] = NotSent THEN NotSent ELSE [@[c] EXCEPT !.at = "gone"]]]
        /\ tester' = Ready
        /\ UNCHANGED <<nextTag, closed, netVars, connected, inc, persister, saved>>

-----------------------------------------------------------------------------
(* CONNECTIONS *)

\* ConnectOne()
Connect(s) ==
    /\ tester = Ready /\ proc[s] = "running" /\ ~connected[s]
    /\ connected' = [connected EXCEPT ![s] = TRUE]
    /\ Enable(EndsBetween(s, {t \in Server : connected'[t]}))
    /\ UNCHANGED <<demuxVars, route, servers, call, tester, daemonVars>>

\* DisconnectAll()
DisconnectAll(s) ==
    /\ tester = Ready /\ s \in Unplugged /\ connected[s]
    /\ Disconnect(s)
    /\ UNCHANGED <<demuxVars, route, servers, call, tester, daemonVars>>

-----------------------------------------------------------------------------
(* CALLS *)

\* Clnt.Call()
ClntCall(c) ==
    /\ Caller(c) = Clnt
    /\ Send(c, End(Clnt, 0, Target(c)))
    /\ UNCHANGED <<tester, connected, daemonVars>>

\* A server's call: DaemonSrv.forward().
Forward(c) ==
    LET s == Caller(c)
    IN  /\ s \in Server /\ proc[s] = "running"
        /\ \A k \in Conn : sending[k][c] = NotSent
        /\ Goes(Out(s, inc[s]), c, "start")
        /\ UNCHANGED <<nextTag, calls, closed, reader, socketVars,
                       netVars, tester, connected, daemonVars>>

\* TesterRPC.Forward(): the tester puts the call on its network
TesterForward(s, i, c) ==
    /\ \E m \in requests[Out(s, i)] : m.call = c
    /\ Send(c, End(s, i, Target(c)))
    /\ UNCHANGED <<tester, connected, daemonVars>>

\* ... and has the answer.
TesterForwarded(s, i, c) ==
    /\ call[c].at = "returned"
    /\ Serve(Out(s, i), c, call[c].ok)
    /\ UNCHANGED <<clientVars, netVars, tester, connected, daemonVars>>

\* The server's handler (external).
Handler(s, c) ==
    /\ proc[s] = "running"
    /\ Serve(In(s, inc[s]), c, TRUE)
    /\ persister' = [persister EXCEPT ![s] = @ \cup {c}]
    /\ UNCHANGED <<clientVars, netVars, tester, connected, inc, proc, saved>>

-----------------------------------------------------------------------------
(* SPECIFICATION *)

\* After MakeConfig(): every server has been started once, and all are connected.
Init ==
    /\ DemuxInit({"in", "out"} \X Server \X {1})
    /\ LabrpcInit
    /\ tester = Ready
    /\ connected = [s \in Server |-> TRUE]
    /\ inc = [s \in Server |-> 1]
    /\ proc = [s \in Server |-> "running"]
    /\ persister = [s \in Server |-> {}]
    /\ saved = [s \in Server |-> {}]

ServerOp(s) ==
    \/ StartServer(s) \/ InitDaemon(s) \/ AddServices(s) \/ ServerStarted(s)
    \/ ShutdownServer(s) \/ ShutdownDelete(s) \/ CheckpointClose(s) \/ CheckpointCloseMap(s)
    \/ CheckpointCopy(s) \/ Kill(s)

\* A connection's client works only while its process does; the tester's always do.
ConnStep(s, i) ==
    /\ \/ ClientStep(In(s, i))
       \/ i = inc[s] /\ proc[s] # "off" /\ ClientStep(Out(s, i))
    /\ UNCHANGED <<netVars, tester, connected, daemonVars>>

NetStep(c) == ProcessReq(c) /\ UNCHANGED <<tester, connected, daemonVars>>

ForwardStep(s, i, c) == TesterForward(s, i, c) \/ TesterForwarded(s, i, c)

Next ==
    \/ \E s \in Server : ServerOp(s) \/ Connect(s) \/ DisconnectAll(s)
    \/ \E c \in Call : ClntCall(c) \/ Forward(c) \/ NetStep(c)
    \/ \E s \in Server, c \in Call : Handler(s, c)
    \/ \E s \in Server, i \in Incarnation : ConnStep(s, i)
    \/ \E s \in Server, i \in Incarnation, c \in Call : ForwardStep(s, i, c)

Spec == Init /\ [][Next]_vars

-----------------------------------------------------------------------------
(* PROPERTIES *)

\* The values the fields of the connections, of Network and of the tester may hold.  A call that
\* waits has a tag that was given out.
TypeOK ==
    /\ link \in [Conn -> {"none", "up", "down"}]
    /\ nextTag \in [Conn -> Nat]
    /\ \A k \in Conn :
          calls[k] \in [DOMAIN calls[k] -> Call] /\ \A t \in DOMAIN calls[k] : t \in Nat /\ t < nextTag[k]
    /\ closed \in [Conn -> BOOLEAN]
    /\ enabled \subseteq (Server \cup {Clnt}) \X (0 .. MaxStarts) \X Server
    /\ servers \in [Server -> 0 .. MaxStarts]
    /\ inc \in [Server -> 0 .. MaxStarts]
    /\ proc \in [Server -> {"off", "booting", "listening", "running"}]
    /\ connected \in [Server -> BOOLEAN]
    /\ persister \in [Server -> SUBSET Call] /\ saved \in [Server -> SUBSET Call]

\* What the next incarnation of s would start from, if s were shut down now.
Durable(s) ==
    IF proc[s] \in {"off", "booting"} \/ TesterAt(s, "kill") THEN saved[s] ELSE persister[s]

\* A caller that got a positive reply finds the effect of its call in every later
\* incarnation of the server, although a process works on, and answers, after its
\* Persister was copied: processReq() passes no such reply on (its comment: "needed to
\* avoid situation in which a client gets a positive reply to an Append, but the server
\* persisted the update into the old Persister").
AckedIsPersisted ==
    \A c \in Call : call[c].at = "returned" /\ call[c].ok => c \in Durable(Target(c))

\* No request reaches a process that has not added its services, which would end in
\* dispatch()'s log.Fatalf("unknown service"): the tester adds the server to the network
\* after InitWait() only, and an older incarnation's calls go to its own connection.
ServicesFirst ==
    \A s \in Server :
        proc[s] \in {"booting", "listening"} =>
            requests[In(s, inc[s])] = {}
=============================================================================
