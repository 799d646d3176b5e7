-------------------------------- MODULE Demux --------------------------------
(***************************************************************************)
(* Connections of src/src/tester1/demux: many calls share a UNIX socket,   *)
(* and a reply finds its call by its tag.  A connection has a DemuxClnt    *)
(* (callmap, reader goroutine, one goroutine per SendReceive()) and a      *)
(* DemuxSrv (reader, one goroutine per request).  What the server does     *)
(* with a request, and when an end of the connection dies, is up to the    *)
(* module that uses this one.                                              *)
(***************************************************************************)
EXTENDS Naturals, Sequences, FiniteSets, Functions

CONSTANTS
    Call,       \* the calls; each is sent at most once over a connection
    Conn        \* the connections

VARIABLES
    link,       \* the socket: not there yet, "up", or "down" for good
    nextTag,    \* DemuxClnt.nextTag
    calls,      \* callMap.calls: a function from tags to the call that waits
    closed,     \* callMap.closed
    sending,    \* per connection and call where SendReceive() is, and its tag
    reader,     \* where DemuxClnt.reader() is
    requests,   \* what was written and not answered: each request has a goroutine
    replies     \* what the client has not read

clientVars == <<nextTag, calls, closed, sending, reader>>
socketVars == <<link, requests, replies>>
demuxVars  == <<clientVars, socketVars>>

NoCalls == [t \in {} |-> {}]

NotSent    == [at |-> "none", tag |-> 0]
NoReader   == [at |-> "exit", call |-> {}, ok |-> FALSE, todo |-> {}, draining |-> FALSE]
AtReadCall == [NoReader EXCEPT !.at = "read"]

Goes(k, c, at) == sending' = [sending EXCEPT ![k][c].at = at]

-----------------------------------------------------------------------------
(* THE CLIENT *)

\* NewDemuxClnt() and NewDemuxSrv(): the InitMsg, which nobody answers, has taken tag 0.
NewDemux(k) ==
    /\ link' = [link EXCEPT ![k] = "up"]
    /\ nextTag' = [nextTag EXCEPT ![k] = 1]
    /\ reader' = [reader EXCEPT ![k] = AtReadCall]
    /\ UNCHANGED <<calls, closed, sending, requests, replies>>

TagKept(k) == nextTag[k]                                          \* mutant
\* tag(): what nextTag is after it.
TagAfter(k) == nextTag[k] + 1

\* SendReceive(): tag() and put(), which fails once the callmap is closed.
Put(k, c) ==
    /\ sending[k][c].at = "start"
    /\ nextTag' = [nextTag EXCEPT ![k] = TagAfter(k)]
    /\ IF closed[k]
         THEN Goes(k, c, "failed") /\ UNCHANGED calls
         ELSE /\ calls' = [calls EXCEPT ![k] =
                             [t \in DOMAIN calls[k] \cup {nextTag[k]} |->
                                IF t = nextTag[k] THEN c ELSE calls[k][t]]]
              /\ sending' = [sending EXCEPT ![k][c] = [at |-> "write", tag |-> nextTag[k]]]
    /\ UNCHANGED <<closed, reader, socketVars>>

\* ... WriteCall(), whose error is ignored: the answer comes from the reader anyway.
WriteCall(k, c) ==
    /\ sending[k][c].at = "write"
    /\ Goes(k, c, "wait")
    /\ requests' = IF link[k] = "up"
                     THEN [requests EXCEPT ![k] = @ \cup {[tag |-> sending[k][c].tag, call |-> c]}]
                     ELSE requests
    /\ UNCHANGED <<nextTag, calls, closed, reader, link, replies>>

\* callMap.remove(), and reply() about to send on the channel it gave.
TakeOut(k, tag, ok, todo, draining) ==
    /\ calls' = [calls EXCEPT ![k] = Restrict(@, DOMAIN @ \ {tag})]
    /\ reader' = [reader EXCEPT ![k] = [at |-> "reply", call |-> {calls[k][tag]}, ok |-> ok,
                                        todo |-> todo, draining |-> draining]]

\* reader() reads a reply.  (One that no call waits for would end in log.Fatalf().)
ReadReply(k) ==
    /\ reader[k].at = "read" /\ replies[k] # <<>>
    /\ LET m == Head(replies[k])
       IN  m.tag \in DOMAIN calls[k] /\ TakeOut(k, m.tag, m.ok, {}, FALSE)
    /\ replies' = [replies EXCEPT ![k] = Tail(@)]
    /\ UNCHANGED <<nextTag, closed, sending, link, requests>>

ReadErrorLeavesOpen(k) ==                                         \* mutant
    /\ reader[k].at = "read" /\ link[k] = "down"
    /\ reader' = [reader EXCEPT ![k].at = "outstanding"]
    /\ UNCHANGED <<nextTag, calls, closed, sending, socketVars>>
\* ... or an error, and closes the callmap.
ReadError(k) ==
    /\ reader[k].at = "read" /\ link[k] = "down"
    /\ closed' = [closed EXCEPT ![k] = TRUE]
    /\ reader' = [reader EXCEPT ![k].at = "outstanding"]
    /\ UNCHANGED <<nextTag, calls, sending, socketVars>>

\* ... then collects the calls that wait
Outstanding(k) ==
    /\ reader[k].at = "outstanding"
    /\ reader' = [reader EXCEPT ![k].at = "drain", ![k].todo = DOMAIN calls[k]]
    /\ UNCHANGED <<nextTag, calls, closed, sending, socketVars>>

\* ... and fails one after the other.
Drain(k) ==
    /\ reader[k].at = "drain"
    /\ \E tag \in reader[k].todo : TakeOut(k, tag, FALSE, reader[k].todo \ {tag}, TRUE)
    /\ UNCHANGED <<nextTag, closed, sending, socketVars>>

\* reply() and SendReceive() meet at the call's channel, which has no buffer.
Deliver(k) ==
    /\ reader[k].at = "reply"
    /\ \E c \in reader[k].call :
          /\ sending[k][c].at = "wait"
          /\ Goes(k, c, IF reader[k].ok THEN "ok" ELSE "failed")
    /\ reader' = [reader EXCEPT ![k].at = IF reader[k].draining THEN "drain" ELSE "read",
                                ![k].call = {}, ![k].ok = FALSE, ![k].draining = FALSE]
    /\ UNCHANGED <<nextTag, calls, closed, socketVars>>

\* Close(), of the socket and then of the callmap; nothing if the callmap is closed.
CloseTransport(k) ==
    /\ link' = [link EXCEPT ![k] = IF closed[k] THEN @ ELSE "down"]
    /\ UNCHANGED <<requests, replies, clientVars>>

CloseCallMap(k) ==
    /\ closed' = [closed EXCEPT ![k] = TRUE]
    /\ UNCHANGED <<nextTag, calls, sending, reader, socketVars>>

-----------------------------------------------------------------------------
(* THE SERVER *)

\* The goroutine DemuxSrv.reader() started for a request: ServeRequest() returns ok, and
\* WriteCall() writes it, or fails, which is ignored.
Serve(k, c, ok) ==
    \E m \in requests[k] :
        /\ m.call = c
        /\ requests' = [requests EXCEPT ![k] = @ \ {m}]
        /\ replies' = IF link[k] = "up"
                        THEN [replies EXCEPT ![k] = Append(@, [tag |-> m.tag, call |-> c, ok |-> ok])]
                        ELSE replies
        /\ UNCHANGED link

-----------------------------------------------------------------------------
(* SPECIFICATION *)

\* The connections in open have been made, nothing has been sent yet.
DemuxInit(open) ==
    /\ link = [k \in Conn |-> IF k \in open THEN "up" ELSE "none"]
    /\ nextTag = [k \in Conn |-> IF k \in open THEN 1 ELSE 0]
    /\ reader = [k \in Conn |-> IF k \in open THEN AtReadCall ELSE NoReader]
    /\ calls = [k \in Conn |-> NoCalls]
    /\ closed = [k \in Conn |-> FALSE]
    /\ sending = [k \in Conn |-> [c \in Call |-> NotSent]]
    /\ requests = [k \in Conn |-> {}]
    /\ replies = [k \in Conn |-> <<>>]

ClientStep(k) ==
    \/ \E c \in Call : Put(k, c) \/ WriteCall(k, c)
    \/ ReadReply(k) \/ ReadError(k) \/ Outstanding(k) \/ Drain(k) \/ Deliver(k)

-----------------------------------------------------------------------------
(* PROPERTIES *)

\* reader() will read on.
Reading(k) == reader[k].at = "read" \/ (reader[k].at = "reply" /\ ~reader[k].draining)

\* Every reply on its way has a call that waits for it, the one whose request it answers:
\* reply()'s "no matching req" cannot happen, and no call gets the answer of another.
AnswersMatch ==
    \A k \in Conn :
        /\ Reading(k) => \A i \in DOMAIN replies[k] :
              LET m == replies[k][i]
              IN  m.tag \in DOMAIN calls[k] /\ calls[k][m.tag] = m.call
        /\ \A t \in DOMAIN calls[k] :
              sending[k][calls[k][t]].at \in {"write", "wait"} /\ sending[k][calls[k][t]].tag = t

\* No goroutine is left behind in SendReceive() when the connection breaks: a call that
\* was put before the reader closed the callmap is one the reader still has to answer or
\* to fail, however Close(), the reader and other calls interleave, and a later one is
\* refused.
NobodyStranded ==
    \A k \in Conn, c \in Call :
        sending[k][c].at \in {"write", "wait"} =>
            \/ reader[k].at = "reply" /\ c \in reader[k].call
            \/ \E tag \in DOMAIN calls[k] :
                  /\ calls[k][tag] = c
                  /\ Reading(k) \/ reader[k].at = "outstanding" \/ tag \in reader[k].todo
=============================================================================
