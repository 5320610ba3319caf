---------------------------- MODULE DesktopBridge ----------------------------
(***************************************************************************)
(* The desktop bridge of one session: the registered downlink stream, its  *)
(* heartbeat, and the dispatches awaiting a receipt.                       *)
(*                                                                         *)
(* Node.js runs one event at a time: an action is one event (an RPC, a     *)
(* stream event, a timer, an abort) or one synchronous call.  A frame is   *)
(* its operation and tool id; the envelope is left out, and so are the     *)
(* status frames, which the desktop only logs.                             *)
(***************************************************************************)
EXTENDS Integers, Sequences, SequencesExt, FiniteSets

CONSTANT MaxStreams   \* bound on the downlink calls a desktop opens

ASSUME StreamAssumption == MaxStreams \in Nat

\* The calls by their age.
Streams  == 1..MaxStreams
NoStream == 0

VARIABLES
  connections,    \* the session's registered connection, or NoStream
  heartbeat,      \* the streams whose interval runs
  streams,        \* the state of every call
  events,         \* error/close/cancelled events not yet delivered, per stream
  down,           \* frames written and not yet read by the desktop
  pending,        \* tool ids of the dispatches in flight
  minted,         \* tool ids minted so far
  settled         \* resolutions the awaiting caller has not seen yet

bridgeVars == <<connections, heartbeat, streams, events, down, pending, minted, settled>>

FlowFrame(id, op) == [id |-> id, op |-> op]

NoShot == [none |-> TRUE]
OperationResult(status, message, shot) ==
  [status |-> status, message |-> message, screenshot |-> shot]
Failed(message) == OperationResult("FAILED", message, NoShot)
Resolution(id, result) == [id |-> id, result |-> result]

BridgeInit ==
  /\ connections = NoStream
  /\ heartbeat = {}
  /\ streams = [s \in Streams |-> "new"]
  /\ events = [s \in Streams |-> 0]
  /\ down = [s \in Streams |-> <<>>]
  /\ pending = {}
  /\ minted = 0
  /\ settled = {}

-----------------------------------------------------------------------------
(* The downlink.                                                           *)

isDesktopConnected == connections # NoStream

\* A write on a call that is over goes nowhere.
Written(s, frame) ==
  IF streams[s] = "open" THEN [down EXCEPT ![s] = Append(@, frame)] ELSE down

\* The newest stream takes over: the previous one is ended, which delivers a
\* late close; the dispatches in flight stay.  The interval's status frames are
\* left out, its handle is kept.
attach(s) ==
  /\ streams[s] = "new"
  /\ connections' = s
  /\ heartbeat' = (heartbeat \ {connections}) \cup {s}
  /\ streams' = [t \in Streams |-> CASE t = s -> "open"
                                     [] t = connections /\ streams[t] = "open" -> "ended"
                                     [] OTHER -> streams[t]]
  /\ events' = [t \in Streams |->
                  IF t = connections /\ streams[t] = "open" THEN 1 ELSE events[t]]
  /\ UNCHANGED <<down, pending, minted, settled>>

\* A call without a session is closed and leaves nothing.
Stream(s) == attach(s)

\* Mutant: no comparison with the registered connection.
disconnectAny(s) ==
  /\ events[s] > 0
  /\ events' = [events EXCEPT ![s] = @ - 1]
  /\ connections' = NoStream
  /\ heartbeat' = heartbeat \ {s}
  /\ pending' = {}
  /\ settled' = settled \cup {Resolution(id, Failed("desktop disconnected")) : id \in pending}
  /\ UNCHANGED <<streams, down, minted>>

\* A lifecycle event of a stream: compare-and-delete.
disconnect(s) ==
  /\ events[s] > 0
  /\ events' = [events EXCEPT ![s] = @ - 1]
  /\ IF connections # s THEN UNCHANGED <<connections, heartbeat, pending, settled>>
     ELSE /\ connections' = NoStream
          /\ heartbeat' = heartbeat \ {s}
          /\ pending' = {}
          /\ settled' = settled \cup
               {Resolution(id, Failed("desktop disconnected")) : id \in pending}
  /\ UNCHANGED <<streams, down, minted>>

-----------------------------------------------------------------------------
(* Dispatch and its four endings.                                          *)

Resolve(id, result) ==
  /\ pending' = pending \ {id}
  /\ settled' = settled \cup {Resolution(id, result)}

\* Dispatch an operation: the tool id it awaits is the one minted, 0 when the
\* dispatch is refused without one.  A write on a call that is over is lost or
\* throws.
dispatch(op, aborted) ==
  /\ UNCHANGED <<connections, heartbeat, streams, events>>
  /\ \/ /\ ~isDesktopConnected
        /\ settled' = settled \cup {Resolution(0, Failed("desktop disconnected"))}
        /\ UNCHANGED <<down, pending, minted>>
     \/ /\ isDesktopConnected /\ aborted
        /\ settled' = settled \cup {Resolution(0, Failed("aborted"))}
        /\ UNCHANGED <<down, pending, minted>>
     \/ /\ isDesktopConnected /\ ~aborted
        /\ minted' = minted + 1
        /\ pending' = pending \cup {minted'}
        /\ down' = Written(connections, FlowFrame(minted', op))
        /\ UNCHANGED settled
     \/ /\ isDesktopConnected /\ ~aborted
        /\ streams[connections] # "open"
        /\ minted' = minted + 1
        /\ settled' = settled \cup {Resolution(minted', Failed("stream write error"))}
        /\ UNCHANGED <<down, pending>>

AwaitedId == IF minted' = minted THEN 0 ELSE minted'

\* Mutant: a receipt resolves whatever is in flight.
handleResultAny(receipt) ==
  IF pending = {} THEN UNCHANGED <<pending, settled>>
  ELSE Resolve(CHOOSE id \in pending : TRUE, receipt.result)

\* An unknown tool id is logged and ignored.
handleResult(receipt) ==
  IF receipt.id \notin pending THEN UNCHANGED <<pending, settled>>
  ELSE Resolve(receipt.id, receipt.result)

\* The parts of an uplink frame: the receipt is handled; wait, warn and other
\* parts are logged.
routeFrame(receipt) == handleResult(receipt)

\* A request without a session or without parts is INVALID_ARGUMENT and changes
\* nothing; a receipt needs an active downlink.
SendFrameCode == IF isDesktopConnected THEN "OK" ELSE "FAILED_PRECONDITION"

SendFrame(receipt) ==
  /\ IF SendFrameCode = "OK" THEN routeFrame(receipt)
     ELSE UNCHANGED <<pending, settled>>
  /\ UNCHANGED <<connections, heartbeat, streams, events, down, minted>>

\* Mutant: no timer is armed.
timeoutNever(id) == FALSE /\ UNCHANGED bridgeVars

\* The backstop timer of a dispatch in flight.
timeout(id) ==
  /\ id \in pending
  /\ Resolve(id, Failed("operation timed out"))
  /\ UNCHANGED <<connections, heartbeat, streams, events, down, minted>>

\* The abort signal of the caller.
onAbort(id) ==
  /\ id \in pending
  /\ Resolve(id, Failed("aborted"))
  /\ UNCHANGED <<connections, heartbeat, streams, events, down, minted>>

=============================================================================
