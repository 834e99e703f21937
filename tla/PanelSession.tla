---------------------------- MODULE PanelSession ----------------------------
(***************************************************************************)
(* The older radio client of panel.js, against the same radio server as   *)
(* Session.  Its structure is that of katena.js, with these differences   *)
(* in the code:                                                            *)
(*  - the receive queue is a plain Array: responseArrayBuffer appends      *)
(*    every frame, whatever the mode, and processAudioOutput point-samples *)
(*    from it without removing anything;                                   *)
(*  - frames carry no tag: the whole ArrayBuffer is Int16 samples;         *)
(*  - the interpolation contexts have no scale field;                     *)
(*  - transmit() and receive() disconnect and connect nodes without        *)
(*    ignoreErrors, and keyUp uses a variable r it never declares;         *)
(*  - r.soc.onclose sets r.soc = 0 and then calls tearDown.                *)
(*                                                                         *)
(* Each handler is one atomic action, as in Session.  Nothing installs    *)
(* window.onerror here, so a handler that throws just stops; the errors   *)
(* variable records what escaped.                                          *)
(*                                                                         *)
(* AudioNode.disconnect(destination) throws InvalidAccessError when the   *)
(* node is not connected to that destination in browsers that implement  *)
(* selective disconnection; older ones took the argument as an output     *)
(* index and disconnected everything.  SelectiveDisconnect chooses.       *)
(***************************************************************************)
EXTENDS Integers, Sequences

CONSTANTS NetRate,              \* net_sample_rate
          DeviceRate,           \* r.context.sampleRate
          BlockSize,            \* r.out.worker.bufferSize
          FrameLens,            \* samples per inbound frame
          SelectiveDisconnect,  \* disconnect(dest) checks the connection
          UserActiveIn,         \* socket states in which the user acts
          MaxPresses, MaxFrames, MaxInFlight,
          Undefined             \* undefined / NaN

ASSUME SelectiveDisconnect \in BOOLEAN

VARIABLES
  phase,           \* "acquiring" | "denied" | "running" | "unloaded"
  soc,             \* r.soc: "none" (undefined), a readyState, or "zero" (0)
  socEvents,       \* error / close events queued for r.soc
  actx,            \* r.context: "none" | "running" | "closing" | "null"
  actxReplies,     \* settled AudioContext promises, in order
  nodes,           \* r.in.* / r.out.worker: "none" | "built" | "released"
  srcLevel,        \* r.in.source connected to r.in.level
  inDest,          \* r.in.worker connected to the destination
  outDest,         \* r.out.worker connected to the destination
  transmitting,    \* r.transmitting
  disable,         \* r.disable
  transmitKeyDown, \* r.transmitKeyDown
  queue,           \* r.receiveQueue, one entry per sample (its epoch)
  pOffset,         \* r.outputInterpolationContext.offset, over DeviceRate
  outBlock,        \* the samples the last processAudioOutput wrote
  bodyReplaced,    \* serverDisconnected replaced the page body
  toServer, toClient, srvMode, srvEpoch, cliEpoch, errors, presses,
  framesSent

vars == <<phase, soc, socEvents, actx, actxReplies, nodes, srcLevel, inDest,
          outDest, transmitting, disable, transmitKeyDown, queue, pOffset,
          outBlock, bodyReplaced, toServer, toClient, srvMode, srvEpoch, cliEpoch, errors, presses,
          framesSent>>

Epochs == 0 .. MaxPresses

\* The audio graph's connections.
graphVars == <<nodes, srcLevel, inDest, outDest>>

\* The server's side of the connection.
srvVars == <<srvMode, srvEpoch, framesSent>>

\* A played sample of silence (the epochs are the other sample values).
Silence == -1

-----------------------------------------------------------------------------
(* pointSample(inp, out, inLength, outLength, context).  With ratio       *)
(* r = inRate / outRate, offsets are kept in units of 1 / outRate.         *)
(* Math.round(x) is floor(x + 0.5).                                        *)

\* j = Math.round(i * ratio + offset), for offset = O / outRate.
PointIndex(i, O, inRate, outRate) == (2 * (i * inRate + O) + outRate) \div (2 * outRate)

\* Mutant: the carried offset is not reduced modulo the ratio.
PointOffsetNoMod(outLength, O, inRate) == outLength * inRate + O

\* context.offset = ((outLength * ratio) + offset) % ratio, over outRate.
PointOffset(outLength, O, inRate) == (outLength * inRate + O) % inRate

\* inp[j], undefined past the end.
SampleAt(inp, j) == IF 0 <= j /\ j < Len(inp) THEN inp[j + 1] ELSE Undefined

\* The samples out[i] = inp[j] * scale reads, i in 0 .. outLength - 1.
PointSample(inp, outLength, O, inRate, outRate) ==
  [i \in 1 .. outLength |-> SampleAt(inp, PointIndex(i - 1, O, inRate, outRate))]

\* r.outputInterpolationContext has no scale, so inp[j] * scale is NaN.
OutputScale == Undefined

Scaled(v) == IF v = Undefined \/ OutputScale = Undefined THEN Undefined ELSE v

\* Init.  go(): r.disable = false, listeners registered, the microphone
\* requested.
Init ==
  /\ phase = "acquiring"
  /\ soc = "none"
  /\ socEvents = <<>>
  /\ actx = "none"
  /\ actxReplies = <<>>
  /\ nodes = "none"
  /\ srcLevel = FALSE /\ inDest = FALSE /\ outDest = FALSE
  /\ transmitting = FALSE
  /\ disable = FALSE
  /\ transmitKeyDown = FALSE
  /\ queue = <<>>
  /\ pOffset = 0
  /\ outBlock = <<>>
  /\ bodyReplaced = FALSE
  /\ toServer = <<>> /\ toClient = <<>>
  /\ srvMode = "receive" /\ srvEpoch = 0 /\ cliEpoch = 0
  /\ errors = {}
  /\ presses = 0 /\ framesSent = 0

\* Mutant: buildAudioGraph connects r.in.worker to the destination at
\* once (the capture graph runs before transmit()).
GotMicrophoneConnectsInput ==
  /\ phase = "acquiring"
  /\ phase' = "running"
  /\ actx' = "running"
  /\ nodes' = "built"
  /\ soc' = "connecting"
  /\ queue' = <<>>
  /\ pOffset' = 0
  /\ inDest' = TRUE
  /\ UNCHANGED <<socEvents, actxReplies, srcLevel, outDest,
                 transmitting, disable, transmitKeyDown, outBlock, bodyReplaced,
                 toServer, toClient, srvVars, cliEpoch, errors, presses>>

\* gotMicrophone: buildAudioGraph (no worker is connected to the
\* destination yet) and buildSocket (r.receiveQueue = []).
GotMicrophone ==
  /\ phase = "acquiring"
  /\ phase' = "running"
  /\ actx' = "running"
  /\ nodes' = "built"
  /\ soc' = "connecting"
  /\ queue' = <<>>
  /\ pOffset' = 0
  /\ UNCHANGED <<socEvents, actxReplies, srcLevel, inDest, outDest,
                 transmitting, disable, transmitKeyDown, outBlock, bodyReplaced,
                 toServer, toClient, srvVars, cliEpoch, errors, presses>>

\* didNotGetMicrophone: a notice only.
DidNotGetMicrophone ==
  /\ phase = "acquiring"
  /\ phase' = "denied"
  /\ UNCHANGED <<soc, socEvents, actx, actxReplies, graphVars, transmitting,
                 disable, transmitKeyDown, queue, pOffset, outBlock,
                 bodyReplaced, toServer, toClient, srvVars, cliEpoch, errors,
                 presses>>


-----------------------------------------------------------------------------
(* transmit() and receive() run a fixed list of statements, any of which  *)
(* may throw; the statements after a throw do not run.  A fault list     *)
(* names, per statement, the exception it throws or "none".                *)

\* Statement k runs: none before it threw.
Reached(f, k) == \A m \in 1 .. k - 1 : f[m] = "none"

\* Statement k ran to completion.
Completed(f, k) == Reached(f, k) /\ f[k] = "none"

\* The exception, if any, that escaped.
Thrown(f) == {f[k] : k \in {m \in DOMAIN f : Reached(f, m) /\ f[m] # "none"}}

\* r.soc.send: r.soc undefined or 0 has no send; a connecting socket
\* throws; a closing or closed one discards the message.
SendFault == CASE soc \in {"none", "zero"} -> "TypeError"
               [] soc = "connecting"       -> "InvalidStateError"
               [] OTHER                    -> "none"

Sent(ch, m) == IF soc = "open" THEN Append(ch, m) ELSE ch

\* node.disconnect(dest), for a node connected to dest or not.
DisconnectFault(connected) ==
  CASE nodes = "released"                  -> "TypeError"
    [] SelectiveDisconnect /\ ~connected   -> "InvalidAccessError"
    [] OTHER                               -> "none"

\* node.connect(dest) on a built or released graph.
ConnectFault == IF nodes = "released" THEN "TypeError" ELSE "none"

\* transmit(): when receiving, set r.transmitting, then
\*  1 send the transmit command, 2 empty r.receiveQueue,
\*  3 r.out.worker.disconnect(destination), 4 r.in.source.connect(level),
\*  5 r.in.worker.connect(destination).
TransmitFaults ==
  <<SendFault, "none", DisconnectFault(outDest), ConnectFault, ConnectFault>>

\* Mutant: transmit() rewires the graph without sending the transmit
\* command.
TransmitNoCommand ==
  \/ /\ transmitting
     /\ UNCHANGED <<transmitting, toServer, queue, cliEpoch, srcLevel, inDest,
                    outDest, errors>>
  \/ /\ ~transmitting
     /\ LET f == TransmitFaults
        IN /\ transmitting' = TRUE
           /\ UNCHANGED toServer
           /\ queue' = IF Completed(f, 2) THEN <<>> ELSE queue
           /\ cliEpoch' = IF Completed(f, 2) THEN cliEpoch + 1 ELSE cliEpoch
           /\ outDest' = IF Completed(f, 3) THEN FALSE ELSE outDest
           /\ srcLevel' = IF Completed(f, 4) THEN TRUE ELSE srcLevel
           /\ inDest' = IF Completed(f, 5) THEN TRUE ELSE inDest
           /\ errors' = errors \cup Thrown(f)

Transmit ==
  \/ /\ transmitting
     /\ UNCHANGED <<transmitting, toServer, queue, cliEpoch, srcLevel, inDest,
                    outDest, errors>>
  \/ /\ ~transmitting
     /\ LET f == TransmitFaults
        IN /\ transmitting' = TRUE
           /\ toServer' = IF Completed(f, 1) THEN Sent(toServer, "transmit")
                                             ELSE toServer
           /\ queue' = IF Completed(f, 2) THEN <<>> ELSE queue
           /\ cliEpoch' = IF Completed(f, 2) THEN cliEpoch + 1 ELSE cliEpoch
           /\ outDest' = IF Completed(f, 3) THEN FALSE ELSE outDest
           /\ srcLevel' = IF Completed(f, 4) THEN TRUE ELSE srcLevel
           /\ inDest' = IF Completed(f, 5) THEN TRUE ELSE inDest
           /\ errors' = errors \cup Thrown(f)

\* receive(): when transmitting, clear r.transmitting (and the delay
\* statistics), then
\*  1 send the receive command, 2 r.in.source.disconnect(level),
\*  3 r.in.worker.disconnect(destination), 4 r.out.worker.connect(destination).
ReceiveFaults ==
  <<SendFault, DisconnectFault(srcLevel), DisconnectFault(inDest), ConnectFault>>

\* Mutant: receive() leaves r.in.worker connected to the destination.
ReceiveKeepsCapture ==
  \/ /\ ~transmitting
     /\ UNCHANGED <<transmitting, toServer, srcLevel, inDest, outDest, errors>>
  \/ /\ transmitting
     /\ LET f == ReceiveFaults
        IN /\ transmitting' = FALSE
           /\ toServer' = IF Completed(f, 1) THEN Sent(toServer, "receive")
                                             ELSE toServer
           /\ srcLevel' = IF Completed(f, 2) THEN FALSE ELSE srcLevel
           /\ UNCHANGED inDest
           /\ outDest' = IF Completed(f, 4) THEN TRUE ELSE outDest
           /\ errors' = errors \cup Thrown(f)

Receive ==
  \/ /\ ~transmitting
     /\ UNCHANGED <<transmitting, toServer, srcLevel, inDest, outDest, errors>>
  \/ /\ transmitting
     /\ LET f == ReceiveFaults
        IN /\ transmitting' = FALSE
           /\ toServer' = IF Completed(f, 1) THEN Sent(toServer, "receive")
                                             ELSE toServer
           /\ srcLevel' = IF Completed(f, 2) THEN FALSE ELSE srcLevel
           /\ inDest' = IF Completed(f, 3) THEN FALSE ELSE inDest
           /\ outDest' = IF Completed(f, 4) THEN TRUE ELSE outDest
           /\ errors' = errors \cup Thrown(f)

\* The user acts while the page is loaded and the socket is in a state
\* UserActiveIn names.
UserEvent ==
  /\ phase = "running"
  /\ soc \in UserActiveIn
  /\ presses < MaxPresses
  /\ presses' = presses + 1

\* The buttons and the settings form, until serverDisconnected replaces
\* the page body; keydown and keyup listen on the window and outlive it.
OnControls == UserEvent /\ ~bodyReplaced

\* keyDown on the space bar: ignore key repeat, otherwise transmit().
KeyDown ==
  /\ UserEvent
  /\ ~transmitKeyDown
  /\ transmitKeyDown' = TRUE
  /\ Transmit
  /\ UNCHANGED <<phase, soc, socEvents, actx, actxReplies, nodes, disable,
                 pOffset, outBlock, bodyReplaced, toClient, srvVars>>

\* keyUp on the space bar: its first statement assigns r.transmitKeyDown,
\* but keyUp never declares r, so it throws ReferenceError and receive()
\* is never called.
KeyUp ==
  /\ UserEvent
  /\ errors' = errors \cup {"ReferenceError"}
  /\ UNCHANGED <<phase, soc, socEvents, actx, actxReplies, graphVars,
                 transmitting, disable, transmitKeyDown, queue, pOffset,
                 outBlock, bodyReplaced, toServer, toClient, srvVars, cliEpoch>>

\* mousedown on the TransmitButton.
ClickTransmit ==
  /\ OnControls
  /\ Transmit
  /\ UNCHANGED <<phase, soc, socEvents, actx, actxReplies, nodes, disable,
                 transmitKeyDown, pOffset, outBlock, bodyReplaced, toClient,
                 srvVars>>

\* mousedown on the ReceiveButton.
ClickReceive ==
  /\ OnControls
  /\ Receive
  /\ UNCHANGED <<phase, soc, socEvents, actx, actxReplies, nodes, disable,
                 transmitKeyDown, queue, pOffset, outBlock, bodyReplaced,
                 toClient, srvVars, cliEpoch>>

\* sendParameters (a settings change or the form's submit).
SendParameters ==
  /\ OnControls
  /\ toServer' = IF SendFault = "none" THEN Sent(toServer, "set") ELSE toServer
  /\ errors' = errors \cup Thrown(<<SendFault>>)
  /\ UNCHANGED <<phase, soc, socEvents, actx, actxReplies, graphVars,
                 transmitting, disable, transmitKeyDown, queue, pOffset,
                 outBlock, bodyReplaced, toClient, srvVars, cliEpoch>>

\* r.soc.onopen -> gotSocket: r.transmitting = true so that receive()
\* starts, then receive() on the now open socket.
SocketOpen ==
  /\ phase = "running"
  /\ soc = "connecting"
  /\ soc' = "open"
  /\ LET f == <<"none", DisconnectFault(srcLevel), DisconnectFault(inDest),
                ConnectFault>>
     IN /\ transmitting' = FALSE
        /\ toServer' = Append(toServer, "receive")
        /\ srcLevel' = IF Completed(f, 2) THEN FALSE ELSE srcLevel
        /\ inDest' = IF Completed(f, 3) THEN FALSE ELSE inDest
        /\ outDest' = IF Completed(f, 4) THEN TRUE ELSE outDest
        /\ errors' = errors \cup Thrown(f)
  /\ UNCHANGED <<phase, socEvents, actx, actxReplies, nodes, disable,
                 transmitKeyDown, queue, pOffset, outBlock, bodyReplaced,
                 toClient, srvVars, cliEpoch, presses>>

-----------------------------------------------------------------------------
(* Teardown.                                                               *)

\* The promise r.context.suspend() settles with: a closing context
\* rejects it.
SuspendReply == IF actx = "closing" THEN "suspendRej" ELSE "suspendOK"

\* tearDown with r.soc in state s: send close on an open socket, set
\* r.disable, close an open or connecting socket, suspend r.context when it
\* is set.  r.reentered only guards a synchronous re-entry.
TearDown(s) ==
  /\ disable' = TRUE
  /\ toServer' = IF s = "open" THEN Append(toServer, "close") ELSE toServer
  /\ soc' = IF s \in {"connecting", "open"} THEN "closing" ELSE s
  /\ actxReplies' = IF actx \in {"running", "closing"}
                      THEN Append(actxReplies, SuspendReply)
                      ELSE actxReplies

\* Mutant: r.soc.onerror also tears down before serverDisconnected.
OnSocketEventErrorTearsDown ==
  /\ phase = "running"
  /\ socEvents # <<>>
  /\ socEvents' = Tail(socEvents)
  /\ bodyReplaced' = TRUE
  /\ \/ /\ Head(socEvents) = "error"
        /\ TearDown(soc)
     \/ /\ Head(socEvents) = "close"
        /\ TearDown("zero")
  /\ UNCHANGED <<phase, actx, graphVars, transmitting, transmitKeyDown, queue,
                 pOffset, outBlock, toClient, srvVars, cliEpoch, errors,
                 presses>>

\* Mutant: r.soc.onclose only calls serverDisconnected, like onerror.
OnSocketEventNoTearDown ==
  /\ phase = "running"
  /\ socEvents # <<>>
  /\ socEvents' = Tail(socEvents)
  /\ bodyReplaced' = TRUE
  /\ UNCHANGED <<soc, disable, toServer, actxReplies>>
  /\ UNCHANGED <<phase, actx, graphVars, transmitting, transmitKeyDown, queue,
                 pOffset, outBlock, toClient, srvVars, cliEpoch, errors,
                 presses>>

\* serverDisconnected: window.stop() and the page body replaced by a
\* notice and a reconnect form.
ServerDisconnected == bodyReplaced' = TRUE

\* The next socket event.  r.soc.onerror -> websocketError: a notice and
\* serverDisconnected, which stops the page and replaces its body.
\* r.soc.onclose: r.soc = 0, tearDown (which then neither sends nor
\* closes), serverDisconnected.
OnSocketEvent ==
  /\ phase = "running"
  /\ socEvents # <<>>
  /\ socEvents' = Tail(socEvents)
  /\ ServerDisconnected
  /\ \/ /\ Head(socEvents) = "error"
        /\ UNCHANGED <<soc, disable, toServer, actxReplies>>
     \/ /\ Head(socEvents) = "close"
        /\ TearDown("zero")
  /\ UNCHANGED <<phase, actx, graphVars, transmitting, transmitKeyDown, queue,
                 pOffset, outBlock, toClient, srvVars, cliEpoch, errors,
                 presses>>

\* beforeunload -> tearDown; the page then goes away.
BeforeUnload ==
  /\ phase = "running"
  /\ phase' = "unloaded"
  /\ TearDown(soc)
  /\ UNCHANGED <<socEvents, actx, graphVars, transmitting, transmitKeyDown,
                 queue, pOffset, outBlock, bodyReplaced, toClient, srvVars,
                 cliEpoch, errors, presses>>

\* The next settled AudioContext promise runs its callback.
\*  suspendFulfilled: if r.in.source is set, disconnect every node and
\*  null it; then r.context.close().  closeFulfilled: r.context = null.
\* While the page lives only onclose tears down, so the context suspended
\* is running and no suspend or close is rejected (SingleTeardownWhileRunning);
\* a rejection callback, which only logs, or a suspendFulfilled reading a
\* null r.context, never runs.
SuspendFulfilled(rest) ==
  /\ nodes' = IF nodes = "built" THEN "released" ELSE nodes
  /\ srcLevel' = FALSE /\ inDest' = FALSE /\ outDest' = FALSE
  /\ actx' = "closing"
  /\ actxReplies' = Append(rest, "closeOK")

CloseFulfilled(rest) ==
  /\ actx' = "null"
  /\ actxReplies' = rest
  /\ UNCHANGED graphVars

ActxReply ==
  /\ phase = "running"
  /\ actxReplies # <<>>
  /\ \/ Head(actxReplies) = "suspendOK" /\ SuspendFulfilled(Tail(actxReplies))
     \/ Head(actxReplies) = "closeOK" /\ CloseFulfilled(Tail(actxReplies))
  /\ UNCHANGED <<phase, soc, socEvents, transmitting, disable, transmitKeyDown,
                 queue, pOffset, outBlock, bodyReplaced, toServer, toClient,
                 srvVars, cliEpoch, errors, presses>>


-----------------------------------------------------------------------------
(* The audio callbacks run while the context runs and the worker is      *)
(* connected to the destination.                                           *)

\* processAudioInput: nothing unless transmitting and enabled; otherwise
\* point-sample the capture block and r.soc.send it.  The in-flight
\* bound keeps the channel finite.  r.soc.send would throw on a
\* connecting socket or on r.soc = 0; CaptureNeverThrows shows that the
\* callback never runs then.
ProcessAudioInput ==
  /\ phase = "running"
  /\ actx = "running"
  /\ inDest
  /\ transmitting
  /\ ~disable
  /\ \/ /\ soc = "open"
        /\ Len(toServer) < MaxInFlight
        /\ toServer' = Append(toServer, "audio")
     \/ /\ soc \in {"closing", "closed"}
        /\ UNCHANGED toServer
  /\ UNCHANGED <<phase, soc, socEvents, actx, actxReplies, graphVars,
                 transmitting, disable, transmitKeyDown, queue, pOffset,
                 outBlock, bodyReplaced, toClient, srvVars, cliEpoch, errors,
                 presses>>

\* processAudioOutput: while receiving with samples queued, pointSample
\* the queue into the block (nothing is removed from r.receiveQueue, and
\* the context's offset is carried); otherwise fill the block with zeros.
\* r.disable is not consulted.
ProcessAudioOutput ==
  /\ phase = "running"
  /\ actx = "running"
  /\ outDest
  /\ \/ /\ ~transmitting
        /\ queue # <<>>
        /\ LET ps == PointSample(queue, BlockSize, pOffset, NetRate, DeviceRate)
           IN outBlock' = [i \in DOMAIN ps |-> Scaled(ps[i])]
        /\ pOffset' = PointOffset(BlockSize, pOffset, NetRate)
     \/ /\ transmitting \/ queue = <<>>
        /\ outBlock' = [i \in 1 .. BlockSize |-> Silence]
        /\ UNCHANGED pOffset
  /\ UNCHANGED <<phase, soc, socEvents, actx, actxReplies, graphVars,
                 transmitting, disable, transmitKeyDown, queue, bodyReplaced,
                 toServer, toClient, srvVars, cliEpoch, errors, presses>>

\* response -> responseArrayBuffer: append every Int16 of the frame to
\* r.receiveQueue, whatever the mode.  Each sample carries the epoch of
\* its frame.
ResponseArrayBuffer ==
  /\ phase = "running"
  /\ soc \in {"open", "closing"}
  /\ toClient # <<>>
  /\ toClient' = Tail(toClient)
  /\ queue' = queue \o [i \in 1 .. Head(toClient).len |-> Head(toClient).epoch]
  /\ UNCHANGED <<phase, soc, socEvents, actx, actxReplies, graphVars,
                 transmitting, disable, transmitKeyDown, pOffset, outBlock,
                 bodyReplaced, toServer, srvVars, cliEpoch, errors, presses>>

-----------------------------------------------------------------------------
(* The server and the network (environment), as in Session; the frames  *)
(* carry no tag.                                                           *)

Frames == [len : FrameLens, epoch : Epochs]

ServerReceives ==
  /\ toServer # <<>>
  /\ toServer' = Tail(toServer)
  /\ LET m == Head(toServer)
     IN /\ srvMode' = CASE m = "transmit" -> "transmit"
                        [] m = "receive"  -> "receive"
                        [] m = "close"    -> "closed"
                        [] OTHER          -> srvMode
        /\ srvEpoch' = IF m = "transmit" THEN srvEpoch + 1 ELSE srvEpoch
  /\ UNCHANGED <<phase, soc, socEvents, actx, actxReplies, graphVars,
                 transmitting, disable, transmitKeyDown, queue, pOffset,
                 outBlock, bodyReplaced, toClient, framesSent, cliEpoch,
                 errors, presses>>

\* The server sends audio while in receive mode.
ServerSends ==
  /\ soc \in {"open", "closing"}
  /\ srvMode = "receive"
  /\ framesSent < MaxFrames
  /\ Len(toClient) < MaxInFlight
  /\ \E len \in FrameLens :
       toClient' = Append(toClient, [len |-> len, epoch |-> srvEpoch])
  /\ framesSent' = framesSent + 1
  /\ UNCHANGED <<phase, soc, socEvents, actx, actxReplies, graphVars,
                 transmitting, disable, transmitKeyDown, queue, pOffset,
                 outBlock, bodyReplaced, toServer, srvMode, srvEpoch,
                 cliEpoch, errors, presses>>

\* The events a dying connection queues: close, possibly after error.
Ending == {<<"close">>, <<"error", "close">>}

\* The connection fails; data in flight is lost.
SocketFails ==
  /\ soc \in {"connecting", "open"}
  /\ soc' = "closed"
  /\ \E e \in Ending : socEvents' = socEvents \o e
  /\ toServer' = <<>> /\ toClient' = <<>>
  /\ srvMode' = "closed"
  /\ UNCHANGED <<phase, actx, actxReplies, graphVars, transmitting, disable,
                 transmitKeyDown, queue, pOffset, outBlock, bodyReplaced,
                 srvEpoch, framesSent, cliEpoch, errors, presses>>

\* The closing handshake completes once the data in flight is delivered.
SocketClosed ==
  /\ soc = "closing"
  /\ toServer = <<>> /\ toClient = <<>>
  /\ soc' = "closed"
  /\ \E e \in Ending : socEvents' = socEvents \o e
  /\ srvMode' = "closed"
  /\ UNCHANGED <<phase, actx, actxReplies, graphVars, transmitting, disable,
                 transmitKeyDown, queue, pOffset, outBlock, bodyReplaced,
                 toServer, toClient, srvEpoch, framesSent, cliEpoch, errors,
                 presses>>

-----------------------------------------------------------------------------
Next ==
  \/ GotMicrophone \/ DidNotGetMicrophone
  \/ KeyDown \/ KeyUp \/ ClickTransmit \/ ClickReceive \/ SendParameters
  \/ SocketOpen \/ OnSocketEvent \/ BeforeUnload \/ ActxReply
  \/ ProcessAudioInput \/ ProcessAudioOutput \/ ResponseArrayBuffer
  \/ ServerReceives \/ ServerSends \/ SocketFails \/ SocketClosed

\* As in Session: the browser runs pending tasks, promise callbacks and
\* audio callbacks; the network delivers.  The user, the server's sending,
\* failures and the microphone grant are not obliged to happen.
Fairness ==
  /\ WF_vars(SocketOpen) /\ WF_vars(OnSocketEvent) /\ WF_vars(ActxReply)
  /\ WF_vars(ProcessAudioOutput) /\ WF_vars(ResponseArrayBuffer)
  /\ WF_vars(ServerReceives) /\ WF_vars(SocketClosed)

Spec == Init /\ [][Next]_vars /\ Fairness

-----------------------------------------------------------------------------
(* Properties.                                                             *)

Messages == {"transmit", "receive", "close", "set", "audio"}

\* pointSample reduces the carried offset modulo the ratio, so it stays
\* below one input sample.
TypeOK ==
  /\ phase \in {"acquiring", "denied", "running", "unloaded"}
  /\ soc \in {"none", "connecting", "open", "closing", "closed", "zero"}
  /\ socEvents \in Seq({"error", "close"})
  /\ actx \in {"none", "running", "closing", "null"}
  /\ actxReplies \in Seq({"suspendOK", "suspendRej", "closeOK", "closeRej"})
  /\ nodes \in {"none", "built", "released"}
  /\ {srcLevel, inDest, outDest, transmitting, disable, transmitKeyDown,
      bodyReplaced} \subseteq BOOLEAN
  /\ queue \in Seq(Epochs)
  /\ pOffset \in 0 .. NetRate - 1
  /\ outBlock \in Seq(Epochs \cup {Silence, Undefined})
  /\ toServer \in Seq(Messages) /\ toClient \in Seq(Frames)
  /\ srvMode \in {"receive", "transmit", "closed"}
  /\ srvEpoch \in Epochs /\ cliEpoch \in Epochs
  /\ errors \subseteq {"TypeError", "InvalidStateError", "InvalidAccessError",
                       "ReferenceError"}

\* The mode the server is in when it takes message i of toServer.
ModeAt(i) ==
  LET cmds == {j \in 1 .. i - 1 : toServer[j] \in {"transmit", "receive", "close"}}
      last == CHOOSE j \in cmds : \A k \in cmds : k <= j
  IN  IF cmds = {} THEN srvMode
      ELSE CASE toServer[last] = "transmit" -> "transmit"
             [] toServer[last] = "receive"  -> "receive"
             [] OTHER                       -> "closed"

(* processAudioInput only sends microphone audio after transmit() has    *)
(* sent the transmit command: every audio frame reaches a server in      *)
(* transmit mode, whatever order keys, clicks, socket events and audio    *)
(* callbacks run in.                                                      *)
AudioOnlyWhileServerTransmits ==
  \A i \in DOMAIN toServer : toServer[i] = "audio" => ModeAt(i) = "transmit"

(* transmit() and receive() rewire the audio graph with the mode: on an  *)
(* open socket of a live page, the capture source feeds the level node    *)
(* and the capture worker reaches the destination exactly when            *)
(* transmitting, and the playback worker exactly when receiving.          *)
GraphFollowsMode ==
  (phase = "running" /\ soc = "open" /\ ~disable) =>
    /\ srcLevel = transmitting
    /\ inDest = transmitting
    /\ outDest = ~transmitting

(* transmit() connects the capture worker only after r.soc.send has      *)
(* succeeded, so processAudioInput never runs its send on a socket that   *)
(* would throw (connecting, or r.soc = 0 after onclose).                  *)
CaptureNeverThrows ==
  (phase = "running" /\ actx = "running" /\ inDest /\ transmitting /\ ~disable)
    => SendFault = "none"

(* Only onclose tears down while the page lives (onerror just replaces  *)
(* the body), and a socket closes once: every pending AudioContext      *)
(* promise is the one suspend, fulfilled on a running context, or the    *)
(* close it leads to; no callback meets a closing or null r.context.      *)
SingleTeardownWhileRunning ==
  phase = "running" =>
    \A i \in DOMAIN actxReplies :
      \/ actxReplies[i] = "suspendOK" /\ actx = "running"
      \/ actxReplies[i] = "closeOK" /\ actx = "closing"

(* After the connection is lost, onclose's tearDown and the suspend and  *)
(* close callbacks eventually release the AudioContext, unless the page  *)
(* is unloaded first.                                                     *)
ContextReleasedAfterDisconnect ==
  (soc \in {"closed", "zero"} /\ phase = "running")
    ~> (actx = "null" \/ phase = "unloaded")

(* Releasing the space bar ends the push-to-talk: after keyUp the page is *)
(* receiving.                                                             *)
SpaceReleaseReceives == [][KeyUp => ~transmitting']_vars

(* panel.js against the half-duplex contract katena.js refines (spec      *)
(* section 4.3): its mode is r.transmitting and its queue r.receiveQueue. *)
(* Received audio may be queued only while receiving, and starting to     *)
(* talk empties the queue.  The queue is unbounded in the code; the       *)
(* frames bound it by MaxFrames times the longest frame.                  *)
HD == INSTANCE HalfDuplex
        WITH Capacity <- MaxFrames * (CHOOSE m \in FrameLens :
                                        \A l \in FrameLens : l <= m),
             Values <- Epochs,
             mode <- IF transmitting THEN "transmitting" ELSE "receiving",
             queue <- queue

HalfDuplexSpec == HD!Spec

=============================================================================
