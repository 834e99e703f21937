------------------------------- MODULE Session -------------------------------
(***************************************************************************)
(* The half-duplex radio client of katena.js (window.radioclient) with    *)
(* the radio server it talks to over one WebSocket.                       *)
(*                                                                         *)
(* Every handler of the page is a task of the browser's event loop and    *)
(* runs to completion, so each handler is one atomic action: microphone   *)
(* grant, socket open / error / close, the two ScriptProcessor audio      *)
(* callbacks, inbound messages, the push-to-talk keys and buttons,        *)
(* beforeunload, and the AudioContext promise callbacks.  A handler that  *)
(* throws stops where it throws; an exception escaping an event handler   *)
(* reaches window.onerror (errorHandler), which replaces the page.        *)
(*                                                                         *)
(* The receive queue is the FIFO module; its samples are tagged with the  *)
(* transmit epoch of the server when it sent the frame, so that stale     *)
(* audio can be told apart.  Sample values, notices and DOM updates are   *)
(* left out.  The server is an environment: it obeys the transmit /       *)
(* receive / close commands in order and sends frames while receiving.   *)
(***************************************************************************)
EXTENDS Integers, Sequences

CONSTANTS QueueCapacity,  \* receiveQueue size (sampleRate * 30 in the code)
          NetRate,        \* netSampleRate
          DeviceRate,     \* r.context.sampleRate
          BlockSize,      \* r.out.worker.bufferSize
          FrameLens,      \* samples per inbound audio frame
          FrameTags,      \* tags the server puts in binary frames
          UserActiveIn,   \* socket states in which the user presses keys
          MaxPresses,     \* bound on user key / button events
          MaxFrames,      \* bound on frames the server sends
          MaxInFlight,    \* bound on audio frames queued in one direction
          Undefined

ASSUME QueueCapacity \in Nat \ {0} /\ BlockSize \in Nat \ {0}

VARIABLES
  phase,           \* "acquiring" | "denied" | "running" | "unloaded"
  soc,             \* r.soc.readyState, "none" before buildSocket
  socEvents,       \* error / close events queued for r.soc
  actx,            \* r.context: "none" | "running" | "closing" | "null"
  actxReplies,     \* settled AudioContext promises, in order
  nodes,           \* r.inp.* / r.out.worker: "none" | "built" | "released"
  outConnected,    \* r.out.worker connected to the destination
  transmitting,    \* r.transmitting
  disable,         \* r.disable
  tooFast,         \* r.tooFast
  transmitKeyDown, \* r.transmitKeyDown
  qInp, qOut, qBuf,\* r.receiveQueue
  pDelta,          \* r.outputResamplingContext.delta
  toServer,        \* messages on the socket towards the server
  toClient,        \* binary frames on the socket towards the page
  srvMode,         \* server: "receive" | "transmit" | "closed"
  srvEpoch,        \* server: transmit commands it has obeyed
  cliEpoch,        \* page: receive-queue resets done by transmit()
  errors,          \* exceptions that escaped a handler
  presses,         \* user events so far (bounded)
  framesSent,      \* frames the server has sent (bounded)
  delayed,         \* r.delayedReceivePackets
  onTime,          \* r.onTimeReceivePackets
  pct              \* r.delayedReceivePacketsPercentage

vars == <<phase, soc, socEvents, actx, actxReplies, nodes, outConnected,
          transmitting, disable, tooFast, transmitKeyDown, qInp, qOut, qBuf,
          pDelta, toServer, toClient, srvMode, srvEpoch, cliEpoch, errors,
          presses, framesSent, delayed, onTime, pct>>

statsVars == <<delayed, onTime, pct>>

Epochs == 0 .. MaxPresses

RQ == INSTANCE FIFO WITH inp <- qInp, out <- qOut, buf <- qBuf,
                         Capacity <- QueueCapacity, Values <- Epochs, Zero <- -1

PR == INSTANCE Resampler WITH InRate <- NetRate, OutRate <- DeviceRate

Frames == [tag : FrameTags, len : FrameLens, epoch : Epochs]

\* go(): listeners registered, r.disable = false, r.tooFast = false, and
\* the microphone requested.  r.transmitting is undefined, which every
\* test of it reads as false.
Init ==
  /\ phase = "acquiring"
  /\ soc = "none"
  /\ socEvents = <<>>
  /\ actx = "none"
  /\ actxReplies = <<>>
  /\ nodes = "none"
  /\ outConnected = FALSE
  /\ transmitting = FALSE
  /\ disable = FALSE
  /\ tooFast = FALSE
  /\ transmitKeyDown = FALSE
  /\ RQ!Init
  /\ pDelta = PR!InitialDelta
  /\ toServer = <<>>
  /\ toClient = <<>>
  /\ srvMode = "receive"
  /\ srvEpoch = 0
  /\ cliEpoch = 0
  /\ errors = {}
  /\ presses = 0
  /\ framesSent = 0
  /\ delayed = Undefined /\ onTime = Undefined /\ pct = Undefined

-----------------------------------------------------------------------------
(* Page set-up.                                                            *)

\* gotMicrophone: buildAudioGraph creates the context, both resampling
\* contexts and the nodes, and connects the input worker to the
\* destination; buildSocket creates the receive queue and the socket.
GotMicrophone ==
  /\ phase = "acquiring"
  /\ phase' = "running"
  /\ actx' = "running"
  /\ nodes' = "built"
  /\ soc' = "connecting"
  /\ qInp' = 0 /\ qOut' = 0 /\ qBuf' = [i \in RQ!Slots |-> -1]
  /\ pDelta' = PR!InitialDelta
  /\ UNCHANGED <<socEvents, actxReplies, outConnected, transmitting, disable,
                 tooFast, transmitKeyDown, toServer, toClient, srvMode,
                 srvEpoch, cliEpoch, errors, presses, framesSent, statsVars>>

\* didNotGetMicrophone: a notice; nothing else ever starts.
DidNotGetMicrophone ==
  /\ phase = "acquiring"
  /\ phase' = "denied"
  /\ UNCHANGED <<soc, socEvents, actx, actxReplies, nodes, outConnected,
                 transmitting, disable, tooFast, transmitKeyDown, qInp, qOut,
                 qBuf, pDelta, toServer, toClient, srvMode, srvEpoch,
                 cliEpoch, errors, presses, framesSent, statsVars>>

-----------------------------------------------------------------------------
(* transmit() and receive(), called by the keys, the buttons and          *)
(* gotSocket.  r.soc.send throws TypeError while r.soc is undefined and   *)
(* InvalidStateError while it is connecting; on a closing or closed       *)
(* socket it discards the message.                                         *)

CanSend == soc \notin {"none", "connecting"}

SendError == IF soc = "none" THEN "TypeError" ELSE "InvalidStateError"

\* The channel after r.soc.send(m) on a socket that can send.
Sent(ch, m) == IF soc = "open" THEN Append(ch, m) ELSE ch

\* Mutant: transmit() that leaves the output worker connected.
TransmitKeepsOutput ==
  \/ /\ transmitting
     /\ UNCHANGED <<transmitting, toServer, outConnected, qInp, qOut, qBuf,
                    cliEpoch, errors>>
  \/ /\ ~transmitting
     /\ transmitting' = TRUE
     /\ ~CanSend
     /\ errors' = errors \cup {SendError}
     /\ UNCHANGED <<toServer, outConnected, qInp, qOut, qBuf, cliEpoch>>
  \/ /\ ~transmitting
     /\ transmitting' = TRUE
     /\ CanSend
     /\ toServer' = Sent(toServer, "transmit")
     /\ UNCHANGED outConnected
     /\ RQ!Reset
     /\ cliEpoch' = cliEpoch + 1
     /\ errors' = IF nodes = "released" THEN errors \cup {"TypeError"} ELSE errors

\* Mutant: transmit() that does not reset the receive queue.
TransmitKeepsQueue ==
  \/ /\ transmitting
     /\ UNCHANGED <<transmitting, toServer, outConnected, qInp, qOut, qBuf,
                    cliEpoch, errors>>
  \/ /\ ~transmitting
     /\ transmitting' = TRUE
     /\ ~CanSend
     /\ errors' = errors \cup {SendError}
     /\ UNCHANGED <<toServer, outConnected, qInp, qOut, qBuf, cliEpoch>>
  \/ /\ ~transmitting
     /\ transmitting' = TRUE
     /\ CanSend
     /\ toServer' = Sent(toServer, "transmit")
     /\ outConnected' = FALSE
     /\ UNCHANGED <<qInp, qOut, qBuf>>
     /\ cliEpoch' = cliEpoch + 1
     /\ errors' = IF nodes = "released" THEN errors \cup {"TypeError"} ELSE errors

\* transmit(): when receiving, set r.transmitting, send the transmit
\* command, disconnect the output worker (errors ignored), reset the
\* receive queue and connect the microphone source, which throws once
\* tearDown's suspend callback has released the nodes.
Transmit ==
  \/ /\ transmitting
     /\ UNCHANGED <<transmitting, toServer, outConnected, qInp, qOut, qBuf,
                    cliEpoch, errors>>
  \/ /\ ~transmitting
     /\ transmitting' = TRUE
     /\ ~CanSend
     /\ errors' = errors \cup {SendError}
     /\ UNCHANGED <<toServer, outConnected, qInp, qOut, qBuf, cliEpoch>>
  \/ /\ ~transmitting
     /\ transmitting' = TRUE
     /\ CanSend
     /\ toServer' = Sent(toServer, "transmit")
     /\ outConnected' = FALSE
     /\ RQ!Reset
     /\ cliEpoch' = cliEpoch + 1
     /\ errors' = IF nodes = "released" THEN errors \cup {"TypeError"} ELSE errors

\* receive() zeroes the delay statistics before it sends the command (the
\* percentage 0 is a number).
ResetStats == delayed' = 0 /\ onTime' = 0 /\ pct' = "number"

\* Mutant: receive() sends the receive command but leaves r.transmitting set.
ReceiveKeepsFlag ==
  \/ /\ ~transmitting
     /\ UNCHANGED <<transmitting, toServer, outConnected, errors, statsVars>>
  \/ /\ transmitting
     /\ ResetStats
     /\ transmitting' = FALSE
     /\ ~CanSend
     /\ errors' = errors \cup {SendError}
     /\ UNCHANGED <<toServer, outConnected>>
  \/ /\ transmitting
     /\ ResetStats
     /\ UNCHANGED transmitting
     /\ CanSend
     /\ toServer' = Sent(toServer, "receive")
     /\ outConnected' = (nodes = "built")
     /\ errors' = IF nodes = "released" THEN errors \cup {"TypeError"} ELSE errors

\* receive(): when transmitting, clear r.transmitting (and the delay
\* statistics), send the receive command, disconnect the microphone
\* (errors ignored) and connect the output worker, which throws once the
\* nodes are released.
Receive ==
  \/ /\ ~transmitting
     /\ UNCHANGED <<transmitting, toServer, outConnected, errors, statsVars>>
  \/ /\ transmitting
     /\ ResetStats
     /\ transmitting' = FALSE
     /\ ~CanSend
     /\ errors' = errors \cup {SendError}
     /\ UNCHANGED <<toServer, outConnected>>
  \/ /\ transmitting
     /\ ResetStats
     /\ transmitting' = FALSE
     /\ CanSend
     /\ toServer' = Sent(toServer, "receive")
     /\ outConnected' = (nodes = "built")
     /\ errors' = IF nodes = "released" THEN errors \cup {"TypeError"} ELSE errors

\* The user generates key and button events while the page is loaded and
\* the socket is in one of the states UserActiveIn names.
UserEvent ==
  /\ phase # "unloaded"
  /\ soc \in UserActiveIn
  /\ presses < MaxPresses
  /\ presses' = presses + 1

\* keyDown on the space bar: ignore key repeat, otherwise transmit().
KeyDown ==
  /\ UserEvent
  /\ ~transmitKeyDown
  /\ transmitKeyDown' = TRUE
  /\ Transmit
  /\ UNCHANGED <<phase, soc, socEvents, actx, actxReplies, nodes, disable,
                 tooFast, pDelta, toClient, srvMode, srvEpoch, framesSent, statsVars>>

\* keyUp on the space bar: stop ignoring key repeat, then receive().
KeyUp ==
  /\ UserEvent
  /\ transmitKeyDown' = FALSE
  /\ Receive
  /\ UNCHANGED <<phase, soc, socEvents, actx, actxReplies, nodes, disable,
                 tooFast, qInp, qOut, qBuf, pDelta, toClient, srvMode,
                 srvEpoch, cliEpoch, framesSent>>

\* mousedown on the TransmitButton.
ClickTransmit ==
  /\ UserEvent
  /\ Transmit
  /\ UNCHANGED <<phase, soc, socEvents, actx, actxReplies, nodes, disable,
                 tooFast, transmitKeyDown, pDelta, toClient, srvMode,
                 srvEpoch, framesSent, statsVars>>

\* mousedown on the ReceiveButton.
ClickReceive ==
  /\ UserEvent
  /\ Receive
  /\ UNCHANGED <<phase, soc, socEvents, actx, actxReplies, nodes, disable,
                 tooFast, transmitKeyDown, qInp, qOut, qBuf, pDelta, toClient,
                 srvMode, srvEpoch, cliEpoch, framesSent>>

\* sendParameters (mode change, parameters form submit): send the set
\* command; the frequency and mode values are left out.
SendParameters ==
  /\ UserEvent
  /\ \/ ~CanSend /\ errors' = errors \cup {SendError} /\ UNCHANGED toServer
     \/ CanSend /\ toServer' = Sent(toServer, "set") /\ UNCHANGED errors
  /\ UNCHANGED <<phase, soc, socEvents, actx, actxReplies, nodes, outConnected,
                 transmitting, disable, tooFast, transmitKeyDown, qInp, qOut,
                 qBuf, pDelta, toClient, srvMode, srvEpoch, cliEpoch,
                 framesSent, statsVars>>

\* Mutant: gotSocket's receive() without the reset of the statistics.
SocketOpenKeepsStats ==
  /\ phase = "running"
  /\ soc = "connecting"
  /\ soc' = "open"
  /\ transmitting' = FALSE
  /\ toServer' = Append(toServer, "receive")
  /\ outConnected' = (nodes = "built")
  /\ errors' = IF nodes = "released" THEN errors \cup {"TypeError"} ELSE errors
  /\ UNCHANGED <<phase, socEvents, actx, actxReplies, nodes, disable, tooFast,
                 transmitKeyDown, qInp, qOut, qBuf, pDelta, toClient, srvMode,
                 srvEpoch, cliEpoch, presses, framesSent, statsVars>>

\* r.soc.onopen -> gotSocket: r.transmitting = true so that receive()
\* starts, then receive(), which sends the receive command and connects
\* the output worker.
SocketOpen ==
  /\ phase = "running"
  /\ soc = "connecting"
  /\ soc' = "open"
  /\ transmitting' = FALSE
  /\ ResetStats
  /\ toServer' = Append(toServer, "receive")
  /\ outConnected' = (nodes = "built")
  /\ errors' = IF nodes = "released" THEN errors \cup {"TypeError"} ELSE errors
  /\ UNCHANGED <<phase, socEvents, actx, actxReplies, nodes, disable, tooFast,
                 transmitKeyDown, qInp, qOut, qBuf, pDelta, toClient, srvMode,
                 srvEpoch, cliEpoch, presses, framesSent>>

-----------------------------------------------------------------------------
(* Teardown.                                                               *)

\* The AudioContext promise r.context.suspend() settles with.  A context
\* already closing rejects it.
SuspendReply == IF actx = "closing" THEN "suspendRej" ELSE "suspendOK"

\* tearDown(event), run to completion (r.reentered only guards against a
\* synchronous re-entry, so every call does the whole body): disable I/O,
\* send the close command on an open socket, close the socket, and
\* suspend a context that is still there.
TearDown ==
  /\ disable' = TRUE
  /\ toServer' = Sent(toServer, "close")
  /\ soc' = IF soc \in {"connecting", "open"} THEN "closing" ELSE soc
  /\ actxReplies' = IF actx \in {"running", "closing"}
                      THEN Append(actxReplies, SuspendReply)
                      ELSE actxReplies

\* r.soc.onerror -> websocketError -> serverDisconnected, and r.soc.onclose
\* -> serverDisconnected: tearDown, then the page body is replaced (the
\* handlers and the audio callbacks keep running).
OnSocketEvent ==
  /\ phase = "running"
  /\ socEvents # <<>>
  /\ socEvents' = Tail(socEvents)
  /\ TearDown
  /\ UNCHANGED <<phase, actx, nodes, outConnected, transmitting, tooFast,
                 transmitKeyDown, qInp, qOut, qBuf, pDelta, toClient, srvMode,
                 srvEpoch, cliEpoch, errors, presses, framesSent, statsVars>>

\* beforeunload -> tearDown; the page then goes away and none of its
\* handlers runs again.
BeforeUnload ==
  /\ phase = "running"
  /\ phase' = "unloaded"
  /\ TearDown
  /\ UNCHANGED <<socEvents, actx, nodes, outConnected, transmitting, tooFast,
                 transmitKeyDown, qInp, qOut, qBuf, pDelta, toClient, srvMode,
                 srvEpoch, cliEpoch, errors, presses, framesSent, statsVars>>

\* Mutant: the close promise settles before suspends already pending.
ActxReplyCloseFirst ==
  /\ phase = "running"
  /\ actxReplies # <<>>
  /\ LET m == Head(actxReplies)
         rest == Tail(actxReplies)
     IN \/ /\ m = "suspendOK"
           /\ nodes' = IF nodes = "built" THEN "released" ELSE nodes
           /\ outConnected' = FALSE
           /\ \/ /\ actx = "closing"
                 /\ actxReplies' = Append(rest, "closeRej")
                 /\ UNCHANGED <<actx, errors>>
              \/ /\ actx = "running"
                 /\ actx' = "closing"
                 /\ actxReplies' = <<"closeOK">> \o rest
                 /\ UNCHANGED errors
        \/ /\ m = "closeOK"
           /\ actx' = "null"
           /\ actxReplies' = rest
           /\ UNCHANGED <<nodes, outConnected, errors>>
        \/ /\ m \in {"suspendRej", "closeRej"}
           /\ actxReplies' = rest
           /\ UNCHANGED <<actx, nodes, outConnected, errors>>
  /\ UNCHANGED <<phase, soc, socEvents, transmitting, disable, tooFast,
                 transmitKeyDown, qInp, qOut, qBuf, pDelta, toServer, toClient,
                 srvMode, srvEpoch, cliEpoch, presses, framesSent, statsVars>>

\* Mutant: the suspend callback never closes the context.
ActxReplyNoClose ==
  /\ phase = "running"
  /\ actxReplies # <<>>
  /\ LET m == Head(actxReplies)
         rest == Tail(actxReplies)
     IN \/ /\ m = "suspendOK"
           /\ nodes' = IF nodes = "built" THEN "released" ELSE nodes
           /\ outConnected' = FALSE
           /\ \/ /\ actx = "closing"
                 /\ actxReplies' = Append(rest, "closeRej")
                 /\ UNCHANGED <<actx, errors>>
              \/ /\ actx = "running"
                 /\ actxReplies' = rest
                 /\ UNCHANGED <<actx, errors>>
        \/ /\ m = "closeOK"
           /\ actx' = "null"
           /\ actxReplies' = rest
           /\ UNCHANGED <<nodes, outConnected, errors>>
        \/ /\ m \in {"suspendRej", "closeRej"}
           /\ actxReplies' = rest
           /\ UNCHANGED <<actx, nodes, outConnected, errors>>
  /\ UNCHANGED <<phase, soc, socEvents, transmitting, disable, tooFast,
                 transmitKeyDown, qInp, qOut, qBuf, pDelta, toServer, toClient,
                 srvMode, srvEpoch, cliEpoch, presses, framesSent, statsVars>>

\* The next settled AudioContext promise runs its callback.
\*  audioContextSuspendFulfilled: release the nodes if r.inp.source is
\*  still set, then r.context.close(), which is rejected by a context
\*  already closing.  With r.context null the callback would throw; the
\*  invariant SuspendSeesContext shows it never runs then.
\*  audioContextCloseFulfilled: r.context = null.
\*  The two rejection callbacks only log.
ActxReply ==
  /\ phase = "running"
  /\ actxReplies # <<>>
  /\ LET m == Head(actxReplies)
         rest == Tail(actxReplies)
     IN \/ /\ m = "suspendOK"
           /\ nodes' = IF nodes = "built" THEN "released" ELSE nodes
           /\ outConnected' = FALSE
           /\ \/ /\ actx = "closing"
                 /\ actxReplies' = Append(rest, "closeRej")
                 /\ UNCHANGED <<actx, errors>>
              \/ /\ actx = "running"
                 /\ actx' = "closing"
                 /\ actxReplies' = Append(rest, "closeOK")
                 /\ UNCHANGED errors
        \/ /\ m = "closeOK"
           /\ actx' = "null"
           /\ actxReplies' = rest
           /\ UNCHANGED <<nodes, outConnected, errors>>
        \/ /\ m \in {"suspendRej", "closeRej"}
           /\ actxReplies' = rest
           /\ UNCHANGED <<actx, nodes, outConnected, errors>>
  /\ UNCHANGED <<phase, soc, socEvents, transmitting, disable, tooFast,
                 transmitKeyDown, qInp, qOut, qBuf, pDelta, toServer, toClient,
                 srvMode, srvEpoch, cliEpoch, presses, framesSent, statsVars>>


-----------------------------------------------------------------------------
(* The audio callbacks, which run while the context runs and the node is  *)
(* connected to the destination.                                           *)

\* Mutant: processAudioInput without the r.transmitting test.
ProcessAudioInputAlways ==
  /\ phase = "running"
  /\ actx = "running"
  /\ nodes = "built"
  /\ ~disable
  /\ \/ soc = "connecting" /\ errors' = errors \cup {"InvalidStateError"}
        /\ UNCHANGED toServer
     \/ soc = "open" /\ Len(toServer) < MaxInFlight
        /\ toServer' = Append(toServer, "audio") /\ UNCHANGED errors
     \/ soc \in {"closing", "closed"} /\ UNCHANGED <<toServer, errors>>
  /\ UNCHANGED <<phase, soc, socEvents, actx, actxReplies, nodes, outConnected,
                 transmitting, disable, tooFast, transmitKeyDown, qInp, qOut,
                 qBuf, pDelta, toClient, srvMode, srvEpoch, cliEpoch, presses,
                 framesSent, statsVars>>

\* processAudioInput: nothing unless transmitting and enabled; otherwise
\* resample one capture block and r.soc.send it, which throws while the
\* socket is connecting.  The in-flight bound keeps the channel finite.
ProcessAudioInput ==
  /\ phase = "running"
  /\ actx = "running"
  /\ nodes = "built"
  /\ transmitting
  /\ ~disable
  /\ \/ soc = "connecting" /\ errors' = errors \cup {"InvalidStateError"}
        /\ UNCHANGED toServer
     \/ soc = "open" /\ Len(toServer) < MaxInFlight
        /\ toServer' = Append(toServer, "audio") /\ UNCHANGED errors
     \/ soc \in {"closing", "closed"} /\ UNCHANGED <<toServer, errors>>
  /\ UNCHANGED <<phase, soc, socEvents, actx, actxReplies, nodes, outConnected,
                 transmitting, disable, tooFast, transmitKeyDown, qInp, qOut,
                 qBuf, pDelta, toClient, srvMode, srvEpoch, cliEpoch, presses,
                 framesSent, statsVars>>

\* The delay counters are kept as undefined (go() never sets them), zero,
\* or 1 for "one or more": the percentage only tells these apart.
\* undefined + 1 is NaN, which stays NaN; NaN is Undefined here too.
Counted(c) == IF c = Undefined THEN Undefined ELSE 1

\* Math.round(d / (d + o) * 100): NaN when a counter is not a number or
\* both are 0, else a number in 0 .. 100, whose value no property reads.
Percentage(d, o) ==
  IF Undefined \in {d, o} \/ d + o = 0 THEN Undefined ELSE "number"

\* Mutant: processAudioOutput only plays whole blocks.
PlayOutWholeBlocks ==
  \/ RQ!queuedLength >= BlockSize /\ RQ!Get(BlockSize)
  \/ RQ!queuedLength < BlockSize /\ UNCHANGED <<qInp, qOut, qBuf>>

\* While receiving, copy min(queued, bufferSize) samples out of the
\* receive queue; the rest of the block is zeros.
PlayOut ==
  \/ RQ!queuedLength > 0 /\ RQ!Get(PR!MinOf(RQ!queuedLength, BlockSize))
  \/ RQ!queuedLength = 0 /\ UNCHANGED <<qInp, qOut, qBuf>>

\* processAudioOutput, on every block of the connected output worker
\* unless r.disable: count the block as delayed when fewer than
\* bufferSize samples are queued, else as on time, and play out; then
\* recompute r.delayedReceivePacketsPercentage (the notice it updates is
\* left out).  The code's branches for r.transmitting output silence; the
\* worker is never connected while transmitting (OutputOnlyWhileReceiving).
ProcessAudioOutput ==
  /\ phase = "running"
  /\ actx = "running"
  /\ outConnected
  /\ ~disable
  /\ ~transmitting
  /\ \/ /\ RQ!queuedLength < BlockSize
        /\ delayed' = Counted(delayed)
        /\ UNCHANGED onTime
     \/ /\ RQ!queuedLength >= BlockSize
        /\ onTime' = Counted(onTime)
        /\ UNCHANGED delayed
  /\ PlayOut
  /\ pct' = Percentage(delayed', onTime')
  /\ UNCHANGED <<phase, soc, socEvents, actx, actxReplies, nodes, outConnected,
                 transmitting, disable, tooFast, transmitKeyDown, pDelta,
                 toServer, toClient, srvMode, srvEpoch, cliEpoch, errors,
                 presses, framesSent>>

-----------------------------------------------------------------------------
(* Inbound frames: response -> responseArrayBuffer.                        *)

\* Mutant: responseReceiveAudio without the writable-length check.
ResponseReceiveAudioUnchecked(f) ==
  LET n == PR!ResampledOutputLength(f.len, pDelta)
  IN \/ /\ tooFast' = FALSE
        /\ \/ /\ n < 0 \/ RQ!PutThrows(n)
              /\ errors' = errors \cup {"RangeError"}
              /\ UNCHANGED <<qInp, qOut, qBuf, pDelta>>
           \/ /\ n >= 0
              /\ RQ!Put([i \in 1 .. n |-> f.epoch])
              /\ pDelta' = PR!CarriedDelta(n, pDelta)
              /\ UNCHANGED errors

\* responseReceiveAudio: size the resampled frame; refuse it when it does
\* not fit (r.tooFast), otherwise put() a view and resample into it.  A
\* negative length makes put's typed-array view throw RangeError.  The
\* samples written carry the frame's epoch.
ResponseReceiveAudio(f) ==
  LET n == PR!ResampledOutputLength(f.len, pDelta)
  IN \/ /\ n > RQ!writableLength
        /\ tooFast' = TRUE
        /\ UNCHANGED <<qInp, qOut, qBuf, pDelta, errors>>
     \/ /\ n <= RQ!writableLength
        /\ tooFast' = FALSE
        /\ \/ /\ n < 0 \/ RQ!PutThrows(n)
              /\ errors' = errors \cup {"RangeError"}
              /\ UNCHANGED <<qInp, qOut, qBuf, pDelta>>
           \/ /\ n >= 0
              /\ RQ!Put([i \in 1 .. n |-> f.epoch])
              /\ pDelta' = PR!CarriedDelta(n, pDelta)
              /\ UNCHANGED errors

\* responseString on a binary frame: JSON.parse turns the ArrayBuffer into
\* "[object ArrayBuffer]", which is not JSON, and throws SyntaxError before
\* the frequency and mode fields are read.
ResponseString == errors' = errors \cup {"SyntaxError"}

\* responseArrayBuffer: frames are ignored while disabled or transmitting;
\* tag 0 goes to responseString, which JSON.parses the ArrayBuffer (a
\* SyntaxError), tag 1 to responseReceiveAudio, any other tag to a notice.
ResponseArrayBuffer ==
  /\ phase = "running"
  /\ soc \in {"open", "closing"}
  /\ toClient # <<>>
  /\ toClient' = Tail(toClient)
  /\ LET f == Head(toClient)
     IN \/ /\ disable \/ transmitting \/ f.tag \notin {0, 1}
           /\ UNCHANGED <<tooFast, qInp, qOut, qBuf, pDelta, errors>>
        \/ /\ ~disable /\ ~transmitting /\ f.tag = 0
           /\ ResponseString
           /\ UNCHANGED <<tooFast, qInp, qOut, qBuf, pDelta>>
        \/ /\ ~disable /\ ~transmitting /\ f.tag = 1
           /\ ResponseReceiveAudio(f)
  /\ UNCHANGED <<phase, soc, socEvents, actx, actxReplies, nodes, outConnected,
                 transmitting, disable, transmitKeyDown, toServer, srvMode,
                 srvEpoch, cliEpoch, presses, framesSent, statsVars>>

-----------------------------------------------------------------------------
(* The server and the network (environment).                               *)

\* The server takes the next message: it switches mode on transmit,
\* receive and close; audio and set change nothing modelled.
ServerReceives ==
  /\ toServer # <<>>
  /\ toServer' = Tail(toServer)
  /\ LET m == Head(toServer)
     IN /\ srvMode' = CASE m = "transmit" -> "transmit"
                        [] m = "receive"  -> "receive"
                        [] m = "close"    -> "closed"
                        [] OTHER          -> srvMode
        /\ srvEpoch' = IF m = "transmit" THEN srvEpoch + 1 ELSE srvEpoch
  /\ UNCHANGED <<phase, soc, socEvents, actx, actxReplies, nodes, outConnected,
                 transmitting, disable, tooFast, transmitKeyDown, qInp, qOut,
                 qBuf, pDelta, toClient, cliEpoch, errors, presses, framesSent, statsVars>>

\* The server sends a frame on an established connection: audio while it
\* is in receive mode, other tags at any time.
ServerSends ==
  /\ soc \in {"open", "closing"}
  /\ srvMode # "closed"
  /\ framesSent < MaxFrames
  /\ Len(toClient) < MaxInFlight
  /\ \E tag \in FrameTags, len \in FrameLens :
       /\ tag = 1 => srvMode = "receive"
       /\ toClient' = Append(toClient, [tag |-> tag, len |-> len, epoch |-> srvEpoch])
  /\ framesSent' = framesSent + 1
  /\ UNCHANGED <<phase, soc, socEvents, actx, actxReplies, nodes, outConnected,
                 transmitting, disable, tooFast, transmitKeyDown, qInp, qOut,
                 qBuf, pDelta, toServer, srvMode, srvEpoch, cliEpoch, errors,
                 presses, statsVars>>

\* The events a dying connection queues: close, possibly after error.
Ending == {<<"close">>, <<"error", "close">>}

\* The connection fails (server gone, network error, or the connection is
\* refused while connecting): data in flight is lost.
SocketFails ==
  /\ soc \in {"connecting", "open"}
  /\ soc' = "closed"
  /\ \E e \in Ending : socEvents' = socEvents \o e
  /\ toServer' = <<>> /\ toClient' = <<>>
  /\ srvMode' = "closed"
  /\ UNCHANGED <<phase, actx, actxReplies, nodes, outConnected, transmitting,
                 disable, tooFast, transmitKeyDown, qInp, qOut, qBuf, pDelta,
                 srvEpoch, cliEpoch, errors, presses, framesSent, statsVars>>

\* The closing handshake r.soc.close() started completes once the data
\* queued before it has been delivered.
SocketClosed ==
  /\ soc = "closing"
  /\ toServer = <<>> /\ toClient = <<>>
  /\ soc' = "closed"
  /\ \E e \in Ending : socEvents' = socEvents \o e
  /\ srvMode' = "closed"
  /\ UNCHANGED <<phase, actx, actxReplies, nodes, outConnected, transmitting,
                 disable, tooFast, transmitKeyDown, qInp, qOut, qBuf, pDelta,
                 toServer, toClient, srvEpoch, cliEpoch, errors, presses,
                 framesSent, statsVars>>

-----------------------------------------------------------------------------
Next ==
  \/ GotMicrophone \/ DidNotGetMicrophone
  \/ KeyDown \/ KeyUp \/ ClickTransmit \/ ClickReceive \/ SendParameters
  \/ SocketOpen \/ OnSocketEvent \/ BeforeUnload \/ ActxReply
  \/ ProcessAudioInput \/ ProcessAudioOutput \/ ResponseArrayBuffer
  \/ ServerReceives \/ ServerSends \/ SocketFails \/ SocketClosed

\* The browser runs every pending task and audio callback eventually; the
\* network delivers and completes a closing handshake.  The user, the
\* server's sending, connection failures and the microphone grant are not
\* obliged to happen.
Fairness ==
  /\ WF_vars(SocketOpen) /\ WF_vars(OnSocketEvent) /\ WF_vars(ActxReply)
  /\ WF_vars(ProcessAudioOutput) /\ WF_vars(ResponseArrayBuffer)
  /\ WF_vars(ServerReceives) /\ WF_vars(SocketClosed)

Spec == Init /\ [][Next]_vars /\ Fairness


-----------------------------------------------------------------------------
(* Properties.                                                             *)

Messages == {"transmit", "receive", "close", "set", "audio"}

TypeOK ==
  /\ phase \in {"acquiring", "denied", "running", "unloaded"}
  /\ soc \in {"none", "connecting", "open", "closing", "closed"}
  /\ socEvents \in Seq({"error", "close"})
  /\ actx \in {"none", "running", "closing", "null"}
  /\ actxReplies \in Seq({"suspendOK", "suspendRej", "closeOK", "closeRej"})
  /\ nodes \in {"none", "built", "released"}
  /\ {outConnected, transmitting, disable, tooFast, transmitKeyDown} \subseteq BOOLEAN
  /\ qOut \in 0 .. QueueCapacity /\ qInp \in qOut .. QueueCapacity
  /\ qBuf \in [RQ!Slots -> Epochs \cup {-1}]
  /\ pDelta \in Int
  /\ toServer \in Seq(Messages) /\ toClient \in Seq(Frames)
  /\ srvMode \in {"receive", "transmit", "closed"}
  /\ srvEpoch \in Epochs /\ cliEpoch \in Epochs
  /\ errors \subseteq {"TypeError", "InvalidStateError", "SyntaxError",
                       "RangeError"}
  /\ delayed \in {Undefined, 0, 1} /\ onTime \in {Undefined, 0, 1}
  /\ pct \in {Undefined, "number"}

\* The mode the server is in when it takes message i of toServer: set by
\* the last mode command before it, or its present mode.
ModeAt(i) ==
  LET cmds == {j \in 1 .. i - 1 : toServer[j] \in {"transmit", "receive", "close"}}
      last == CHOOSE j \in cmds : \A k \in cmds : k <= j
  IN  IF cmds = {} THEN srvMode
      ELSE CASE toServer[last] = "transmit" -> "transmit"
             [] toServer[last] = "receive"  -> "receive"
             [] OTHER                       -> "closed"

(* processAudioInput only sends microphone audio after transmit() has    *)
(* sent the transmit command: every audio frame reaches a server that is  *)
(* in transmit mode, whatever order the keys, the socket and the audio    *)
(* callbacks run in.                                                      *)
AudioOnlyWhileServerTransmits ==
  \A i \in DOMAIN toServer : toServer[i] = "audio" => ModeAt(i) = "transmit"

(* transmit() and receive() keep r.transmitting in step with the mode of  *)
(* the server: once the commands sent on an open socket have been taken, *)
(* the server transmits exactly when the page does.                       *)
ModesAgree ==
  (soc = "open" /\ toServer = <<>>) => ((srvMode = "transmit") <=> transmitting)

(* tearDown can run several times (error, close, beforeunload), each     *)
(* time calling r.context.suspend() while r.context is set.  The suspend  *)
(* callback dereferences r.context; because promise callbacks run in the  *)
(* order the promises settle, no suspend is fulfilled after the close     *)
(* callback has set r.context to null.                                    *)
SuspendSeesContext ==
  \A i \in DOMAIN actxReplies : actxReplies[i] = "suspendOK" => actx # "null"

(* After the connection is lost, serverDisconnected's tearDown and the    *)
(* suspend and close callbacks eventually release the AudioContext        *)
(* (r.context = null), unless the page is unloaded first.                 *)
ContextReleasedAfterDisconnect ==
  (soc = "closed" /\ phase = "running") ~> (actx = "null" \/ phase = "unloaded")

(* Audio that responseReceiveAudio queued is eventually played out by     *)
(* processAudioOutput, down to the last sample, unless the page starts    *)
(* transmitting (which discards it) or is torn down.                      *)
QueueDrains ==
  (RQ!queuedLength > 0) ~> (RQ!queuedLength = 0 \/ transmitting \/ disable
                             \/ phase = "unloaded")

(* The page refines the half-duplex mode machine of HalfDuplex: its mode *)
(* is r.transmitting, its queue the live region of r.receiveQueue.  Only *)
(* transmit() (or a failed send while nothing is queued) starts talking,  *)
(* and it empties the queue; responseReceiveAudio queues and             *)
(* processAudioOutput plays, in order, only while receiving.             *)
HD == INSTANCE HalfDuplex
        WITH Capacity <- QueueCapacity, Values <- Epochs,
             mode <- IF transmitting THEN "transmitting" ELSE "receiving",
             queue <- RQ!Region(qOut, RQ!queuedLength)

HalfDuplexSpec == HD!Spec

(* transmit() resets the receive queue so that audio received before the  *)
(* push-to-talk is not played after it: every queued sample was sent by   *)
(* the server after it obeyed the page's latest transmit command.          *)
NoStaleAudio ==
  \A k \in qOut .. qInp - 1 : qBuf[k] = cliEpoch

(* The output worker is connected only while receiving: transmit()      *)
(* disconnects it before anything in it can throw, and only receive()    *)
(* connects it, after clearing r.transmitting; so the silence branches   *)
(* of processAudioOutput for r.transmitting never run.                   *)
OutputOnlyWhileReceiving == outConnected => ~transmitting

(* Every r.delayedReceivePacketsPercentage that processAudioOutput       *)
(* computes is a number: go() leaves both counters undefined and          *)
(* undefined + 1 is NaN, and 0 / 0 is NaN, so the output worker must     *)
(* never run before a receive() has zeroed the counters, and the ratio   *)
(* must be taken only after a counter has been increased.  A NaN shows    *)
(* as a plain "Receiving." notice and never recovers.                     *)
DelayStatsAreNumbers ==
  [][ProcessAudioOutput => pct' # Undefined]_vars

(* No exception escapes a handler to window.onerror, which replaces the   *)
(* page with the Oops page.                                                *)
NoUncaughtError == errors = {}

=============================================================================
