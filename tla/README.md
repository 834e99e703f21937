# TLA+ models of the katena.js and panel.js radio clients

This directory has TLA+ models of the browser clients in
`src/linux-cortexm/local/usr/lib/radioserver/web_content/katena.js` and
`panel.js` (same directory), along with the TLC configurations that check
them. The client is a half-duplex,
push-to-talk audio client: it captures microphone audio, resamples it to the
network rate and sends it over a WebSocket. When not transmitting, it
receives audio frames, resamples them to the device rate, queues them and
plays them out.

## 1. The system

### Parts and how they interact

| Part | Code (katena.js) | State it keeps |
|---|---|---|
| FIFO (receive queue) | `FIFO`, lines 29-109, `copyWithin` 312-320 | `inp`, `out`, the ArrayBuffer |
| Resampler / length functions | `resample`, `resampleInnerLoop`, `resampledOutputLength`, `resamplingInputLength`, lines 545-605 | a context: `last`, `delta` (one per direction) |
| Session (window.radioclient) | `go`, `gotMicrophone`, `buildAudioGraph`, `buildSocket`, `gotSocket`, `transmit`, `receive`, `keyDown`, `keyUp`, `sendParameters`, `processAudioInput`, `processAudioOutput`, `response*` | `transmitting`, `disable`, `tooFast`, `transmitKeyDown`, `soc`, `context`, the audio nodes, the two resampling contexts, `receiveQueue` |
| Teardown | `tearDown`, `serverDisconnected`, `websocketError`, the suspend and close promise callbacks, lines 116-156 and 795-879 | `reentered`, `disable`, node and context references |
| Wire codec | `processAudioInput` (tag 1 + Int16), `responseArrayBuffer` (tag dispatch), JSON commands | none |
| UI | `notice`, `receivingNotice`, `errorHandler`, form handlers | DOM only |

Everything runs on the browser's event loop. Each of the following handlers
is one atomic step:
- the microphone grant;
- the socket's open, error and close events;
- the two ScriptProcessor callbacks;
- inbound messages;
- key and button events;
- beforeunload;
- the AudioContext promise callbacks.

The handlers interact only through `window.radioclient`. The network side
works like this:
- The WebSocket is a reliable FIFO channel in each direction until it fails.
- The radio server is not in this repository. It obeys the `transmit`,
  `receive` and `close` commands in order, and it sends audio frames while in
  receive mode.

`panel.js` is an older client for the same server, with the same handler
structure. It differs in these ways:
- a point-sampling resampler (`pointSample`);
- a plain Array as receive queue, appended by `responseArrayBuffer` in every
  mode and never consumed by `processAudioOutput`;
- untagged frames;
- `transmit()`/`receive()` that disconnect and connect nodes without
  `ignoreErrors`;
- `keyUp` uses an undeclared `r`;
- `onclose` sets `r.soc = 0` before `tearDown`, and `onerror` does not tear
  down.

`validate.js` renders `window.client_info` as HTML and keeps no state.

### Hard behaviours

These are the behaviours that are hard to test (PROJECT.json lists them as
`hazards`):
- frames in flight when the user presses push-to-talk;
- key events before the socket is open or after teardown;
- tearDown running several times, with promise callbacks settling in between;
- the FIFO's compaction at the end boundary;
- the resampler's carried phase across calls;
- an unknown or empty frame;
- the receive queue full.

## 2. Modules

| Module | Models | Code |
|---|---|---|
| `FIFO` | the receive queue: `Init` (constructor), `Get`, `Put` (put + reorder + copyWithin, followed by the caller filling the view), `Reset`, `queuedLength`, `writableLength`; `CopyLoop`, the fallback `copyWithin` loop | 29-109, 311-320 |
| `QueueSpec` | abstract bounded queue: `Enqueue`, `Dequeue`, `Clear` | spec 4.1 |
| `MCFIFO` | FIFO driven by its callers (responseReceiveAudio writes, processAudioOutput reads, transmit resets), and the refinement mapping to `QueueSpec` (the abstract queue is `Region(out, queuedLength)`) | |
| `Resampler` | the resampler as pure operators | 545-605 |
| `ResamplerStream` | one context threaded through successive calls, each sized by `resampledOutputLength` (as `responseReceiveAudio` and `processAudioInput` do); `hist`/`outs` record all input and output | 738-765 |
| `Session` | the whole client with the server and network as environment; the receive queue is an `INSTANCE` of `FIFO`, and the playback phase uses `Resampler` | the handlers above |
| `HalfDuplex` | abstract push-to-talk mode machine: `StartTalk` (empties the queue), `EndTalk`, `Arrive`, `Play`, the last two only while receiving | spec 4.3 |
| `PanelSession` | the whole panel.js client against the same environment; `pointSample` as operators | panel.js 37-633 |

### Resampler arithmetic

With integer rates, every quantity the resampler computes is a rational with
denominator `U = 2 * outRate`, so the model keeps exact integer numerators:
- `delta = D / U`;
- the sampling point of output `i` is `PointU(i, D) / U`;
- an interpolated sample is kept multiplied by `U`.

Other details:
- `\div` is floor division, and `JSMod` reproduces JavaScript's `%`.
- Floating-point rounding and the `scale` factor are not modelled.
- A read past the end of a typed array, and the NaN it produces, is the model
  value `Undefined`.
- The rates 8192 and 48000 are used in lowest terms (64:375) so that TLC's
  32-bit integers do not overflow.

### Session state and actions

`Session`'s variables correspond to the code's fields:

| Variable | Code field |
|---|---|
| `transmitting` | `r.transmitting` |
| `disable` | `r.disable` |
| `tooFast` | `r.tooFast` |
| `transmitKeyDown` | `r.transmitKeyDown` |
| `soc` | `r.soc.readyState` |
| `actx` | `r.context` |
| `nodes` | `r.inp.*` / `r.out.worker` |
| `qInp`, `qOut`, `qBuf` | `r.receiveQueue` |
| `pDelta` | `r.outputResamplingContext.delta` |
| `delayed`, `onTime` | `r.delayedReceivePackets`, `r.onTimeReceivePackets`: undefined, 0, or 1 for "one or more" |
| `pct` | `r.delayedReceivePacketsPercentage`: undefined/NaN, or a number |

Some variables are added for the model:
- `socEvents` holds the socket events that are queued.
- `actxReplies` holds the settled AudioContext promises, in order.
- `toServer` / `toClient` are the two directions of the socket.
- `srvMode` / `srvEpoch` are the server's state.
- `errors` holds the exceptions that escaped a handler to `window.onerror`.

Each sample in the queue carries the server's transmit count (`srvEpoch`) at
the time the frame was sent. `cliEpoch` counts the queue resets done by
`transmit()`. Together they let a property tell stale audio apart.

Each handler is one action, and it includes every call it makes:
- `KeyDown`, `KeyUp`, `ClickTransmit` and `ClickReceive` call `Transmit` or
  `Receive`.
- `SocketOpen` is gotSocket followed by receive().
- `OnSocketEvent` is serverDisconnected followed by tearDown.
- `ActxReply` covers the suspend and close callbacks.
- `ResponseArrayBuffer` dispatches to `ResponseReceiveAudio`.
- `ProcessAudioOutput` counts the block as delayed or on time, plays out
  (`PlayOut`), and recomputes the percentage (`Percentage`). go() never sets
  the counters; only receive() (`ResetStats`) zeroes them, so the model
  starts them as `Undefined`, and `undefined + 1` stays NaN (`Counted`).
  The code's branches for `r.transmitting` inside processAudioOutput are
  dead: `OutputOnlyWhileReceiving` shows that the output worker is never
  connected while transmitting, so the action has `~transmitting` as a
  guard.

A handler that throws stops at the throw. It records the error, and the
statements that ran before the throw keep their effect. For example,
`transmit()` sets `r.transmitting` before `r.soc.send` throws.

### Half-duplex refinement

`Session` defines `HD == INSTANCE HalfDuplex WITH mode <- ...,
queue <- RQ!Region(qOut, RQ!queuedLength)`. The mode is `r.transmitting`, and
the queue is the live region of the ring buffer. The property `HalfDuplexSpec`
(`HD!Spec`) is checked in `SessionAnyOrder.cfg`. It covers:
- a `transmit()` whose send throws: it sets `r.transmitting` without
  resetting the queue, and it refines `StartTalk` only because nothing can be
  queued before the socket opens;
- every compaction of the ring buffer, which must leave the abstract queue
  unchanged.

`PanelSession` defines the same instance, with the queue being
`r.receiveQueue` itself. The capacity is `MaxFrames` times the longest frame,
because the code's queue is unbounded. `PanelHalfDuplex.cfg` shows that
panel.js does not refine the contract: `responseArrayBuffer` has no mode
guard, so a frame in flight when `transmit()` empties the queue is appended
while the page transmits.

### PanelSession

The variables are those of `Session`, with these differences:
- `queue` is `r.receiveQueue` as a sequence of sample epochs.
- `srcLevel`, `inDest` and `outDest` are the three connections that
  `transmit()`/`receive()` toggle.
- `pOffset` is the playback context's offset.
- `outBlock` is the last block played (`Silence`, an epoch, or `Undefined`
  for NaN).
- `bodyReplaced` records that `serverDisconnected` ran.
- `soc` has the extra value `"zero"` for `r.soc = 0`.

`transmit()` and `receive()` are lists of statements that may throw:
- `TransmitFaults` and `ReceiveFaults` give the exception each statement
  throws, or `"none"`.
- A statement's effect applies only if it is `Completed` (no statement before
  it threw), and `Thrown` is the exception that escaped.
- `AudioNode.disconnect(dest)` throws `InvalidAccessError` for a connection
  that does not exist when the constant `SelectiveDisconnect` is TRUE (current
  browsers). Older browsers disconnected everything.

`ActxReply` has only the fulfilled callbacks. The invariant
`SingleTeardownWhileRunning` shows that no rejection and no null
`r.context` is met while the page lives. `ProcessAudioInput` has only the
non-throwing sends, because `CaptureNeverThrows` shows its throwing send is
unreachable.

## 3. Runs

| Run (cfg) | Checks | Result |
|---|---|---|
| `MCFIFO.cfg` | TypeOK; PutWithinWritableSucceeds; FallbackCompactsAlike (the `copyWithin` fallback loop, `CopyLoop`, against the native copy, `Compacted`); refinement of QueueSpec | pass, 3377 states |
| `ResamplerPlayback.cfg` | TypeOK; LengthContinuity; NoUndefinedSample at 64:375, blocks of 1-3 samples, up to 7 input samples | pass, 495 states |
| `ResamplerPlaybackValues.cfg` | OutputContinuity | violation: split calls differ from one call |
| `ResamplerCapture.cfg` | LengthContinuity at 375:64 | violation: three 8-sample blocks give 5 samples, one call 4 |
| `Session.cfg` | TypeOK; NoUncaughtError, with keys pressed only on an open socket and audio frames only | pass, 69949 states |
| `SessionAnyOrder.cfg` | AudioOnlyWhileServerTransmits; ModesAgree; SuspendSeesContext; OutputOnlyWhileReceiving; ContextReleasedAfterDisconnect; QueueDrains; HalfDuplexSpec; DelayStatsAreNumbers, with keys pressed in every socket state and frames of every tag | pass, 474564 states, about 2.5 min |
| `SessionStaleAudio.cfg` | NoStaleAudio | violation: a frame sent before the server took `transmit` is queued after `receive` |
| `SessionUncaught.cfg` | NoUncaughtError, with keys in every socket state and frames of every tag and length | violation: transmit() throws before the socket is open |
| `PanelSession.cfg` | TypeOK; AudioOnlyWhileServerTransmits; GraphFollowsMode; CaptureNeverThrows; SingleTeardownWhileRunning; ContextReleasedAfterDisconnect, with legacy `disconnect` | pass, 49553 states |
| `PanelKeyUp.cfg` | SpaceReleaseReceives | violation: keyUp throws ReferenceError, and the page stays transmitting |
| `PanelHalfDuplex.cfg` | HalfDuplexSpec for panel.js, keys on an open socket | violation: a frame the server sent before taking `transmit` is queued while the page transmits |
| `PanelSelectiveDisconnect.cfg` | GraphFollowsMode with selective `disconnect` | violation: gotSocket's receive() throws before connecting the playback worker |

The violations are real defects of the code (see `findings` in PROJECT.json):
- the resampler's prefix bound and its phase carry;
- panel.js's receive queue, which takes audio while transmitting;
- stale audio after push-to-talk;
- an uncaught exception that replaces the page with the error page;
- panel.js's push-to-talk, which never releases;
- panel.js's playback, which never starts in current browsers.

`SessionUncaught.cfg` reports the shortest counterexample. Three more
exceptions are reached by the same property under narrower constants, which
the hazards list records:
- keys after teardown (`UserActiveIn = {"closed"}`);
- a tag-0 frame (`FrameTags = {0, 1, 2}` with keys on an open socket only);
- an empty frame (`FrameLens = {0}`).

Further panel.js defects are modelled, but no run is spent on them:
- the receive queue is never consumed;
- every played sample is NaN, because the contexts have no `scale`.

Both are visible in a single statement of `processAudioOutput` /
`pointSample`, so a run would add nothing that reading the code does not
show.

`resamplingInputLength` is translated (`ResamplingInputLength`), but no
function of katena.js calls it, so no run checks it. Spec 4.2 calls it the
exact inverse of `resampledOutputLength`. For the playback ratio it is not:
resamplingInputLength(resampledOutputLength(L)) is L - 1, not L (worked by
hand for L = 1 .. 7).

Each property of a passing run has a mutant in PROJECT.json: a plausible bug
in the mapped code (a dropped guard, an off-by-one, a missing reset, a
reordering) that TLC finds violates the property. For `PanelSession` the
mutants include `onerror` tearing down as katena.js does, which breaks
`SingleTeardownWhileRunning`.

### Bounds

- **FIFO:** capacity 4 with two values. This is enough for a put to reach
  the end boundary with `out > 0` (compaction), for a put that exactly fills
  the buffer, and for reads that drain it (reset).
- **Session:** the queue holds 4 samples and is played out in blocks of 2. The
  rates are 1:2, so a frame of 1 or 2 samples becomes 1 to 4 samples. This
  fills the queue (the `tooFast` path) and leaves partial blocks.
- **Session, other bounds:**
  - two user events, enough for a press and a release or two presses;
  - three frames from the server;
  - at most two frames in flight per direction.

  With these bounds a frame is in flight across a transmit/receive pair, and
  teardown can run several times (error, close, beforeunload) with promise
  callbacks pending.
- **PanelSession:** the same rates, block size, frames and user events as
  `Session`. The queue is unbounded in the code and is bounded here by the
  three frames.
- **Deadlock:** the Session and PanelSession cfgs set `CHECK_DEADLOCK FALSE`. A page that has
  used up its user events and frames waits idle for events, which is a real
  state of the program.

### Fairness

These actions are weakly fair:
- `SocketOpen`, `OnSocketEvent`, `ActxReply` and `ResponseArrayBuffer`: the
  browser eventually runs a queued task or promise callback.
- `ProcessAudioOutput`: the audio thread calls onaudioprocess periodically
  while the node is connected and the context runs.
- `ServerReceives` and `SocketClosed`: the network delivers, and a closing
  handshake completes once data in flight is delivered.

`PanelSession` assumes the same fairness.

These have no fairness, because none of them is obliged to happen:
- the user's actions;
- the server's sending;
- connection failure;
- the microphone grant.

## 4. Not modelled, and what is left

- **`validate.js`, notices, the error page and the form handlers:** these are
  DOM only.
- **Delay statistics in panel.js, and the value of katena's percentage:**
  they only feed a notice. katena's counters are modelled only as far as
  telling a number from NaN (`DelayStatsAreNumbers`).
- **Floating point, `scale`, and the Int16 conversion (katena.js):** not
  modelled. Microphone samples lie in [-1, 1] and linear interpolation stays
  within its inputs, so samples scaled by 4096 never reach the Int16 range
  limit. In panel.js the missing `scale` is modelled,
  because it makes every sample NaN.
- **The capture direction inside `Session` and `PanelSession`:**
  `processAudioInput` sends an abstract audio frame. katena's capture
  resampling is checked separately in `ResamplerStream`
  (`ResamplerCapture.cfg`).
- **Text frames from the server:** `responseString` on a string only updates
  the DOM.
- **panel.js, other details:**
  - `window.stop()` is taken to leave the socket alone.
  - The visibility of the controls before `gotSocket` is not modelled: clicks
    need only a body that has not been replaced.
  - No global `r` exists for `keyUp` to find.
  - Key presses before the microphone is granted (panel.js 230-231 register
    the listeners first) are not offered: such a press throws at the send on
    line 554 after setting `r.transmitting`, the same state a press while
    connecting reaches, so `UserEvent` requires the running phase.
- **Throws of the DOM lines after the body is replaced:** the lines that set
  element ids (katena.js 702 and 819, panel.js 441 and 561) throw once the
  body has been replaced. Only the `errors` set would differ.
- **An audioprocess task already queued when `transmit()` disconnects the
  output (katena.js):** such a task can still run with no block counted and
  compute 0/0 at line 675. The model lets the disconnect take effect at once.

Planned next: text frames (`responseString`) and the form values they set,
which `sendParameters` then sends.
