# Verification of the D455 LiSLAM node and the ROS-MQTT bridge

TLA+ models, TLC checks and TLAPS proofs for two programs of this workspace:

- the `li_slam` ROS 2 package (`src/ros2_ws/src/li_slam/li_slam`), an RGB-D + IMU
  feature-tracking frontend and a nonlinear SLAM observer;
- the ROS-MQTT bridge of the camera driver
  (`src/ros2_ws/src/realsense-ros/realsense2_ros_mqtt_bridge`), through which MQTT
  clients configure cameras, take frames and run calibrations, with its example
  client.

Paths below are relative to the first directory for the node and to the second
for the bridge, unless they start with `src/`.

## 1. The system

### The node

A RealSense D455 publishes colour, aligned depth, camera info, gyro and accel
topics. One ROS node, `D455Interface`, subscribes to all five. It is spun by a
single-threaded executor (`rclpy.spin`, `d455_interface_node.py:401`), so
callbacks never overlap, but the executor picks them in any order across topics:
delivery order between an image and the IMU samples stamped before it is not
fixed, and the two IMU topics are `BEST_EFFORT` with a queue of ten, so samples
may be lost. Everything the node does is driven by its colour-image callback.

| part | file | state | operations |
|---|---|---|---|
| node and callbacks | `d455_interface_node.py` | previous image, tracked points and ids, previous image stamp, latest depth, intrinsics | five callbacks, `destroy_node`, `main` |
| IMU window buffer | `imu_buffer.py` | one deque per stream | `add_gyro`, `add_accel`, `extract_window`, `clear` |
| landmark manager | `landmark_manager.py` | dictionary id -> landmark, next id | `create`, `mark_tracked`, `mark_lost`, `integrate_new_detections`, `update_depth`, `prune_stale`, `get_active_landmarks` |
| frame measurement | `frame_measurement.py` | none (message built per image) | constructors |
| observer | `observer/observer.py` | pose state, landmark map, last frame stamp, last accel, diagnostics lists | `process`, `save_diagnostics` |
| propagator | `observer/propagator.py` | initialised flag, two warm-up buffers | `propagate`, `_build_timeline`, `initialize_from_stationary` |
| observer state | `observer/observer_state.py` | R, v, p, map | constructor |
| SO(3) helpers | `observer/math_utils.py` | none | `skew`, `vee`, `so3_exp`, `so3_log`, `project_to_so3`, `rotation_from_two_vectors` |
| diagnostics plots | `observer/observer_diagnostics.py` | none | plotting |
| CSV logger | `mydata_logger.py` | six open files, frame counter | one `log_*` per row kind, `close` |

Vendored next to the package: the RealSense camera driver
(`src/ros2_ws/src/realsense-ros`, C++), its RViz plugin, its robot description, and
the bridge. `li_slam` meets the driver only as the publisher of its five topics
and does not start the bridge; the two programs share the camera and nothing else.

1. `_gyro_callback` and `_accel_callback` append to the IMU buffer and log.
   `_depth_callback` stores the latest depth image and logs it;
   `_camera_info_callback` keeps the first intrinsics.
2. `_rgb_callback` either bootstraps the tracking (no `_prev_gray` yet) and
   returns, or: optical flow (`_propagate`), redetection below
   `MIN_TRACKED_FEATURES` (`_redetect_and_integrate`), `update_depth` if depth
   and intrinsics are there, `prune_stale`, `extract_window(_prev_image_time, t)`,
   a `FrameMeasurement` of the active landmarks, `Observer.process`,
   `log_landmarks`, `log_frame_summary`, visualisation.
3. `Observer.process` propagates the pose over the IMU window, adds unknown
   landmarks to its map, computes residuals, corrects pose and map over the time
   since its own previous frame, and appends to a dozen diagnostics lists.
4. An exception in any callback (`KeyboardInterrupt` included) leaves
   `rclpy.spin`; the `finally` of `main` calls `destroy_node`, which closes the
   tables, saves and plots the diagnostics, and releases the ROS resources.

### The bridge

One process with two threads. paho's network thread calls `on_mqtt_message` for
one MQTT request after another and runs the request's handler to its end; the
main thread spins the ROS executor (`src/entry_point.py`), which runs the response
of service calls, image callbacks and action callbacks one at a time. No lock
orders the two.

| part | file | state | operations |
|---|---|---|---|
| node and dispatch | `src/mqtt_bridge_node.py`, `src/entry_point.py` | MQTT client, subscriptions | `on_mqtt_connect`, `on_mqtt_message` (a field check and one branch per topic) |
| service handlers | `src/service_handler.py`, `src/parameter_handler.py` and eight more | none beyond the call under way | create a client, wait for the service, call, poll the future, reply |
| frames | `src/frame_handler.py` | `topic_handle`: a subscription per camera and stream | `get_frame`, image callback |
| calibration | `src/triggered_calibration_handler.py` | an action client and a goal handle per camera | run, abort, goal response, feedback, result |
| example client | `examples/minimal_mqtt_client.py` | `locked`, `tc_done` | one method per request, `on_message`, a main program of 27 requests |

1. A request is published by a client with quality of service 0 and delivered to
   the bridge if it is connected. A payload that is not JSON raises; a missing
   field is answered with `success: false`.
2. A service handler blocks paho's thread: up to five seconds for the service to
   appear, then without a timeout for the answer, which the executor stores in the
   future (`service_handler.py:62`). So one call is under way at a time.
3. `get_frame` creates a subscription in paho's thread and stores it afterwards
   (`frame_handler.py:97-108`); the image callback destroys it, clears the entry
   and publishes, in the executor.
4. A calibration run creates an action client, puts it in the camera's slot and
   sends the goal, in paho's thread; the executor stores the goal handle, passes
   feedback on, and on the result publishes, destroys the client *the slot then
   holds* and clears both slots (`triggered_calibration_handler.py:90-100`).
5. An exception of a handler ends paho's thread: the process lives on and takes no
   more requests. An exception of a ROS callback leaves `rclpy.spin` and ends the
   process.
6. The client's main program sets `locked` before a request and spins until its
   network thread has received a message, whichever it is; the last request it
   waits for through `tc_done`, set by progress 100.

### What is hard here, and what makes each part correct

| part | hard behaviour | correctness |
|---|---|---|
| IMU buffer | samples and images interleave freely; image stamps may repeat or step back; the extracted window stays in the deque until the next extraction; a safety trim on every append | each sample handed out at most once and in order; none skipped that came in time; trimmed only during a stall |
| re-identification | one nearest match per keypoint, several keypoints may match the same dormant landmark | distinct ids per pass; a dormant landmark within both gates is missed only when a nearer match hides it or another keypoint took it |
| landmark manager and tracking loop | two copies of "what is tracked", updated in different functions; depth and camera info at any time; losses, returns, pruning by wall clock | the two copies agree; only fresh, old enough, tracked landmarks are reported; ids are never reused |
| propagator | windows without samples of one sensor; two rates, equal stamps; windows that reach over time integrated before; warm-up spread over windows | the merge is causal; no instant integrated twice; nothing integrated before the estimate; the estimate is made in the end |
| observer | warm-up frames that count for `dt`; stamps that do not advance; stiffness of the correction | time corrected over at most once, and only aligned time, but for stamps that step back; sub-steps within the stability margin |
| node, logger, shutdown | an exception between any two steps; state shared by callbacks; several copies of the previous stamp; lists and tables appended to at different steps | tables join; IMU windows and correction intervals coincide; whatever happens, tables and diagnostics are saved |
| bridge: service calls | asynchronous calls polled without a timeout; a camera that goes away during one; values that do not convert; requests lost while disconnected | calls in order, each once; success only after the camera served it; a parameter set with success has the value meant, or its whole part; every request settled unless dropped where the code drops it or left waiting for a camera that is gone |
| bridge: frames | subscription and its entry written by two threads without a lock | entry and subscription agree at every point between two steps |
| bridge: calibration | two runs at once, an abort during the clean-up, feedback after the result, a rejected goal, a server that is away | without overlap, a run has its own client and handle, and only what rejected and lost goals left remains; nothing after the final reply |
| example client | any message unlocks it; no timeouts | at most one request ahead of its replies; the calibration starts after its set-up; it ends unless something was dropped or is stuck |

`PROJECT.json` lists the hazards one by one with their lines.

## 2. Modules

| module | models | extends / instantiates |
|---|---|---|
| `SampleDelivery` | abstract: at-most-once, in-order delivery of a stream with losses | |
| `IMUBuffer` | `imu_buffer.py` and the image stamps the node feeds it | `SampleDelivery` (refinement mapping `Delivery`) |
| `Reidentification` | loop-free: which id each keypoint of a pass gets | |
| `ReidentificationLoop` | the matcher's gates and the claim loop, step by step | `Reidentification` |
| `LandmarkManager` | the landmark dictionary and the tracking loop of the node | `Reidentification` |
| `Propagator` | warm-up and early returns of `propagate` | |
| `Propagation` | the merge loop of `_build_timeline` and the integration of its events, across images | |
| `CorrectionSubsteps` | the arithmetic of the number of sub-steps | |
| `Observer` | `Observer.process`, frame after frame | `CorrectionSubsteps`, `Propagator` (as `Prop`) |
| `DataLogger` | frame counter and per-frame tables | |
| `D455Interface` | all callbacks and the shutdown, one action per step | `DataLogger` |
| `BridgeRequests` | what a request must have, the conversion of values | |
| `BridgeThreads` | the two threads, the connection, replies | `BridgeRequests` |
| `ServiceCalls` | the handlers that call a ROS service, and the camera's answer | `BridgeThreads` |
| `FrameHandler` | `get_frame` and the image callback | `BridgeThreads` |
| `TriggeredCalibration` | run, abort and the action callbacks | `BridgeThreads` |
| `MqttBridge` | dispatch, faults, and the composition of the three handlers | the three above |
| `DemoClient` | the example client | `MqttBridge` |
| `MC*` | instances of the above for TLC | |
| `IMUBufferProofs`, `LandmarkManagerProofs`, `ReidentificationLoopProofs`, `PropagatorProofs`, `PropagationProofs`, `ObserverProofs`, `D455InterfaceProofs`, `MqttBridgeProofs` | theorems and their proofs | the module each is named for (`MqttBridgeProofs`: `DemoClient`, and with it the bridge), `TLAPS` |

**Composition.** `Observer` composes with the propagator by instantiating it: each
`Process` step is a `Propagate` step of the propagator, and the map depends on
the `initialized'` it leaves. `IMUBuffer` and `LandmarkManager` each contain the
part of the node that drives them. `D455Interface` is the whole node with the
data of the other modules abstracted: what remains is the order in which the
steps of the callbacks change shared state, and what an exception between two of
them leaves behind. The tracking step of `D455Interface` is `LandmarkManager`'s
`Frame`; its `Extract` is `IMUBuffer`'s `ExtractWindow`; its `Observe` to
`DiagPose` are `Observer`'s `Process`.

### IMUBuffer

A deque is the suffix `log[s][head[s] ..]` of everything ever appended, so a
sample keeps its name after it has left. `Add` is `add_gyro`/`add_accel` with the
trim it always performs; `Bootstrap` and `ExtractWindow` are the two ways the
image callback treats `_prev_image_time`; `Clear` is `clear`. `fate`, `late` and
`bootTime` are history variables. Samples of one topic arrive in stamp order
(the buffer's own comments rely on it, since it bisects); image stamps come in
any order. Lost samples are samples that are never appended.

### LandmarkManager

A pixel is a region of the image; `Near` says which regions are within
`REID_SEARCH_RADIUS`. `Frame` is the whole image callback: the answer of optical
flow is any subset of the tracks moved to any pixels, the detector's answer any
keypoints outside the mask around the surviving tracks, the matcher's answer any
dormant landmark within the gates. What the code does with the answers
(`Propagated`, `Integrated`, `Stamped`, `Pruned`, `ActiveLandmarks`) is a
function of them. `age` counts up to `MinAge`, `idle` up to one tick past the
timeout: the code compares with nothing beyond. `FrameWithoutTracks` is the
image after every track was lost. `latest` says of a landmark's position whether
the depth image it was computed from is the last one that arrived; how old that
image is, the code does not bound (`d455_interface_node.py:213` takes the last
one for ever), and neither does the model.

### Propagation and Propagator

`Propagation` runs the merge loop sample by sample and then integrates; time is a
sequence of instants and `integrated` records for each instant integrated the
two samples that were held. The node passes on whatever stamp an image carries
(`d455_interface_node.py:222-223`), so `Begin` takes any stamp, and after one that
steps back the next window starts there. What a window may contain is what
`IMUBuffer` hands over: of each sensor nothing older than it has handed over
before, but, after a step back, samples that came too late for their own window,
of time that is integrated already. `heard` keeps for every sample which image it
was handed over for and where that window started. `Propagator` counts samples only.

### Observer

A landmark of the model stands for a group of `GroupSize` landmarks seen
together, which reaches the hundreds of landmarks at which the sub-step cap
matters with two model values. `corrections` is a history variable: for every
correction its frame, interval, stiffness and sub-steps. Times are whole stamps,
`Rate` to the second, and the gains naturals (4 and 1 in the code; the margin is
0.2, so its inverse is 5), which makes each comparison of the code exact.

### D455Interface and DataLogger

One action per step of a callback, `pc` naming the next one. `Raise` may happen
before every step and between callbacks; it models `KeyboardInterrupt` as well as
exceptions of OpenCV or numpy. The diagnostics lists are appended to in three
steps, because their relative lengths decide whether `plot_diagnostics` can plot
them: `t`, the lists from `dt` to `dP_mean`, and `x`.

### The bridge's modules

A request is its place in `asked`; subscriptions, action clients, goal handles and
goals are named by the request that made them. `inbox` is what paho has yet to
hand over. A thread is where it is in a handler and for which request: a handler
is one action, split exactly where the other thread can see it half done
(`waiting` on a future, `storing` the subscription, `sending` the goal; in the
executor `resetting`, `publishing`, `destroying`, `clearing`). `mqtt.at = "dead"`
is paho's thread ended by an exception, `executor.at = "exited"` the process ended
by one. Each of the thirteen service handlers is an action of `ServiceCalls` that
says which of its values make filling the ROS request raise; they share
`CallService` as the code shares `create_ros_client` and `wait_for_future`.
A number is its whole part and its tenths (`Numeral`): `int()` cuts a JSON number
to its whole part and raises for the text of one with a fraction, `float()` takes
both, and an integer field of a ROS request takes neither a text nor a fraction
(`FloatTakes`, `IntTakes`, `FieldTakes`). Numbers are finite and within the range
of the field they are meant for.
`unanswered` records where the code drops a request, `overlapped` the cameras on
which a run was started before the previous one was cleaned up, `served` what the
camera did.

`Disconnect` and `CameraDown` are the faults, `MaxFaults` of them. paho reconnects by
itself; a camera may come back (`CameraUp`) and need not. Feedback reports rising
progress, which is a bound: the code passes on any.
`DemoClient` replaces the arbitrary client `Ask` by the example program: its
`Publish` step is an `Ask` whose request is the next of the script.

A few consequences of the code that the model keeps and that need no run:

- An abort gets no reply of its own; the run's result says it. A rejected goal gets
  no reply at all.
- A parameter type outside `parameter_type_map`, such as `double`, is logged and
  dropped; a `get_param` of an undeclared parameter ends paho's thread.
- Progress 100 in a feedback message sets the client's `tc_done` before the result
  is there.
- The key of the action client dict is `f"{namespace}_{name}"`, so two cameras may
  share a slot. The model has a slot per camera: clients of such pairs are outside
  it.

## 3. Runs

All bounds are CONSTANTS marked "bound:" in the modules.

| run | question | bounds and why they suffice |
|---|---|---|
| `imu_delivery` | what can become of a sample, and does the buffer implement `SampleDelivery` | one stream of three samples, five stamps, `MaxBuffer` 2: samples before, inside and after each window, late samples, a trim with and without a stall, images that repeat or step back; unboundedly many images. The two streams run the same code and share only the image stamps, which are arbitrary. Theorems lift everything, the refinement included, to any bound and number of streams |
| `reidentification_loop` | claim loop against its loop-free definition; which dormant landmarks it misses | three keypoints and two candidates make every collision of claims happen, and a nearer descriptor out of reach hide the right one; all distances on a scale with one value inside, one at and one beyond the threshold; theorems lift it to any number of either |
| `landmark_lifecycle` | track list, dictionary and reports | two visible regions, and one outside near both, `MinAge` 2, timeout 1 tick, two ids, two detections per pass: loss, return within and outside the radius, pruning, a competing claim, a depth image without depth at the point all happen. Theorems lift every property to any bound |
| `landmark_blind` (violated) | does losing all features end the node | as above, one detection |
| `imu_integration` | merge loop against its loop-free definition; what is integrated, across images | stamps 0 to 4, three images with any of them, repeated and stepped back ones included, up to three samples of each sensor per window, equal stamps included: a window reaches back over time integrated already, with late samples of one sensor. Theorems lift everything to any stamps and windows |
| `imu_integration_gaps` (violated) | is time integrated without gaps | stamps 0 to 4, two images, two samples of each sensor |
| `propagator_warmup` | warm-up, with liveness | 12 samples instead of 100, at most three per window: the collections fill at different windows; theorems lift the safety property to any number of samples |
| `observer_frames` | which time is corrected over and how finely | four frames with any of four stamps in any order, two groups of 145 landmarks, ten stamps per second, gains, margin and cap of the code |
| `node_callbacks` | every interleaving of callbacks, every exception | four colour and three depth images; theorems lift it to any number |
| `mqtt_bridge` | what becomes of a request, for every interleaving of the two threads and one fault | three requests: the first of every kind of handler, failing ones and sets of whole and fractional numbers included, the others runs, aborts, frames and a set, on one camera. Two runs overlap, a run follows a rejected goal, an abort comes during the clean-up, a frame is asked for twice, the camera goes away before or during a call, a run or a frame, for good or not, the connection breaks with requests unread. Theorems lift every safety property to any requests, cameras and faults |
| `set_param_types` (violated) | is a parameter of a documented type set as asked | two set requests |
| `demo_client` | the example program against the bridge | its whole script of 27 requests, one fault, feedback of 50 and 100; theorems lift the safety properties to any faults, feedback, camera and order of the threads |

A passing run with `CHECK_DEADLOCK FALSE` stops at its bound on images, frames,
keypoints or requests, or, for the bridge, where a thread has ended. The others
never stop: `Propagator` because windows keep coming, `IMUBuffer` and
`LandmarkManager` because images and time do, `D455Interface` because the process
that has exited stays exited.

What the passing runs show beyond their properties' own comments:

- The buffer may keep a window's samples after handing them out without ever
  handing one out twice, because every extraction starts by dropping what is at
  or before the *node's* previous stamp; a stamp that steps back yields an empty
  window, not a repeated one.
- `EndsSaved` says precisely when shutdown stops short: an exception between the
  first and the last append of a frame's diagnostics makes `plot_diagnostics`
  raise inside `destroy_node`, so `super().destroy_node()` and `rclpy.shutdown()`
  do not run. Tables and diagnostics are on disk even then. Images before the
  first tracked one leave no row in `frame_summary.csv`, although the logger's
  header promises one row per RGB frame: hence `TablesJoin` ties the tables to
  the *processed* images.
- `CorrectedOnce` and `CorrectsAlignedTime` hold with an exception they name: a
  stamp that goes back skips its own correction but becomes the reference of the
  next one, which may then cover time corrected over already, or time before the
  image that aligned the pose.
- `HeldSamplesAreLatest` too: after a stamp that steps back, a sample that came too
  late for its own window is handed over with a later one, after its time was
  integrated with an older sample. `IntegratedOnce` needs no exception: only
  late samples of one sensor can lie in time integrated already, and events begin
  once both sensors have spoken.
- `ReportsAreFresh` says that a reported position comes from the last depth image
  that arrived; when depth images stall, that one is used for ever.
- `SetsTakeEffect` names the one success whose value is not the one sent: of a JSON
  number such as 2.7, for an integer, `int()` leaves 2, and the client hears of it
  as a success (`parameter_handler.py:150`).
- `FrameSlots` says what the missing lock comes to: entry and subscription differ
  only inside the step of one thread. An image that arrives between the creation
  of a topic's first subscription and its entry in the dict ends the process with
  a `KeyError` (`Stuck` in `RequestsSettle`); on later ones it is ignored, and the
  next image is taken.
- `CalibrationSlots` and `NothingAfterFinal` hold as long as runs of a camera do
  not overlap, and nothing in the code prevents an overlap: then the first result
  destroys the second run's client, whose result never comes, and the first
  client's late feedback may follow its final reply.
- Even without overlap the slots do not belong to one run: a rejected goal returns
  before the clean-up (`triggered_calibration_handler.py:59-61`), and a goal lost
  with its camera never reaches it. Its client and handle stay in the slots; the
  next run puts its own client there and meets the old handle until its goal is
  accepted, and the old client is never destroyed. `CalibrationSlots` says that
  this is all that is ever left over.
- `RequestsSettle` lists all the ways the bridge can stay silent: a request dropped
  at a place that `unanswered` names, a thread ended by an exception, a call or a
  goal taken down with the camera, a calibration whose `wait_for_server` has no
  timeout and blocks paho's thread while the camera is away
  (`triggered_calibration_handler.py:52`), a frame awaited from such a camera, a
  client destroyed by an overlapping run. `ClientFinishes` meets the same ones.
- In `demo_client` the program does run ahead of the bridge by one request, because
  `enumerate_devices` does not lock and its reply unlocks the next; the calibration
  is nevertheless in order, because paho's thread takes requests one by one.

### Disagreements found (runs expected to be violated)

| run | the documentation says | the code does |
|---|---|---|
| `landmark_blind` | `src/README.md:91`: automatic re-detection when tracking degrades | with no point left and nothing redetected in that image, the next image raises and the node ends |
| `imu_integration_gaps` | `propagator.py:33`: propagates "forward in time using the IMU samples from the frame measurement" | held samples are forgotten between windows; the time between two windows is never integrated |
| `set_param_types` | the bridge's `README.md` lists `boolean` as the type of every switch (`README.md:599` and after) | `boolean` maps to the type `bool`, but only the branch for `bool` fills the value, so `False` is written and success answered (`parameter_handler.py:153`) |

Three more disagreements follow from properties of the passing runs:
`imu_buffer.py:8-9` promises exactly the samples between two image stamps, but a
sample delivered after the image that covers its stamp is dropped by the next
extraction (`OnlyLateSamplesSkipped` names the case); `landmark_manager.py:18-20`
wants re-identification after every brief occlusion, but the single nearest
descriptor is gated afterwards, so a dormant landmark that passes both gates may
be missed (`MissedOnlyWhenHidden` says when);
`landmark_manager.py:175-178` requires history before a report, but a
re-identified landmark keeps its age and is reported in the image it was detected
in (`ReportsAreFresh` says what does hold). The bridge's README writes
`get_param_response` and `set_param_response` where the code publishes
`get_parameter_response` and `set_parameter_response`.

## 4. Fairness

`Propagator`'s `FairSpec` assumes `WF_vars(BothArrive)`, that windows
with samples of both sensors keep occurring. Both topics are published
continuously at rates above the camera's, so an image interval without one of
them is an exception (a lost `BEST_EFFORT` message, a stall) and not a lasting
state. Nothing is assumed of the windows in between, which may be empty or
one-sided arbitrarily often. Under it `EventuallyInitialized` holds because
`Collect` accumulates and never starts over.

The bridge assumes `WF_bridgeVars(Work)`: as long as a thread, the broker or a
camera has something to do, something of it is done. A single condition suffices
because `Work` is finite: whatever is handled leaves an inbox, a slot or a
subscription, so none of its parts can put another off for ever. It stands for
the two threads, which the operating system schedules; for the camera, which
answers a call, sends the images of a stream it has and the result of a goal;
and for paho, which reconnects from its own loop. Requests, feedback and faults
are not in it: none need ever come. Nor is the return of a camera: nothing in the
repository starts a camera's node again (`rs_launch.py` has no respawn). What
waits for a camera that is away is therefore `Stuck`: a call or a goal it took
down with it, the wait for its action server, a frame asked of it. `DemoSpec` adds
`WF_vars(Client)` for the two threads of the example program.

Of the libraries the bridge's model assumes: rclpy lets an exception of a callback
out of `spin`, and `entry_point` then ends; paho lets an exception of `on_message`
out of its loop, and its thread ends; operations on a destroyed action client
raise; a camera's node publishes every image stream a client may ask for while it
is up. A request that names a camera names one of `Camera` (`CameraAssumption`).

All other properties are safety properties and need no fairness.

## 5. Proofs

TLAPS proves the following for every value of the constants that satisfies the
module's ASSUME. Each module's invariant is checked by TLC through its conjuncts
in the runs above.

**`IMUBufferProofs`** (`BufferAssumption`: stamps are integers, `None` is none).
`DeliveryInv` is inductive. "No sample twice" alone is not: handing out
`lo .. hi-1` is harmless only because everything in the deque is either still
waiting or at or before the previous image (`DequeHoldsWaiting`), where `lo`
starts. That needs the deque sorted (`Sorted`, for the meaning of bisection), and
"skipped only if late" needs that what waits and came in time lies ahead of the
previous image (`WaitingIsAhead`). `FirstAfterSplits` states what the bisection
returns, `TrimmedHeadBounds` what the trim returns; there is one `...Preserves`
lemma per action. From the invariant follow `TypeCorrect`, `AtMostOnce`,
`SkippedOnlyLate`, `InOrder`, and the action property `TrimOnlyWhenStalled`.
`BufferImplementsDelivery` is the refinement of `SampleDelivery` under the mapping
`Delivery`: an append with its trim is a `Receive` (`AddReceives`), an extraction a
`Deliver` of what it hands out and skips (`ExtractWindowDelivers`), a clear one
that loses everything (`ClearDelivers`), and a bootstrap a stutter. `DeliveryInv`
says what is needed of the reachable states: what waits is in the deque, and what
is in the deque and already handed out is not handed out again.

**`LandmarkManagerProofs`** (`LandmarkAssumption`). `LandmarkInv` is inductive.
Agreement of tracks and dictionary rests on the ids of one redetect pass being
distinct (`IdsAreDistinct`) and the new ones fresh (`CreatedIdsAreFresh`): both
are cardinality arguments about the loop-free `IdOf`. `Frame` is proved stage by
stage, each stage of the callback having a lemma about the dictionary it leaves.
Reports are fresh because `active` is kept equivalent to tracked, valid depth and
age (`ActiveMeansReportable`), and because without depth or intrinsics, when
stamping is skipped, no landmark can have a valid depth (`DepthIsBacked`). That the
depth is of the last image to arrive holds of what is reported, in the same
callback that stamps it; it does not survive the next depth image
(`DepthImagePreserves`), which is why it is no part of `active`.
`IdentitiesPersist` and `RevivedNearby` are action properties from the same
invariant.

**`ObserverProofs`** (`ObserverAssumption`, `CorrectionAssumption`). `ObserverInv`
adds to the properties what ties each correction to the stamps of its frame and
the one before (`CorrectionsHaveFrames`), that a frame is behind an earlier one
only if the stamps went back between them (`BehindOnlyAfterStepBack`), and that
map and corrections start after the frame that aligned the pose (`MapIsAligned`).
The first and the second of these give `OnceUnlessSteppedBack`, the second and the
third `OnlyAlignedTime`: known landmarks are corrected over time before the
alignment's stamp only after a step back. Of the sub-steps,
`SubstepsWithinMargin`: their number is between one and the cap, meets the margin
unless capped, and is the fewest that does. `StableUpToTheCap` and
`UnstableBeyondTheCap`: every sub-step is in explicit Euler's stability region
exactly while `dt` times the pole is below twice the cap. With 400 sub-steps, 300
landmarks and 3 s between two images it is not (3 * 304 = 912 against 800),
although the docstring of `_apply_correction` says the pieces are small enough to
stay inside.

The composition with the propagator is a refinement: `ObserverRunsPropagator`
shows that every `Process` is a step of `Prop`, so `EstimateComesFirst`, proved of
the propagator alone, carries over (`ObserverIntegratesOnlyEstimated`) without
looking at the observer again.

**`PropagatorProofs`** (`PropagatorAssumption`). `IntegratesOnlyEstimated` with the
types is inductive (`WarmupInvariant`), for the counts are cut off exactly where
the estimate is made; hence `EstimateComesFirst`. `WarmupEndsOnce`: there is no way
back. `WarmupAdvances` is the measure behind `EventuallyInitialized`: no window
takes the collection back, and one with both sensors takes it further, so after
`2 * Warmup` of them at the latest it is complete. The step from there to the
liveness property needs fairness and is left to TLC.

**`ReidentificationLoopProofs`** (`LoopAssumption`). `LoopInv` says what the loop
remembers is what the keypoints visited so far determine (`Progress`): the claimed
set is the set of their best candidates, and `nextId` is the first free id plus
the number of those before the current one that create. Hence the next claims its
candidate exactly if the loop-free `Claims` says so (`ClaimsUnclaimed`), and its id
is `IdOf` (`IdOfNext`, a cardinality argument). From it follow
`LandmarksAreTakenOnce`, `MissedLandmarksAreHidden` and `LoopIsItsDefinition`: the
loop computes the definition that `LandmarkManager` uses. The second is about the
candidate nearest in descriptor (`NearestIsNearest`): when a dormant landmark lies
within both gates, that one is no further, so it passes the threshold, and the
keypoint is denied it only for its place or because it was taken.

**`PropagationProofs`** (the assumptions of `Propagation`). `PropagationInv`: both
windows are sorted, what is left of them lies after every event merged so far
(`WindowInv`), the events are in order and each holds the latest sample of either
stream up to its instant (`EventsInv`). As images may step back, what was
integrated earlier need not lie before the current windows; but an instant was
integrated only because a sample of one of the sensors lay beyond it, and as that
sensor hands nothing over that is older, all it has in the current window is
beyond the instant too (`PastInv`). Events hold a sample of both, so none of them
comes before that one. From it follow `NoEventFromTheFuture`, `NoInstantTwice` and
`ZeroOrderHold`. That the loop computes its loop-free definition
(`MergeIsItsDefinition`) takes a second invariant, `MergeInv`: the events are
those of the samples taken so far that found a sample of the other stream
(`GyrosTaken`, `AccelsTaken`), one each and in the order of the stamps. Each
branch of the loop adds one sample to these sets (`TakeGyroMerges`,
`TakeAccelMerges`), and when both windows are used up they are the events of the
definition.

**`D455InterfaceProofs`** (`InterfaceAssumption`). The difficulty is the exception
between any two steps: afterwards `pc` is in the shutdown, and what the tables
look like depends on where it was. `At` is the step the process is at or was at
when the exception came, and `Lockstep` gives every table, list and counter the
value `frameId`, plus one exactly between the step that fills it and the end of
the frame. `FrameInv` ties the i-th entry of each to the end of the i-th window;
`DepthInv` says each depth image is logged before the next frame begins. From
these follow `TablesAgree`, `DepthRowsExplain`, `WindowsAndIntervalsAgree` and
`ExitIsSaved`.

**`MqttBridgeProofs`** (`BoundsAssumption`, `RequestsAssumption`,
`CameraAssumption`, `AbsentAssumption`, `ProgressAssumption`,
`NumeralAssumption`). `BridgeInv` has one part per module of the bridge. The
thread part says that the inbox is increasing and nothing has been said about a
request not taken up yet, which is what makes calls ordered
(`CallsServedInOrder`). The frame part is `FrameSlots` with who may hold an entry.
The calibration part says which clients may exist at all, that a run under way has
no final reply, and where the clean-up has come to: without overlap
`DestroyClient` destroys the run's own client, so nothing follows a final reply
(`FinalRepliesAreFinal`). `SlotsBelongToTheRun` needs two parts more: a handle is
of a goal that was sent (`KnownHandles`), and a client whose goal was not sent yet
is paho's thread's at this moment, or its last one (`NewClients`); so a client
that gives up its slot to the next run's is that of a rejected or lost goal. Every
action changes one handler's variables; the lemmas `ServicesUntouched`,
`FramesUntouched` and `CalibrationUntouched` dispose of the others, and
`OtherHandlers`, `OtherCallbacks` and `OutsideSteps` say what is left of a step
for a part it is not about.

On top of it, three invariants follow a request to its end:

- `SettingInv`. A reply that says a parameter was set is the bridge's word for
  what the executor stored in the future, which is the executor's word for what
  the camera did. `SetInv` chains the three: only a value of a known type that its
  conversion takes is ever sent (`Writable`), a call that succeeded is of a
  request the camera took, and a success was reported only of such a one. Hence
  `SettingsTakeEffect`; what a client means is defined for the types whose values
  the bridge converts, and of a `bool` by the texts of true and false alone; that
  `int()` returns it unless it cuts a JSON number to its whole part is a case
  split on type and kind, from `NumeralAssumption`. `SetsSettled` and
  `GoalsInOrder` say that a set that was taken up is waited for, served or given
  up, and that a goal is sent before any later request is taken up: hence
  `RunsComeAfterSettings`, whoever the clients are.
- `NothingForgotten`. A request is in the inbox, settled, in the hands of a thread,
  subscribed for an image, or has a goal. Each step moves one request and leaves the
  others where they are (`OthersStayAccounted`); the delicate one is the image
  callback, which destroys the subscription *the entry holds*: by `FrameSlots` it is
  that of the request whose image came. `NoRequestIsForgotten` and its consequence
  `AllSettledAtRest` are the safety half of `RequestsSettle`: whatever is not settled
  or stuck is something a thread, the broker or a camera that is up has still to do,
  so that only fairness is missing.
- `ClientInv`, of the example program (`ScriptAssumption`: its requests are the
  only ones; no other theorem uses it). `BehindAt` bounds, for every point of the
  program's loop and both values of `locked`, how many requests it is ahead of the
  messages it has read. A message unlocks once, but every request is heard of by
  at most one message before the calibration (`HeardOnce`), so requests are
  counted by messages (`UnheardAreBehind`). Hence `ProgramStaysClose`, and, as the
  calibration is the script's last request and its goal comes after all sets,
  `ProgramCalibratesLast`. `ProgramUsesTheBridge` shows that client and bridge
  together are a behaviour of the bridge with an arbitrary client: every step of
  `DemoClient` is a step of `MqttBridge` or leaves the bridge alone, so all of the
  above holds for it.

**Only model-checked:** liveness (`EventuallyInitialized`, `RequestsSettle`,
`ClientFinishes`), for it rests on `ENABLED` and fairness, which the prover cannot
handle. Of the first two the safety half is proved (`WarmupAdvances`,
`AllSettledAtRest`). Every invariant and every action property of the passing runs is
a theorem.

## 6. Not modelled

- Floating-point arithmetic: the SO(3) helpers, the integration formulas, the
  correction terms, back-projection, descriptor distances as numbers, and
  residual norms. The models keep *which* steps are taken over *which* time and
  samples.
- Drawing and CSV formatting; the two raw IMU tables, whose rows carry no
  `frame_id`.
- A second exception while `destroy_node` runs, other than the one
  `plot_diagnostics` raises itself.
- `frame_measurement.py` and `observer_state.py` beyond the fields the other
  models use: they are plain records.
- Of the bridge: which devices, transforms and tables an answer carries, the names
  of response topics, and log messages. That the camera served a call whose answer
  was then lost and that it went away before serving it are one case (`lost`).
- The vendored driver (C++), plugin and description. The driver's scripts that
  listen to topics and convert bags (`rs2_listener.py`, `importRosbag`) are a
  collection of callbacks that store the last message of a type, and a parser of a
  file format: sequential, with no state that two actors share. Launch files are
  declarations. Package metadata, lint tests.

## 7. Plan

Done, in this order: delivery (`IMUBuffer`, its abstract specification, the
refinement and proofs), landmarks (`Reidentification`, its loop,
`LandmarkManager`, proofs), propagation (`Propagator`, `Propagation`, proofs),
correction (`CorrectionSubsteps`, `Observer`, proofs), the node (`DataLogger`,
`D455Interface`, proofs), the bridge (`BridgeRequests` to `MqttBridge`, proofs) and
its client (`DemoClient`, proofs).

What would come next:

1. the driver around the publisher of the IMU topics: copy and linear
   interpolation of gyro and accel into one stream (`base_realsense_node.cpp`),
   the life cycle of sensors and profiles (`ros_sensor.cpp`,
   `profile_manager.cpp`), device arrival and loss (`realsense_node_factory.cpp`);
2. the axis chosen by `rotation_from_two_vectors` for opposite vectors, as an
   exact statement about integer vectors;
3. an abstract specification of the life of a request (published, taken up,
   settled once) that the bridge without overlapping runs refines, from
   `NothingForgotten` and `NothingAfterFinal`, and the observer's corrections as a
   refinement of a clock that is never corrected twice.
