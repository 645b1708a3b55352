---------------------------- MODULE D455Interface ----------------------------
(***************************************************************************)
(* The node (li_slam/d455_interface_node.py) as a process: the executor    *)
(* runs one callback at a time, a callback is a sequence of steps, and an  *)
(* exception between two of them (KeyboardInterrupt, or one of OpenCV or   *)
(* numpy) ends rclpy.spin and runs destroy_node in whatever state the      *)
(* callback has left behind.                                               *)
(*                                                                         *)
(* Color and depth images are numbered as they are dispatched.  What the   *)
(* steps compute is left to the other modules; here is in which order they *)
(* change the state that several of them share.                            *)
(***************************************************************************)
EXTENDS DataLogger

CONSTANTS
  MaxImages,  \* bound: color images dispatched
  MaxDepths,  \* bound: depth images dispatched
  None        \* neither an image nor a depth image

ASSUME InterfaceAssumption ==
  /\ MaxImages \in Nat
  /\ MaxDepths \in Nat
  /\ None \notin Nat

VARIABLES
  pc,           \* the next step of the process
  image, depth, \* the last color and depth image dispatched
  started,      \* whether _prev_gray is set
  latestDepth,  \* _latest_depth
  intrinsics,   \* whether _intrinsics is set
  stampedWith,  \* what update_depth last used
  prevImage,    \* _prev_image_time
  prevFrame,    \* Observer._prev_frame_t
  windows,      \* the windows extracted, as pairs of images
  intervals,    \* the intervals the observer took its dt over
  diagTime,     \* Observer.diag['t']
  diagRest,     \* the length of the other lists that are plotted against t
  diagPose,     \* the length of Observer.diag['x']
  raisedIn,     \* the step the exception came before
  saved,        \* whether the diagnostics are on disk
  plotted,      \* whether plot_diagnostics returned
  released      \* whether super().destroy_node and rclpy.shutdown have run

depthVars == <<depth, latestDepth, intrinsics, stampedWith>>
intervalVars == <<prevImage, prevFrame, windows, intervals>>
diagVars == <<diagTime, diagRest, diagPose>>
callbackVars == <<image, started, depthVars, intervalVars, diagVars>>
shutdownVars == <<raisedIn, saved, plotted, released>>
otherVars == <<shutdownVars, loggerVars>>
vars == <<pc, callbackVars, shutdownVars, loggerVars>>

RgbStep == {"bootstrap", "track", "updateDepth", "extract", "observe", "diagTime",
            "diagRest", "diagPose", "landmarks", "summary", "visualize"}
CallbackStep == RgbStep \cup {"logDepth"}
ShutdownStep == {"close", "save", "plot", "release"}

Init ==
  /\ LoggerInit
  /\ pc = "spin"
  /\ image = 0 /\ depth = 0
  /\ started = FALSE
  /\ latestDepth = None /\ intrinsics = FALSE /\ stampedWith = None
  /\ prevImage = None /\ prevFrame = None
  /\ windows = << >> /\ intervals = << >>
  /\ diagTime = << >> /\ diagRest = 0 /\ diagPose = 0
  /\ raisedIn = None /\ saved = FALSE /\ plotted = FALSE /\ released = FALSE

-----------------------------------------------------------------------------
(* The steps of _rgb_callback.                                             *)

Goto(from, to) == pc = from /\ pc' = to

RgbArrives ==
  /\ image < MaxImages
  /\ Goto("spin", IF started THEN "track" ELSE "bootstrap")
  /\ image' = image + 1
  /\ UNCHANGED <<depthVars, started, intervalVars, diagVars, otherVars>>

(* Nothing may be detected in the image; its stamp is kept all the same.   *)
Bootstrap ==
  /\ Goto("bootstrap", "spin")
  /\ started' \in BOOLEAN
  /\ prevImage' = image
  /\ UNCHANGED <<image, depthVars, prevFrame, windows, intervals, diagVars,
                 otherVars>>

(* Optical flow and redetection, which touch nothing that is shared here.  *)
Track ==
  /\ Goto("track", "updateDepth")
  /\ UNCHANGED <<callbackVars, otherVars>>

UpdateDepth ==
  /\ Goto("updateDepth", "extract")
  /\ stampedWith' = IF latestDepth # None /\ intrinsics THEN latestDepth ELSE None
  /\ UNCHANGED <<image, depth, started, latestDepth, intrinsics,
                 intervalVars, diagVars, otherVars>>

(* Mutated form of Extract: the stamp is kept before the window is taken.  *)
ExtractAfterStamp ==
  /\ Goto("extract", "observe")
  /\ prevImage' = image
  /\ windows' = Append(windows, <<prevImage', image>>)
  /\ UNCHANGED <<image, depthVars, started, prevFrame, intervals, diagVars,
                 otherVars>>

(* prune_stale and the IMU window.                                         *)
Extract ==
  /\ Goto("extract", "observe")
  /\ windows' = Append(windows, <<prevImage, image>>)
  /\ prevImage' = image
  /\ UNCHANGED <<image, depthVars, started, prevFrame, intervals, diagVars,
                 otherVars>>

(* Observer.process up to its diagnostics.                                 *)
Observe ==
  /\ Goto("observe", "diagTime")
  /\ intervals' = Append(intervals, <<prevFrame, image>>)
  /\ prevFrame' = image
  /\ UNCHANGED <<image, depthVars, started, prevImage, windows, diagVars,
                 otherVars>>

DiagTime ==
  /\ Goto("diagTime", "diagRest")
  /\ diagTime' = Append(diagTime, image)
  /\ UNCHANGED <<image, depthVars, started, intervalVars, diagRest, diagPose,
                 otherVars>>

(* The lists from dt to dP_mean; the last of them is as long as this says. *)
DiagRest ==
  /\ Goto("diagRest", "diagPose")
  /\ diagRest' = diagRest + 1
  /\ UNCHANGED <<image, depthVars, started, intervalVars, diagTime, diagPose,
                 otherVars>>

DiagPose ==
  /\ Goto("diagPose", "landmarks")
  /\ diagPose' = diagPose + 1
  /\ UNCHANGED <<image, depthVars, started, intervalVars, diagTime, diagRest,
                 otherVars>>

Landmarks ==
  /\ Goto("landmarks", "summary")
  /\ LogLandmarks(image, stampedWith)
  /\ UNCHANGED <<callbackVars, shutdownVars>>

Summary ==
  /\ Goto("summary", "visualize")
  /\ LogFrameSummary(image)
  /\ UNCHANGED <<callbackVars, shutdownVars>>

Visualize ==
  /\ Goto("visualize", "spin")
  /\ UNCHANGED <<callbackVars, otherVars>>

RgbCallback ==
  \/ RgbArrives \/ Bootstrap \/ Track \/ UpdateDepth \/ Extract \/ Observe
  \/ DiagTime \/ DiagRest \/ DiagPose \/ Landmarks \/ Summary \/ Visualize

-----------------------------------------------------------------------------
(* The other callbacks.                                                    *)

(* _depth_callback stores the image, shows it, and logs it.                *)
DepthArrives ==
  /\ depth < MaxDepths
  /\ Goto("spin", "logDepth")
  /\ depth' = depth + 1
  /\ latestDepth' = depth'
  /\ UNCHANGED <<image, started, intrinsics, stampedWith, intervalVars,
                 diagVars, otherVars>>

LogDepth ==
  /\ Goto("logDepth", "spin")
  /\ LogDepthFrame(depth)
  /\ UNCHANGED <<callbackVars, shutdownVars>>

(* Only the first CameraInfo counts.                                       *)
CameraInfo ==
  /\ pc = "spin" /\ ~intrinsics
  /\ intrinsics' = TRUE
  /\ UNCHANGED <<pc, image, depth, started, latestDepth, stampedWith,
                 intervalVars, diagVars, otherVars>>

-----------------------------------------------------------------------------
(* The end of the process.                                                 *)

(* An exception in a callback, or KeyboardInterrupt while there is none.   *)
Raise ==
  /\ pc \in CallbackStep \cup {"spin"}
  /\ pc' = "close"
  /\ raisedIn' = pc
  /\ UNCHANGED <<saved, plotted, released, callbackVars, loggerVars>>

CloseLogger ==
  /\ Goto("close", "save")
  /\ Close
  /\ UNCHANGED <<callbackVars, shutdownVars>>

SaveDiagnostics ==
  /\ Goto("save", "plot")
  /\ saved' = TRUE
  /\ UNCHANGED <<raisedIn, plotted, released, callbackVars, loggerVars>>

(* Mutated form of PlotDiagnostics: no early return without entries.       *)
PlotEvenNothing ==
  /\ pc = "plot"
  /\ IF Len(diagTime) = diagRest /\ diagPose > 0
     THEN pc' = "release" /\ plotted' = TRUE
     ELSE pc' = "exited" /\ UNCHANGED plotted
  /\ UNCHANGED <<raisedIn, saved, released, callbackVars, loggerVars>>

(* Without any entry nothing is plotted; lists of different lengths cannot *)
(* be plotted against each other, nor a trajectory without a position, and *)
(* the exception leaves destroy_node.                                      *)
PlotDiagnostics ==
  /\ pc = "plot"
  /\ IF diagTime = << >> \/ (Len(diagTime) = diagRest /\ diagPose > 0)
     THEN pc' = "release" /\ plotted' = TRUE
     ELSE pc' = "exited" /\ UNCHANGED plotted
  /\ UNCHANGED <<raisedIn, saved, released, callbackVars, loggerVars>>

Release ==
  /\ Goto("release", "exited")
  /\ released' = TRUE
  /\ UNCHANGED <<raisedIn, saved, plotted, callbackVars, loggerVars>>

(* The process is gone.                                                    *)
Exited == pc = "exited" /\ UNCHANGED vars

Shutdown == CloseLogger \/ SaveDiagnostics \/ PlotDiagnostics \/ Release

Next ==
  \/ RgbCallback
  \/ DepthArrives \/ LogDepth \/ CameraInfo
  \/ Raise
  \/ Shutdown
  \/ Exited

Spec == Init /\ [][Next]_vars

-----------------------------------------------------------------------------
Image == 1 .. image
OptionalImage == Image \cup {None}

TypeOK ==
  /\ pc \in CallbackStep \cup ShutdownStep \cup {"spin", "exited"}
  /\ image \in 0 .. MaxImages /\ depth \in 0 .. MaxDepths
  /\ started \in BOOLEAN /\ intrinsics \in BOOLEAN
  /\ {latestDepth, stampedWith} \subseteq (1 .. depth) \cup {None}
  /\ {prevImage, prevFrame} \subseteq OptionalImage
  /\ windows \in Seq(OptionalImage \X Image)
  /\ intervals \in Seq(OptionalImage \X Image)
  /\ diagTime \in Seq(Image) /\ {diagRest, diagPose} \subseteq 0 .. MaxImages
  /\ raisedIn \in CallbackStep \cup {"spin", None}
  /\ frameId = Len(summaryRows)
  /\ summaryRows \in Seq([frame : Nat, image : Image])
  /\ landmarkRows \in
       Seq([frame : Nat, image : Image, depth : (1 .. depth) \cup {None}])
  /\ depthRows \in Seq([frame : Nat, image : 1 .. depth])
  /\ {saved, plotted, released, closed} \subseteq BOOLEAN

(* The tables can be joined on frame_id, and with the observer's           *)
(* diagnostics by position, even after an exception between two steps:     *)
(* what carries the same frame_id is about the same image.                 *)
TablesJoin ==
  /\ \A i \in DOMAIN summaryRows :
       /\ summaryRows[i].frame = i - 1
       /\ i \in DOMAIN landmarkRows
  /\ \A i \in DOMAIN landmarkRows :
       /\ landmarkRows[i].frame = i - 1
       /\ i \in DOMAIN diagTime /\ diagTime[i] = landmarkRows[i].image
       /\ i \in DOMAIN summaryRows => summaryRows[i].image = landmarkRows[i].image

(* depth_stats.csv tells which depth image an image's landmarks were       *)
(* stamped with: the last one whose row carries at most the image's        *)
(* frame_id, however the two cameras' images interleave.                   *)
DepthRowsExplainLandmarks ==
  \A i \in DOMAIN landmarkRows :
    landmarkRows[i].depth # None =>
      \E j \in DOMAIN depthRows :
        /\ depthRows[j].image = landmarkRows[i].depth
        /\ depthRows[j].frame <= landmarkRows[i].frame
        /\ \A k \in DOMAIN depthRows :
             k > j => depthRows[k].frame > landmarkRows[i].frame

(* The observer corrects over the very interval whose IMU samples it       *)
(* propagates over, although node and observer each keep a stamp of their  *)
(* own; only its first frame has a window and no dt.  The windows follow   *)
(* each other without a gap.                                               *)
WindowsMatchIntervals ==
  /\ \A i \in DOMAIN intervals :
       intervals[i] = IF i = 1 THEN <<None, windows[1][2]>> ELSE windows[i]
  /\ \A i \in DOMAIN windows :
       /\ windows[i][1] # None
       /\ i > 1 => windows[i][1] = windows[i - 1][2]

(* However the process ends, the tables are closed and the diagnostics are *)
(* saved; the ROS resources are released too, unless the exception came    *)
(* while the diagnostics of a frame were being recorded.                   *)
EndsSaved ==
  pc = "exited" =>
    /\ closed /\ saved
    /\ released \/ raisedIn \in {"diagRest", "diagPose"}
=============================================================================
