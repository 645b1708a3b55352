------------------------------ MODULE DataLogger ------------------------------
(***************************************************************************)
(* The per-frame tables of the data logger (li_slam/mydata_logger.py).     *)
(* Rows are records of the frame_id they carry and the image they are      *)
(* about; the numbers in the other columns are left out, and so are the    *)
(* two raw IMU tables, whose rows carry no frame_id.                       *)
(***************************************************************************)
EXTENDS Naturals, Sequences

VARIABLES
  frameId,       \* DataLogger._frame_id
  summaryRows,   \* frame_summary.csv
  landmarkRows,  \* landmarks.csv, one entry for all the rows of an image
  depthRows,     \* depth_stats.csv
  closed         \* whether the files are closed

loggerVars == <<frameId, summaryRows, landmarkRows, depthRows, closed>>

LoggerInit ==
  /\ frameId = 0
  /\ summaryRows = << >>
  /\ landmarkRows = << >>
  /\ depthRows = << >>
  /\ closed = FALSE

(* Mutated form of LogDepthFrame: the row is counted to the next frame.    *)
LogDepthFrameNext(depth) ==
  /\ depthRows' = Append(depthRows, [frame |-> frameId + 1, image |-> depth])
  /\ UNCHANGED <<frameId, summaryRows, landmarkRows, closed>>

LogDepthFrame(depth) ==
  /\ depthRows' = Append(depthRows, [frame |-> frameId, image |-> depth])
  /\ UNCHANGED <<frameId, summaryRows, landmarkRows, closed>>

(* Mutated form of LogLandmarks: the frame counter moves on here already.  *)
LogLandmarksCounts(image, depth) ==
  /\ landmarkRows' = Append(landmarkRows,
       [frame |-> frameId, image |-> image, depth |-> depth])
  /\ frameId' = frameId + 1
  /\ UNCHANGED <<summaryRows, depthRows, closed>>

(* depth is the depth image the landmarks of this image were stamped with. *)
LogLandmarks(image, depth) ==
  /\ landmarkRows' = Append(landmarkRows,
       [frame |-> frameId, image |-> image, depth |-> depth])
  /\ UNCHANGED <<frameId, summaryRows, depthRows, closed>>

(* The row, the frame counter and the flush.                               *)
LogFrameSummary(image) ==
  /\ summaryRows' = Append(summaryRows, [frame |-> frameId, image |-> image])
  /\ frameId' = frameId + 1
  /\ UNCHANGED <<landmarkRows, depthRows, closed>>

Close ==
  /\ closed' = TRUE
  /\ UNCHANGED <<frameId, summaryRows, landmarkRows, depthRows>>
=============================================================================
