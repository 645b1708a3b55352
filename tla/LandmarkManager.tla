--------------------------- MODULE LandmarkManager ---------------------------
(***************************************************************************)
(* The landmark dictionary (li_slam/landmark_manager.py) driven by the KLT *)
(* tracking loop of the image callback (li_slam/d455_interface_node.py):   *)
(* propagate, redetect and re-identify, stamp with depth, prune, report.   *)
(*                                                                         *)
(* A pixel stands for a small image region.  What optical flow, the ORB    *)
(* detector and the descriptor matcher return is chosen nondeterministic-  *)
(* ally among all they can return; what the code does with it is not.      *)
(* Wall-clock time is kept per landmark, as the ticks since last_seen.     *)
(***************************************************************************)
EXTENDS Integers, Sequences, FiniteSets, Reidentification

CONSTANTS
  Pixel,         \* where a tracked point may be, in the image or outside
  Visible,       \* the pixels inside the image
  Near,          \* pairs of pixels at most REID_SEARCH_RADIUS apart
  MinTracked,    \* D455Interface.MIN_TRACKED_FEATURES
  MinAge,        \* LandmarkManager.MIN_TRACK_AGE_ACTIVE
  StaleTimeout,  \* LandmarkManager.STALE_TIMEOUT, in ticks
  MaxDetections, \* bound: keypoints per detectAndCompute
  MaxId          \* bound: landmarks created

ASSUME LandmarkAssumption ==
  /\ Visible \subseteq Pixel
  /\ Near \subseteq Pixel \X Pixel
  /\ MinTracked \in Nat
  /\ MinAge \in Nat \ {0}
  /\ StaleTimeout \in Nat
  /\ MaxDetections \in Nat
  /\ MaxId \in Nat
  /\ None \notin Pixel
  /\ None \notin Nat
  /\ \A valid \in SUBSET Visible : valid # None

VARIABLES
  landmarks,   \* LandmarkManager.landmarks: a function on the ids in the dict
  nextId,      \* LandmarkManager._next_id
  started,     \* whether _prev_gray is set
  tracks,      \* zip(_prev_points, _prev_ids): records [id, pixel]
  depth,       \* _latest_depth: the pixels with a nonzero depth, or None
  intrinsics,  \* whether _intrinsics is set
  reported,    \* the landmarks of the last FrameMeasurement
  alive        \* FALSE once an exception has left a callback

vars == <<landmarks, nextId, started, tracks, depth, intrinsics, reported, alive>>

Id == 0 .. MaxId - 1

(* class Landmark: ages count up to MinAge and idle time up to one tick    *)
(* past the timeout, which is all the code tells apart.  measured is the   *)
(* pixel that depth and position_camera were last computed at, latest      *)
(* whether the depth image they were computed from is the latest one.      *)
Landmark ==
  [pixel : Pixel, measured : Pixel \cup {None}, latest : BOOLEAN,
   validDepth : BOOLEAN, age : 1 .. MinAge, tracked : BOOLEAN,
   active : BOOLEAN, idle : 0 .. StaleTimeout + 1]

NewLandmark(px) ==
  [pixel |-> px, measured |-> None, latest |-> FALSE, validDepth |-> FALSE,
   age |-> 1, tracked |-> TRUE, active |-> FALSE, idle |-> 0]

Older(age) == IF age < MinAge THEN age + 1 ELSE MinAge

-----------------------------------------------------------------------------
(* The steps of one image, on the dictionary lms.                          *)

(* Mutated form of MarkLost: a lost landmark stays active.                 *)
MarkLostStillActive(lm) == [lm EXCEPT !.tracked = FALSE]

MarkLost(lm) == [lm EXCEPT !.tracked = FALSE, !.active = FALSE]

MarkTracked(lm, px) ==
  [lm EXCEPT !.pixel = px, !.age = Older(@), !.tracked = TRUE, !.idle = 0]

(* _propagate: flow maps every track KLT could follow to its new pixel.    *)
Propagated(lms, flow) ==
  [id \in DOMAIN lms |->
     IF \E t \in DOMAIN flow : t.id = id
     THEN MarkTracked(lms[id], flow[CHOOSE t \in DOMAIN flow : t.id = id])
     ELSE IF \E t \in tracks : t.id = id THEN MarkLost(lms[id])
     ELSE lms[id]]

(* Mutated form of Detections: no radius gate.                             *)
DetectionsAnywhere(lms, mask) ==
  LET Candidate == {id \in DOMAIN lms : ~lms[id].tracked}
      Keypoint == [pixel : Visible \ mask, match : Candidate \cup {None}]
  IN  UNION {[1 .. n -> Keypoint] : n \in 0 .. MaxDetections}

(* The keypoints of one detection: each with the dormant landmark that     *)
(* passed the descriptor and the radius gate for it, or None.              *)
Detections(lms, mask) ==
  LET Candidate(px) == {id \in DOMAIN lms :
                          ~lms[id].tracked /\ <<px, lms[id].pixel>> \in Near}
      Keypoint == UNION {[pixel : {px}, match : Candidate(px) \cup {None}] :
                           px \in Visible \ mask}
  IN  UNION {[1 .. n -> Keypoint] : n \in 0 .. MaxDetections}

Reidentified(lm, px) ==
  [lm EXCEPT !.pixel = px, !.tracked = TRUE, !.idle = 0]

Integrated(lms, kps) ==
  [id \in DOMAIN lms \cup {IdOf(kps, nextId, i) : i \in DOMAIN kps} |->
     IF ~ \E i \in DOMAIN kps : IdOf(kps, nextId, i) = id THEN lms[id]
     ELSE LET i == CHOOSE i \in DOMAIN kps : IdOf(kps, nextId, i) = id
          IN  IF Claims(kps, i) THEN Reidentified(lms[id], kps[i].pixel)
              ELSE NewLandmark(kps[i].pixel)]

(* Mutated form of Stamped: a pixel without depth leaves active alone.     *)
StampedStillActive(lms) ==
  IF depth = None \/ ~intrinsics THEN lms
  ELSE [id \in DOMAIN lms |->
          IF ~lms[id].tracked THEN lms[id]
          ELSE IF lms[id].pixel \notin depth
          THEN [lms[id] EXCEPT !.validDepth = FALSE]
          ELSE [lms[id] EXCEPT !.measured = lms[id].pixel, !.latest = TRUE,
                               !.validDepth = TRUE,
                               !.active = (lms[id].age >= MinAge)]]

(* update_depth, once a depth image and the intrinsics are there.          *)
Stamped(lms) ==
  IF depth = None \/ ~intrinsics THEN lms
  ELSE [id \in DOMAIN lms |->
          IF ~lms[id].tracked THEN lms[id]
          ELSE IF lms[id].pixel \notin depth
          THEN [lms[id] EXCEPT !.validDepth = FALSE, !.active = FALSE]
          ELSE [lms[id] EXCEPT !.measured = lms[id].pixel, !.latest = TRUE,
                               !.validDepth = TRUE,
                               !.active = (lms[id].age >= MinAge)]]

(* Mutated form of Kept: pruned one tick early.                            *)
KeptTooShortly(lms) ==
  {id \in DOMAIN lms : lms[id].tracked \/ lms[id].idle < StaleTimeout}

(* prune_stale.                                                            *)
Kept(lms) ==
  {id \in DOMAIN lms : lms[id].tracked \/ lms[id].idle <= StaleTimeout}

Pruned(lms) == [id \in Kept(lms) |-> lms[id]]

(* get_active_landmarks, copied into LandmarkMeasurements.                 *)
ActiveLandmarks(lms) ==
  {[id |-> id, pixel |-> lms[id].pixel, measured |-> lms[id].measured,
    latest |-> lms[id].latest] :
     id \in {id \in DOMAIN lms : lms[id].active}}

-----------------------------------------------------------------------------
Init ==
  /\ landmarks = << >>
  /\ nextId = 0
  /\ started = FALSE
  /\ tracks = {}
  /\ depth = None
  /\ intrinsics = FALSE
  /\ reported = {}
  /\ alive = TRUE

(* The first image in which anything is detected: every keypoint is new.   *)
Bootstrap ==
  /\ alive /\ ~started
  /\ \E kps \in Detections(landmarks, {}) :
       /\ kps # << >>
       /\ nextId + Len(kps) <= MaxId
       /\ landmarks' = Integrated(landmarks, kps)
       /\ nextId' = nextId + Len(kps)
       /\ tracks' = {[id |-> IdOf(kps, nextId, i), pixel |-> kps[i].pixel] :
                       i \in DOMAIN kps}
  /\ started' = TRUE
  /\ UNCHANGED <<depth, intrinsics, reported, alive>>

(* The image callback once tracking has started.                           *)
Frame ==
  /\ alive /\ started /\ tracks # {}
  /\ \E kept \in SUBSET tracks : \E flow \in [kept -> Pixel] :
       LET lms      == Propagated(landmarks, flow)
           survived == {[id |-> t.id, pixel |-> flow[t]] : t \in kept}
           mask     == {t.pixel : t \in survived}
       IN  \E kps \in IF Cardinality(kept) < MinTracked
                      THEN Detections(lms, mask) ELSE {<< >>} :
             LET final == Pruned(Stamped(Integrated(lms, kps)))
             IN  /\ nextId + Cardinality(Created(kps)) <= MaxId
                 /\ landmarks' = final
                 /\ nextId' = nextId + Cardinality(Created(kps))
                 /\ tracks' = survived \cup
                      {[id |-> IdOf(kps, nextId, i), pixel |-> kps[i].pixel] :
                         i \in DOMAIN kps}
                 /\ reported' = ActiveLandmarks(final)
  /\ UNCHANGED <<started, depth, intrinsics, alive>>

(* calcOpticalFlowPyrLK has no answer for an empty list of points: the     *)
(* exception ends rclpy.spin and with it the node.                         *)
FrameWithoutTracks ==
  /\ alive /\ started /\ tracks = {}
  /\ alive' = FALSE
  /\ UNCHANGED <<landmarks, nextId, started, tracks, depth, intrinsics, reported>>

(* _depth_callback: which pixels have depth is up to the scene.  It only   *)
(* replaces the image: positions computed before are now from an older one.*)
DepthImage(valid) ==
  /\ alive
  /\ depth' = valid
  /\ landmarks' = [id \in DOMAIN landmarks |->
                     [landmarks[id] EXCEPT !.latest = FALSE]]
  /\ UNCHANGED <<nextId, started, tracks, intrinsics, reported, alive>>

(* _camera_info_callback.                                                  *)
CameraInfo ==
  /\ alive
  /\ intrinsics' = TRUE
  /\ UNCHANGED <<landmarks, nextId, started, tracks, depth, reported, alive>>

(* Time passes between callbacks.                                          *)
Tick ==
  /\ landmarks' = [id \in DOMAIN landmarks |->
                     [landmarks[id] EXCEPT !.idle =
                        IF @ <= StaleTimeout THEN @ + 1 ELSE @]]
  /\ UNCHANGED <<nextId, started, tracks, depth, intrinsics, reported, alive>>

Next ==
  \/ Bootstrap
  \/ Frame
  \/ FrameWithoutTracks
  \/ \E valid \in SUBSET Visible : DepthImage(valid)
  \/ CameraInfo
  \/ Tick

Spec == Init /\ [][Next]_vars

-----------------------------------------------------------------------------
(* Every variable has its type.                                            *)
TypeOK ==
  /\ DOMAIN landmarks \subseteq 0 .. nextId - 1
  /\ \A id \in DOMAIN landmarks : landmarks[id] \in Landmark
  /\ nextId \in 0 .. MaxId
  /\ tracks \subseteq [id : Id, pixel : Pixel]
  /\ depth \in (SUBSET Visible) \cup {None}
  /\ reported \subseteq [id : Id, pixel : Pixel, measured : Pixel \cup {None},
                          latest : BOOLEAN]
  /\ started \in BOOLEAN /\ intrinsics \in BOOLEAN /\ alive \in BOOLEAN

(* The frontend and the manager agree on what is tracked, although each    *)
(* keeps its own list: every KLT point belongs to a landmark still in the  *)
(* dictionary that believes itself tracked, at that very pixel (so no two  *)
(* points follow one landmark), and every landmark that believes itself    *)
(* tracked is followed by a KLT point.                                     *)
TracksMatchLandmarks ==
  /\ \A t \in tracks :
       /\ t.id \in DOMAIN landmarks
       /\ landmarks[t.id].tracked
       /\ t.pixel = landmarks[t.id].pixel
  /\ \A id \in DOMAIN landmarks :
       landmarks[id].tracked => \E t \in tracks : t.id = id

(* What reaches the observer is tracked from this very image on, old       *)
(* enough, and measured at its present pixel in the last depth image to    *)
(* arrive before this image: no dormant ghost, no position left over from  *)
(* before an occlusion or from a depth image that has been replaced since. *)
(* How long ago that last depth image arrived, or was taken, nothing in    *)
(* the code bounds.                                                        *)
ReportsAreFresh ==
  \A r \in reported :
    /\ r.measured = r.pixel
    /\ r.latest
    /\ [id |-> r.id, pixel |-> r.pixel] \in tracks
    /\ landmarks[r.id].age = MinAge

(* active means reportable, whatever order images, depth images, camera    *)
(* info, losses and re-identifications came in.                            *)
ActiveMeansReportable ==
  \A id \in DOMAIN landmarks :
    landmarks[id].active <=>
      /\ landmarks[id].tracked
      /\ landmarks[id].validDepth
      /\ landmarks[id].age = MinAge

(* The last conjuncts of the inductive invariant: nothing is there before  *)
(* the first detection, and a valid depth came from a depth image.         *)
EmptyBeforeStart ==
  ~started => DOMAIN landmarks = {} /\ tracks = {} /\ reported = {}

DepthIsBacked ==
  \A id \in DOMAIN landmarks :
    /\ landmarks[id].validDepth => depth # None /\ intrinsics
    /\ landmarks[id].active => landmarks[id].measured = landmarks[id].pixel

LandmarkInv ==
  /\ TypeOK
  /\ TracksMatchLandmarks
  /\ ReportsAreFresh
  /\ ActiveMeansReportable
  /\ EmptyBeforeStart
  /\ DepthIsBacked

(* A landmark leaves the dictionary only after StaleTimeout without having *)
(* been seen, and its id is never given to another point.                  *)
IdentityIsKept ==
  [][/\ \A id \in DOMAIN landmarks \ DOMAIN landmarks' :
          landmarks[id].idle > StaleTimeout
     /\ \A id \in DOMAIN landmarks' \ DOMAIN landmarks : id >= nextId]_vars

(* A dormant landmark comes back only near the place it was lost at.       *)
ReidentifiedNearby ==
  [][\A id \in DOMAIN landmarks \cap DOMAIN landmarks' :
       ~landmarks[id].tracked /\ landmarks'[id].tracked
         => <<landmarks'[id].pixel, landmarks[id].pixel>> \in Near]_vars

(* The README lists "Automatic feature re-detection when tracking          *)
(* degrades": losing every feature does not end the node.                  *)
SurvivesLosingEveryFeature == alive
=============================================================================
