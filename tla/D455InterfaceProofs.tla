------------------------- MODULE D455InterfaceProofs -------------------------
(***************************************************************************)
(* Theorems about the node as a process, for any number of images: the     *)
(* tables, the observer's diagnostics and the IMU windows agree row by row *)
(* however color and depth images interleave and wherever an exception     *)
(* ends the callbacks, and what an exit leaves behind.                     *)
(***************************************************************************)
EXTENDS D455Interface, SequenceTheorems, TLAPS

-----------------------------------------------------------------------------
(* The inductive invariant.                                                *)

(* The step of a callback the process is at, or was at when the exception  *)
(* came: what destroy_node finds is what that step had left.               *)
At == IF pc \in CallbackStep \cup {"spin"} THEN pc ELSE raisedIn

Ahead(steps) == IF At \in steps THEN 1 ELSE 0

(* The steps of _rgb_callback after each of those that record something,   *)
(* up to the one that ends the frame.                                      *)
AfterPose == {"landmarks", "summary"}
AfterRest == {"diagPose"} \cup AfterPose
AfterTime == {"diagRest"} \cup AfterRest
AfterObserve == {"diagTime"} \cup AfterTime
AfterExtract == {"observe"} \cup AfterObserve
AfterUpdate == {"extract"} \cup AfterExtract
BeforeExtract == {"bootstrap", "track", "updateDepth", "extract"}

(* Where the process is, and what that says of the flags: nothing is       *)
(* extracted before the first detection, and the steps of the shutdown     *)
(* follow each other.                                                      *)
ControlInv ==
  /\ pc \in RgbStep \ {"bootstrap"} => started
  /\ pc = "bootstrap" => ~started
  /\ started => prevImage # None
  /\ ~started => windows = << >>
  /\ pc \in ShutdownStep \cup {"exited"} =>
       raisedIn \in CallbackStep \cup {"spin"}
  /\ pc \in {"save", "plot", "release", "exited"} => closed
  /\ pc \in {"plot", "release", "exited"} => saved
  /\ pc = "exited" /\ ~released =>
       /\ diagTime # << >>
       /\ Len(diagTime) # diagRest \/ diagPose = 0

(* Everything that is recorded once per frame is recorded in step: it is   *)
(* one ahead of the frame counter exactly between its step and the end of  *)
(* the frame.  No more frames were begun than images dispatched.           *)
Lockstep ==
  /\ Len(landmarkRows) = frameId + Ahead({"summary"})
  /\ diagPose = frameId + Ahead(AfterPose)
  /\ diagRest = frameId + Ahead(AfterRest)
  /\ Len(diagTime) = frameId + Ahead(AfterTime)
  /\ Len(intervals) = frameId + Ahead(AfterObserve)
  /\ Len(windows) = frameId + Ahead(AfterExtract)
  /\ Len(windows) + Ahead(BeforeExtract) <= image

(* What is recorded for the i-th frame is about the image its window ends  *)
(* at.                                                                     *)
FrameInv ==
  /\ \A i \in DOMAIN windows :
       /\ windows[i][1] # None
       /\ i > 1 => windows[i][1] = windows[i - 1][2]
  /\ windows # << >> => windows[Len(windows)][2] = prevImage
  /\ At \in AfterExtract => prevImage = image
  /\ prevFrame = IF intervals = << >> THEN None
                 ELSE windows[Len(intervals)][2]
  /\ \A i \in DOMAIN intervals :
       intervals[i] = IF i = 1 THEN <<None, windows[1][2]>> ELSE windows[i]
  /\ \A i \in DOMAIN diagTime : diagTime[i] = windows[i][2]
  /\ \A i \in DOMAIN landmarkRows :
       landmarkRows[i].frame = i - 1 /\ landmarkRows[i].image = windows[i][2]
  /\ \A i \in DOMAIN summaryRows :
       summaryRows[i].frame = i - 1 /\ summaryRows[i].image = windows[i][2]

(* The depth images are logged one by one, each before the next frame is   *)
(* begun, and landmarks are stamped with the last of them.                 *)
DepthInv ==
  /\ Len(depthRows) + Ahead({"logDepth"}) = depth
  /\ \A j \in DOMAIN depthRows :
       depthRows[j].image = j /\ depthRows[j].frame <= frameId
  /\ latestDepth # None => latestDepth = depth
  /\ At \in AfterUpdate /\ stampedWith # None => stampedWith = depth
  /\ DepthRowsExplainLandmarks

InterfaceInv == TypeOK /\ ControlInv /\ Lockstep /\ FrameInv /\ DepthInv

(* The sets of steps are constant and expanded throughout.                 *)
USE DEF AfterPose, AfterRest, AfterTime, AfterObserve, AfterExtract,
        AfterUpdate, BeforeExtract, CallbackStep, RgbStep, ShutdownStep

-----------------------------------------------------------------------------
(* Types.                                                                  *)

(* A sequence over a set is one over every larger set.                     *)
LEMMA StaysIn ==
  ASSUME NEW S, NEW T, S \subseteq T, NEW s \in Seq(S)
  PROVE  s \in Seq(T)
BY SeqMonotonic

(* What is typed by the images dispatched so far stays so when one more    *)
(* is.                                                                     *)
LEMMA TypesGrow ==
  ASSUME TypeOK, image' \in Nat, image' >= image, depth' \in Nat, depth' >= depth
  PROVE  /\ windows \in Seq(OptionalImage' \X Image')
         /\ intervals \in Seq(OptionalImage' \X Image')
         /\ diagTime \in Seq(Image')
         /\ summaryRows \in Seq([frame : Nat, image : Image'])
         /\ landmarkRows \in
              Seq([frame : Nat, image : Image',
                   depth : (1 .. depth') \cup {None}])
         /\ depthRows \in Seq([frame : Nat, image : 1 .. depth'])
         /\ {prevImage, prevFrame} \subseteq OptionalImage'
         /\ {latestDepth, stampedWith} \subseteq (1 .. depth') \cup {None}
<1>1. image \in Nat /\ depth \in Nat
  BY InterfaceAssumption DEF TypeOK
<1>2. /\ Image \subseteq Image' /\ OptionalImage \subseteq OptionalImage'
      /\ 1 .. depth \subseteq 1 .. depth'
  BY <1>1 DEF Image, OptionalImage
<1>3. /\ OptionalImage \X Image \subseteq OptionalImage' \X Image'
      /\ [frame : Nat, image : Image] \subseteq [frame : Nat, image : Image']
      /\ [frame : Nat, image : Image, depth : (1 .. depth) \cup {None}] \subseteq
           [frame : Nat, image : Image', depth : (1 .. depth') \cup {None}]
      /\ [frame : Nat, image : 1 .. depth] \subseteq
           [frame : Nat, image : 1 .. depth']
  BY <1>2
<1>4. /\ windows \in Seq(OptionalImage' \X Image')
      /\ intervals \in Seq(OptionalImage' \X Image')
  BY <1>3, SeqMonotonic DEF TypeOK
<1>5. diagTime \in Seq(Image')
  BY <1>2, SeqMonotonic DEF TypeOK
<1>6. summaryRows \in Seq([frame : Nat, image : Image'])
  <2>1. summaryRows \in Seq([frame : Nat, image : Image])
    BY DEF TypeOK
  <2>2. QED
    BY ONLY <1>3, <2>1, StaysIn
<1>7. landmarkRows \in
        Seq([frame : Nat, image : Image',
             depth : (1 .. depth') \cup {None}])
  <2>1. landmarkRows \in
          Seq([frame : Nat, image : Image, depth : (1 .. depth) \cup {None}])
    BY DEF TypeOK
  <2>2. QED
    BY ONLY <1>3, <2>1, StaysIn
<1>8. depthRows \in Seq([frame : Nat, image : 1 .. depth'])
  <2>1. depthRows \in Seq([frame : Nat, image : 1 .. depth])
    BY DEF TypeOK
  <2>2. QED
    BY ONLY <1>3, <2>1, StaysIn
<1>9. QED
  BY <1>2, <1>4, <1>5, <1>6, <1>7, <1>8 DEF TypeOK

(* A frame that was begun is about an image that was dispatched, and there *)
(* are no more frames than images.                                         *)
LEMMA FrameBegun ==
  ASSUME TypeOK, Lockstep, At \in BeforeExtract \cup AfterExtract
  PROVE  image \in Image /\ frameId \in Nat /\ frameId + 1 \in 0 .. MaxImages
<1>1. /\ image \in Nat /\ image <= MaxImages /\ MaxImages \in Nat
      /\ frameId \in Nat /\ Len(windows) \in Nat
  BY InterfaceAssumption DEF TypeOK
<1>2. frameId + 1 <= image
  BY <1>1 DEF Lockstep, Ahead
<1>3. QED
  BY <1>1, <1>2 DEF Image

(* Appending keeps what was there.                                         *)
LEMMA AppendFacts ==
  ASSUME NEW S, NEW s \in Seq(S), NEW e \in S
  PROVE  /\ Append(s, e) \in Seq(S)
         /\ Len(Append(s, e)) = Len(s) + 1
         /\ DOMAIN Append(s, e) = 1 .. Len(s) + 1
         /\ Append(s, e)[Len(s) + 1] = e
         /\ \A i \in 1 .. Len(s) : Append(s, e)[i] = s[i]
OBVIOUS

-----------------------------------------------------------------------------
(* Every step preserves the invariant.                                     *)

(* A color image is dispatched.                                            *)
LEMMA RgbArrivesPreserves ==
  ASSUME InterfaceInv, RgbArrives
  PROVE  InterfaceInv'
<1>1. TypeOK /\ ControlInv /\ Lockstep /\ FrameInv /\ DepthInv
  BY DEF InterfaceInv
<1>2. /\ pc = "spin"
      /\ pc' = IF started THEN "track" ELSE "bootstrap"
      /\ image' = image + 1
      /\ image < MaxImages
      /\ UNCHANGED <<depth, started, latestDepth, intrinsics, stampedWith,
                     prevImage, prevFrame, windows, intervals, diagTime,
                     diagRest, diagPose, raisedIn, saved, plotted,
                     released, frameId, summaryRows, landmarkRows,
                     depthRows, closed>>
  BY DEF RgbArrives, Goto, callbackVars, depthVars, intervalVars, diagVars,
         shutdownVars, otherVars, loggerVars
<1>3. TypeOK'
  <2>1. /\ image' \in Nat /\ image' >= image /\ image' \in 0 .. MaxImages
        /\ depth' \in Nat /\ depth' >= depth /\ depth' \in 0 .. MaxDepths
    BY <1>1, <1>2, InterfaceAssumption DEF TypeOK
  <2>2. /\ windows \in Seq(OptionalImage' \X Image')
        /\ intervals \in Seq(OptionalImage' \X Image')
        /\ diagTime \in Seq(Image')
        /\ summaryRows \in Seq([frame : Nat, image : Image'])
        /\ landmarkRows \in
             Seq([frame : Nat, image : Image',
                  depth : (1 .. depth') \cup {None}])
        /\ depthRows \in Seq([frame : Nat, image : 1 .. depth'])
        /\ {prevImage, prevFrame} \subseteq OptionalImage'
        /\ {latestDepth, stampedWith} \subseteq (1 .. depth') \cup {None}
    BY <1>1, <2>1, TypesGrow
  <2>3. QED
    BY <1>1, <1>2, <2>1, <2>2 DEF TypeOK
<1>4. ControlInv'
  BY <1>1, <1>2, InterfaceAssumption DEF TypeOK, ControlInv
<1>5. Lockstep'
  BY <1>1, <1>2 DEF TypeOK, Lockstep, At, Ahead
<1>6. FrameInv'
  BY <1>1, <1>2 DEF TypeOK, FrameInv, At, Ahead
<1>7. DepthInv'
  BY <1>1, <1>2 DEF TypeOK, DepthInv, DepthRowsExplainLandmarks, At, Ahead
<1>8. QED
  BY <1>3, <1>4, <1>5, <1>6, <1>7 DEF InterfaceInv

(* An image before the first detection.                                    *)
LEMMA BootstrapPreserves ==
  ASSUME InterfaceInv, Bootstrap
  PROVE  InterfaceInv'
<1>1. TypeOK /\ ControlInv /\ Lockstep /\ FrameInv /\ DepthInv
  BY DEF InterfaceInv
<1>2. /\ pc = "bootstrap"
      /\ pc' = "spin"
      /\ started' \in BOOLEAN
      /\ prevImage' = image
      /\ UNCHANGED <<image, depth, latestDepth, intrinsics, stampedWith,
                     prevFrame, windows, intervals, diagTime, diagRest,
                     diagPose, raisedIn, saved, plotted, released, frameId,
                     summaryRows, landmarkRows, depthRows, closed>>
  BY DEF Bootstrap, Goto, callbackVars, depthVars, intervalVars, diagVars,
         shutdownVars, otherVars, loggerVars
<1>3. TypeOK'
  <2>1. image \in Image /\ frameId \in Nat /\ frameId + 1 \in 0 .. MaxImages
    <3>1. At \in BeforeExtract \cup AfterExtract
      BY <1>2 DEF At
    <3>2. QED
      BY <1>1, <3>1, FrameBegun
  <2>2. Image' = Image /\ OptionalImage' = OptionalImage
    BY <1>2 DEF Image, OptionalImage
  <2>3. prevImage' \in OptionalImage'
    BY <1>2, <2>1, <2>2 DEF OptionalImage
  <2>4. QED
    BY <1>1, <1>2, <2>1, <2>2, <2>3 DEF TypeOK
<1>4. ControlInv'
  BY <1>1, <1>2, InterfaceAssumption DEF TypeOK, ControlInv
<1>5. Lockstep'
  BY <1>1, <1>2 DEF TypeOK, Lockstep, At, Ahead
<1>6. FrameInv'
  <2>1. windows = << >> /\ At' \notin AfterExtract
    BY <1>1, <1>2 DEF ControlInv, At
  <2>2. QED
    BY <1>1, <1>2, <2>1 DEF FrameInv
<1>7. DepthInv'
  BY <1>1, <1>2 DEF TypeOK, DepthInv, DepthRowsExplainLandmarks, At, Ahead
<1>8. QED
  BY <1>3, <1>4, <1>5, <1>6, <1>7 DEF InterfaceInv

(* Optical flow.                                                           *)
LEMMA TrackPreserves ==
  ASSUME InterfaceInv, Track
  PROVE  InterfaceInv'
<1>1. TypeOK /\ ControlInv /\ Lockstep /\ FrameInv /\ DepthInv
  BY DEF InterfaceInv
<1>2. /\ pc = "track"
      /\ pc' = "updateDepth"
      /\ UNCHANGED <<image, depth, started, latestDepth, intrinsics,
                     stampedWith, prevImage, prevFrame, windows, intervals,
                     diagTime, diagRest, diagPose, raisedIn, saved,
                     plotted, released, frameId, summaryRows, landmarkRows,
                     depthRows, closed>>
  BY DEF Track, Goto, callbackVars, depthVars, intervalVars, diagVars,
         shutdownVars, otherVars, loggerVars
<1>3. TypeOK'
  BY <1>1, <1>2, InterfaceAssumption DEF TypeOK, Image, OptionalImage
<1>4. ControlInv'
  BY <1>1, <1>2, InterfaceAssumption DEF TypeOK, ControlInv
<1>5. Lockstep'
  BY <1>1, <1>2 DEF TypeOK, Lockstep, At, Ahead
<1>6. FrameInv'
  BY <1>1, <1>2 DEF TypeOK, FrameInv, At, Ahead
<1>7. DepthInv'
  BY <1>1, <1>2 DEF TypeOK, DepthInv, DepthRowsExplainLandmarks, At, Ahead
<1>8. QED
  BY <1>3, <1>4, <1>5, <1>6, <1>7 DEF InterfaceInv

(* Landmarks are stamped with the latest depth image.                      *)
LEMMA UpdateDepthPreserves ==
  ASSUME InterfaceInv, UpdateDepth
  PROVE  InterfaceInv'
<1>1. TypeOK /\ ControlInv /\ Lockstep /\ FrameInv /\ DepthInv
  BY DEF InterfaceInv
<1>2. /\ pc = "updateDepth"
      /\ pc' = "extract"
      /\ stampedWith' \in {latestDepth, None}
      /\ UNCHANGED <<image, depth, started, latestDepth, intrinsics,
                     prevImage, prevFrame, windows, intervals, diagTime,
                     diagRest, diagPose, raisedIn, saved, plotted,
                     released, frameId, summaryRows, landmarkRows,
                     depthRows, closed>>
  BY DEF UpdateDepth, Goto, callbackVars, depthVars, intervalVars, diagVars,
         shutdownVars, otherVars, loggerVars
<1>3. TypeOK'
  BY <1>1, <1>2, InterfaceAssumption DEF TypeOK, Image, OptionalImage
<1>4. ControlInv'
  BY <1>1, <1>2, InterfaceAssumption DEF TypeOK, ControlInv
<1>5. Lockstep'
  BY <1>1, <1>2 DEF TypeOK, Lockstep, At, Ahead
<1>6. FrameInv'
  BY <1>1, <1>2 DEF TypeOK, FrameInv, At, Ahead
<1>7. DepthInv'
  BY <1>1, <1>2 DEF TypeOK, DepthInv, DepthRowsExplainLandmarks, At, Ahead
<1>8. QED
  BY <1>3, <1>4, <1>5, <1>6, <1>7 DEF InterfaceInv

(* A window is extracted.                                                  *)
LEMMA ExtractPreserves ==
  ASSUME InterfaceInv, Extract
  PROVE  InterfaceInv'
<1>1. TypeOK /\ ControlInv /\ Lockstep /\ FrameInv /\ DepthInv
  BY DEF InterfaceInv
<1>2. /\ pc = "extract"
      /\ pc' = "observe"
      /\ windows' = Append(windows, <<prevImage, image>>)
      /\ prevImage' = image
      /\ UNCHANGED <<image, depth, started, latestDepth, intrinsics,
                     stampedWith, prevFrame, intervals, diagTime, diagRest,
                     diagPose, raisedIn, saved, plotted, released, frameId,
                     summaryRows, landmarkRows, depthRows, closed>>
  BY DEF Extract, Goto, callbackVars, depthVars, intervalVars, diagVars,
         shutdownVars, otherVars, loggerVars
<1>3. TypeOK'
  <2>1. image \in Image /\ frameId \in Nat /\ frameId + 1 \in 0 .. MaxImages
    <3>1. At \in BeforeExtract \cup AfterExtract
      BY <1>2 DEF At
    <3>2. QED
      BY <1>1, <3>1, FrameBegun
  <2>2. Image' = Image /\ OptionalImage' = OptionalImage
    BY <1>2 DEF Image, OptionalImage
  <2>3. <<prevImage, image>> \in OptionalImage \X Image
    BY <1>1, <2>1, InterfaceAssumption DEF TypeOK
  <2>4. /\ windows' \in Seq(OptionalImage \X Image)
        /\ Len(windows') = Len(windows) + 1
    BY <1>1, <1>2, <2>3, AppendFacts DEF TypeOK
  <2>5. prevImage' \in OptionalImage
    BY <1>2, <2>1 DEF OptionalImage
  <2>6. QED
    BY <1>1, <1>2, <2>1, <2>2, <2>4, <2>5 DEF TypeOK
<1>4. ControlInv'
  BY <1>1, <1>2, InterfaceAssumption DEF TypeOK, ControlInv
<1>5. Lockstep'
  BY <1>1, <1>2 DEF TypeOK, Lockstep, At, Ahead
<1>6. FrameInv'
  <2> DEFINE n == Len(windows)
  <2>1. /\ n \in Nat /\ DOMAIN windows = 1 .. n
        /\ Len(intervals) = n /\ DOMAIN intervals = 1 .. n
        /\ Len(diagTime) = n /\ DOMAIN diagTime = 1 .. n
        /\ Len(landmarkRows) = n /\ DOMAIN landmarkRows = 1 .. n
        /\ Len(summaryRows) = n /\ DOMAIN summaryRows = 1 .. n
    BY <1>1, <1>2 DEF TypeOK, Lockstep, Ahead, At
  <2>2. <<prevImage, image>> \in OptionalImage \X Image
    <3>1. image \in Image
      BY <1>1, <1>2, FrameBegun DEF At
    <3>2. QED
      BY <1>1, <3>1 DEF TypeOK
  <2>3. /\ Len(windows') = n + 1 /\ DOMAIN windows' = 1 .. n + 1
        /\ windows'[n + 1] = <<prevImage, image>>
        /\ \A i \in 1 .. n : windows'[i] = windows[i]
    BY <1>1, <1>2, <2>2, AppendFacts DEF TypeOK
  <2>4. prevImage # None /\ (n > 0 => windows[n][2] = prevImage)
    BY <1>1, <1>2, <2>1 DEF ControlInv, FrameInv
  <2> HIDE DEF n
  <2>5. ASSUME NEW i \in 1 .. n + 1
        PROVE  /\ windows'[i][1] # None
               /\ i > 1 => windows'[i][1] = windows'[i - 1][2]
    <3>1. CASE i \in 1 .. n
      <4>1. i > 1 => i - 1 \in 1 .. n
        BY <2>1, <3>1
      <4>2. QED
        BY <1>1, <2>1, <2>3, <3>1, <4>1 DEF FrameInv
    <3>2. CASE i = n + 1
      <4>1. i > 1 => n \in 1 .. n /\ n > 0 /\ i - 1 = n
        BY <2>1, <3>2
      <4>2. QED
        BY <2>1, <2>3, <2>4, <3>2, <4>1
    <3>3. QED
      BY <2>1, <3>1, <3>2
  <2>6. windows' # << >> /\ windows'[Len(windows')][2] = prevImage'
    BY <1>2, <2>1, <2>3
  <2>7. prevFrame' = IF intervals' = << >> THEN None
                     ELSE windows'[Len(intervals')][2]
    <3>1. intervals # << >> => n \in 1 .. n
      BY <1>1, <2>1 DEF TypeOK
    <3>2. QED
      BY <1>1, <1>2, <2>1, <2>3, <3>1 DEF FrameInv
  <2>8. \A i \in DOMAIN intervals' : intervals'[i] =
          IF i = 1 THEN <<None, windows'[1][2]>> ELSE windows'[i]
    <3>1. n > 0 => 1 \in 1 .. n
      BY <2>1
    <3>2. QED
      BY <1>1, <1>2, <2>1, <2>3, <3>1 DEF FrameInv
  <2>9. QED
    BY <1>1, <1>2, <2>1, <2>3, <2>5, <2>6, <2>7, <2>8 DEF FrameInv
<1>7. DepthInv'
  BY <1>1, <1>2 DEF TypeOK, DepthInv, DepthRowsExplainLandmarks, At, Ahead
<1>8. QED
  BY <1>3, <1>4, <1>5, <1>6, <1>7 DEF InterfaceInv

(* The observer takes its interval.                                        *)
LEMMA ObservePreserves ==
  ASSUME InterfaceInv, Observe
  PROVE  InterfaceInv'
<1>1. TypeOK /\ ControlInv /\ Lockstep /\ FrameInv /\ DepthInv
  BY DEF InterfaceInv
<1>2. /\ pc = "observe"
      /\ pc' = "diagTime"
      /\ intervals' = Append(intervals, <<prevFrame, image>>)
      /\ prevFrame' = image
      /\ UNCHANGED <<image, depth, started, latestDepth, intrinsics,
                     stampedWith, prevImage, windows, diagTime, diagRest,
                     diagPose, raisedIn, saved, plotted, released, frameId,
                     summaryRows, landmarkRows, depthRows, closed>>
  BY DEF Observe, Goto, callbackVars, depthVars, intervalVars, diagVars,
         shutdownVars, otherVars, loggerVars
<1>3. TypeOK'
  <2>1. image \in Image /\ frameId \in Nat /\ frameId + 1 \in 0 .. MaxImages
    <3>1. At \in BeforeExtract \cup AfterExtract
      BY <1>2 DEF At
    <3>2. QED
      BY <1>1, <3>1, FrameBegun
  <2>2. Image' = Image /\ OptionalImage' = OptionalImage
    BY <1>2 DEF Image, OptionalImage
  <2>3. <<prevFrame, image>> \in OptionalImage \X Image
    BY <1>1, <2>1, InterfaceAssumption DEF TypeOK
  <2>4. /\ intervals' \in Seq(OptionalImage \X Image)
        /\ Len(intervals') = Len(intervals) + 1
    BY <1>1, <1>2, <2>3, AppendFacts DEF TypeOK
  <2>5. prevFrame' \in OptionalImage
    BY <1>2, <2>1 DEF OptionalImage
  <2>6. QED
    BY <1>1, <1>2, <2>1, <2>2, <2>4, <2>5 DEF TypeOK
<1>4. ControlInv'
  BY <1>1, <1>2, InterfaceAssumption DEF TypeOK, ControlInv
<1>5. Lockstep'
  BY <1>1, <1>2 DEF TypeOK, Lockstep, At, Ahead
<1>6. FrameInv'
  <2> DEFINE n == Len(intervals)
  <2>1. /\ n \in Nat /\ DOMAIN intervals = 1 .. n
        /\ Len(windows) = n + 1 /\ DOMAIN windows = 1 .. n + 1
    BY <1>1, <1>2 DEF TypeOK, Lockstep, Ahead, At
  <2>2. /\ image \in Image /\ At \in AfterExtract
        /\ <<prevFrame, image>> \in OptionalImage \X Image
    <3>1. image \in Image /\ At \in AfterExtract
      BY <1>1, <1>2, FrameBegun DEF At
    <3>2. QED
      BY <1>1, <3>1 DEF TypeOK
  <2>3. /\ Len(intervals') = n + 1 /\ DOMAIN intervals' = 1 .. n + 1
        /\ intervals'[n + 1] = <<prevFrame, image>>
        /\ \A i \in 1 .. n : intervals'[i] = intervals[i]
    BY <1>1, <1>2, <2>2, AppendFacts DEF TypeOK
  <2>4. windows[n + 1][2] = image
    BY <1>1, <2>1, <2>2 DEF FrameInv
  <2>5. /\ windows[n + 1] = <<windows[n + 1][1], windows[n + 1][2]>>
        /\ n > 0 => windows[n + 1][1] = windows[n][2]
    <3>1. windows[n + 1] \in OptionalImage \X Image /\ n + 1 \in DOMAIN windows
      BY <1>1, <2>1 DEF TypeOK
    <3>2. QED
      BY <1>1, <2>1, <3>1 DEF FrameInv
  <2>6. prevFrame = IF n = 0 THEN None ELSE windows[n][2]
    BY <1>1, <2>1 DEF FrameInv
  <2> HIDE DEF n
  <2>7. ASSUME NEW i \in 1 .. n + 1
        PROVE  intervals'[i] =
                 IF i = 1 THEN <<None, windows[1][2]>> ELSE windows[i]
    <3>1. CASE i \in 1 .. n
      BY <1>1, <2>1, <2>3, <3>1 DEF FrameInv
    <3>2. CASE i = n + 1
      BY <2>1, <2>3, <2>4, <2>5, <2>6, <3>2
    <3>3. QED
      BY <2>1, <3>1, <3>2
  <2>8. intervals' # << >> /\ prevFrame' = windows'[Len(intervals')][2]
    BY <1>2, <2>1, <2>3, <2>4
  <2>9. QED
    BY <1>1, <1>2, <2>2, <2>3, <2>7, <2>8 DEF FrameInv
<1>7. DepthInv'
  BY <1>1, <1>2 DEF TypeOK, DepthInv, DepthRowsExplainLandmarks, At, Ahead
<1>8. QED
  BY <1>3, <1>4, <1>5, <1>6, <1>7 DEF InterfaceInv

(* The time goes into the diagnostics.                                     *)
LEMMA DiagTimePreserves ==
  ASSUME InterfaceInv, DiagTime
  PROVE  InterfaceInv'
<1>1. TypeOK /\ ControlInv /\ Lockstep /\ FrameInv /\ DepthInv
  BY DEF InterfaceInv
<1>2. /\ pc = "diagTime"
      /\ pc' = "diagRest"
      /\ diagTime' = Append(diagTime, image)
      /\ UNCHANGED <<image, depth, started, latestDepth, intrinsics,
                     stampedWith, prevImage, prevFrame, windows, intervals,
                     diagRest, diagPose, raisedIn, saved, plotted,
                     released, frameId, summaryRows, landmarkRows,
                     depthRows, closed>>
  BY DEF DiagTime, Goto, callbackVars, depthVars, intervalVars, diagVars,
         shutdownVars, otherVars, loggerVars
<1>3. TypeOK'
  <2>1. image \in Image /\ frameId \in Nat /\ frameId + 1 \in 0 .. MaxImages
    <3>1. At \in BeforeExtract \cup AfterExtract
      BY <1>2 DEF At
    <3>2. QED
      BY <1>1, <3>1, FrameBegun
  <2>2. Image' = Image /\ OptionalImage' = OptionalImage
    BY <1>2 DEF Image, OptionalImage
  <2>3. image \in Image
    BY <1>1, <2>1, InterfaceAssumption DEF TypeOK
  <2>4. diagTime' \in Seq(Image) /\ Len(diagTime') = Len(diagTime) + 1
    BY <1>1, <1>2, <2>3, AppendFacts DEF TypeOK
  <2>6. QED
    BY <1>1, <1>2, <2>1, <2>2, <2>4 DEF TypeOK
<1>4. ControlInv'
  BY <1>1, <1>2, InterfaceAssumption DEF TypeOK, ControlInv
<1>5. Lockstep'
  BY <1>1, <1>2 DEF TypeOK, Lockstep, At, Ahead
<1>6. FrameInv'
  <2> DEFINE n == Len(diagTime)
  <2>1. /\ n \in Nat /\ DOMAIN diagTime = 1 .. n
        /\ Len(windows) = n + 1 /\ windows # << >>
    BY <1>1, <1>2 DEF TypeOK, Lockstep, Ahead, At
  <2>2. /\ image \in Image /\ At \in AfterExtract
        /\ image \in Image
    <3>1. image \in Image /\ At \in AfterExtract
      BY <1>1, <1>2, FrameBegun DEF At
    <3>2. QED
      BY <1>1, <3>1 DEF TypeOK
  <2>3. /\ DOMAIN diagTime' = 1 .. n + 1
        /\ diagTime'[n + 1] = image
        /\ \A i \in 1 .. n : diagTime'[i] = diagTime[i]
    BY <1>1, <1>2, <2>2, AppendFacts DEF TypeOK
  <2>4. windows[n + 1][2] = image
    BY <1>1, <2>1, <2>2 DEF FrameInv
  <2> HIDE DEF n
  <2>5. \A i \in DOMAIN diagTime' : diagTime'[i] = windows[i][2]
    <3>1. \A i \in 1 .. n + 1 : i \in 1 .. n \/ i = n + 1
      BY <2>1
    <3>2. QED
      BY <1>1, <2>1, <2>3, <2>4, <3>1 DEF FrameInv
  <2>6. At' \in AfterExtract => At \in AfterExtract
    BY <2>2
  <2>7. QED
    BY <1>1, <1>2, <2>5, <2>6 DEF FrameInv
<1>7. DepthInv'
  BY <1>1, <1>2 DEF TypeOK, DepthInv, DepthRowsExplainLandmarks, At, Ahead
<1>8. QED
  BY <1>3, <1>4, <1>5, <1>6, <1>7 DEF InterfaceInv

(* The lists in between.                                                   *)
LEMMA DiagRestPreserves ==
  ASSUME InterfaceInv, DiagRest
  PROVE  InterfaceInv'
<1>1. TypeOK /\ ControlInv /\ Lockstep /\ FrameInv /\ DepthInv
  BY DEF InterfaceInv
<1>2. /\ pc = "diagRest"
      /\ pc' = "diagPose"
      /\ diagRest' = diagRest + 1
      /\ UNCHANGED <<image, depth, started, latestDepth, intrinsics,
                     stampedWith, prevImage, prevFrame, windows, intervals,
                     diagTime, diagPose, raisedIn, saved, plotted,
                     released, frameId, summaryRows, landmarkRows,
                     depthRows, closed>>
  BY DEF DiagRest, Goto, callbackVars, depthVars, intervalVars, diagVars,
         shutdownVars, otherVars, loggerVars
<1>3. TypeOK'
  <2>1. image \in Image /\ frameId \in Nat /\ frameId + 1 \in 0 .. MaxImages
    <3>1. At \in BeforeExtract \cup AfterExtract
      BY <1>2 DEF At
    <3>2. QED
      BY <1>1, <3>1, FrameBegun
  <2>2. Image' = Image /\ OptionalImage' = OptionalImage
    BY <1>2 DEF Image, OptionalImage
  <2>3. diagRest' \in 0 .. MaxImages
    BY <1>1, <1>2, <2>1 DEF Lockstep, Ahead, At
  <2>4. QED
    BY <1>1, <1>2, <2>1, <2>2, <2>3 DEF TypeOK
<1>4. ControlInv'
  BY <1>1, <1>2, InterfaceAssumption DEF TypeOK, ControlInv
<1>5. Lockstep'
  BY <1>1, <1>2 DEF TypeOK, Lockstep, At, Ahead
<1>6. FrameInv'
  BY <1>1, <1>2 DEF TypeOK, FrameInv, At, Ahead
<1>7. DepthInv'
  BY <1>1, <1>2 DEF TypeOK, DepthInv, DepthRowsExplainLandmarks, At, Ahead
<1>8. QED
  BY <1>3, <1>4, <1>5, <1>6, <1>7 DEF InterfaceInv

(* The position goes into the diagnostics.                                 *)
LEMMA DiagPosePreserves ==
  ASSUME InterfaceInv, DiagPose
  PROVE  InterfaceInv'
<1>1. TypeOK /\ ControlInv /\ Lockstep /\ FrameInv /\ DepthInv
  BY DEF InterfaceInv
<1>2. /\ pc = "diagPose"
      /\ pc' = "landmarks"
      /\ diagPose' = diagPose + 1
      /\ UNCHANGED <<image, depth, started, latestDepth, intrinsics,
                     stampedWith, prevImage, prevFrame, windows, intervals,
                     diagTime, diagRest, raisedIn, saved, plotted,
                     released, frameId, summaryRows, landmarkRows,
                     depthRows, closed>>
  BY DEF DiagPose, Goto, callbackVars, depthVars, intervalVars, diagVars,
         shutdownVars, otherVars, loggerVars
<1>3. TypeOK'
  <2>1. image \in Image /\ frameId \in Nat /\ frameId + 1 \in 0 .. MaxImages
    <3>1. At \in BeforeExtract \cup AfterExtract
      BY <1>2 DEF At
    <3>2. QED
      BY <1>1, <3>1, FrameBegun
  <2>2. Image' = Image /\ OptionalImage' = OptionalImage
    BY <1>2 DEF Image, OptionalImage
  <2>3. diagPose' \in 0 .. MaxImages
    BY <1>1, <1>2, <2>1 DEF Lockstep, Ahead, At
  <2>4. QED
    BY <1>1, <1>2, <2>1, <2>2, <2>3 DEF TypeOK
<1>4. ControlInv'
  BY <1>1, <1>2, InterfaceAssumption DEF TypeOK, ControlInv
<1>5. Lockstep'
  BY <1>1, <1>2 DEF TypeOK, Lockstep, At, Ahead
<1>6. FrameInv'
  BY <1>1, <1>2 DEF TypeOK, FrameInv, At, Ahead
<1>7. DepthInv'
  BY <1>1, <1>2 DEF TypeOK, DepthInv, DepthRowsExplainLandmarks, At, Ahead
<1>8. QED
  BY <1>3, <1>4, <1>5, <1>6, <1>7 DEF InterfaceInv

(* The landmark rows are written.                                          *)
LEMMA LandmarksPreserves ==
  ASSUME InterfaceInv, Landmarks
  PROVE  InterfaceInv'
<1>1. TypeOK /\ ControlInv /\ Lockstep /\ FrameInv /\ DepthInv
  BY DEF InterfaceInv
<1>2. /\ pc = "landmarks"
      /\ pc' = "summary"
      /\ landmarkRows' = Append(landmarkRows,
           [frame |-> frameId, image |-> image, depth |-> stampedWith])
      /\ UNCHANGED <<image, depth, started, latestDepth, intrinsics,
                     stampedWith, prevImage, prevFrame, windows, intervals,
                     diagTime, diagRest, diagPose, raisedIn, saved,
                     plotted, released, frameId, summaryRows, depthRows,
                     closed>>
  BY DEF Landmarks, Goto, LogLandmarks, callbackVars, depthVars, intervalVars,
         diagVars, shutdownVars, otherVars, loggerVars
<1>3. TypeOK'
  <2>1. image \in Image /\ frameId \in Nat /\ frameId + 1 \in 0 .. MaxImages
    <3>1. At \in BeforeExtract \cup AfterExtract
      BY <1>2 DEF At
    <3>2. QED
      BY <1>1, <3>1, FrameBegun
  <2>2. Image' = Image /\ OptionalImage' = OptionalImage
    BY <1>2 DEF Image, OptionalImage
  <2>3. [frame |-> frameId, image |-> image, depth |-> stampedWith] \in
          [frame : Nat, image : Image, depth : (1 .. depth) \cup {None}]
    BY <1>1, <2>1, InterfaceAssumption DEF TypeOK
  <2>4. /\ landmarkRows' \in
             Seq([frame : Nat, image : Image, depth : (1 .. depth) \cup {None}])
        /\ Len(landmarkRows') = Len(landmarkRows) + 1
    BY <1>1, <1>2, <2>3, AppendFacts DEF TypeOK
  <2>6. QED
    BY <1>1, <1>2, <2>1, <2>2, <2>4 DEF TypeOK
<1>4. ControlInv'
  BY <1>1, <1>2, InterfaceAssumption DEF TypeOK, ControlInv
<1>5. Lockstep'
  BY <1>1, <1>2 DEF TypeOK, Lockstep, At, Ahead
<1>6. FrameInv'
  <2> DEFINE n == Len(landmarkRows)
  <2>1. /\ n \in Nat /\ DOMAIN landmarkRows = 1 .. n /\ frameId = n
        /\ Len(windows) = n + 1 /\ windows # << >>
    BY <1>1, <1>2 DEF TypeOK, Lockstep, Ahead, At
  <2>2. /\ image \in Image /\ At \in AfterExtract
        /\ [frame |-> frameId, image |-> image, depth |-> stampedWith] \in
             [frame : Nat, image : Image, depth : (1 .. depth) \cup {None}]
    <3>1. image \in Image /\ At \in AfterExtract
      BY <1>1, <1>2, FrameBegun DEF At
    <3>2. QED
      BY <1>1, <3>1 DEF TypeOK
  <2>3. /\ DOMAIN landmarkRows' = 1 .. n + 1
        /\ landmarkRows'[n + 1] = [frame |-> frameId, image |-> image, depth |-> stampedWith]
        /\ \A i \in 1 .. n : landmarkRows'[i] = landmarkRows[i]
    BY <1>1, <1>2, <2>2, AppendFacts DEF TypeOK
  <2>4. windows[n + 1][2] = image
    BY <1>1, <2>1, <2>2 DEF FrameInv
  <2> HIDE DEF n
  <2>5. \A i \in DOMAIN landmarkRows' : 
           landmarkRows'[i].frame = i - 1 /\ landmarkRows'[i].image = windows[i][2]
    <3>1. \A i \in 1 .. n + 1 : i \in 1 .. n \/ i = n + 1
      BY <2>1
    <3>2. QED
      BY <1>1, <2>1, <2>3, <2>4, <3>1 DEF FrameInv
  <2>6. At' \in AfterExtract => At \in AfterExtract
    BY <2>2
  <2>7. QED
    BY <1>1, <1>2, <2>5, <2>6 DEF FrameInv
<1>7. DepthInv'
  <2> DEFINE n == Len(landmarkRows)
             row == [frame |-> frameId, image |-> image, depth |-> stampedWith]
  <2>1. /\ n \in Nat /\ DOMAIN landmarkRows = 1 .. n
        /\ depth \in Nat /\ Len(depthRows) = depth
        /\ DOMAIN depthRows = 1 .. depth
        /\ frameId \in Nat /\ stampedWith \in (1 .. depth) \cup {None}
        /\ stampedWith # None => stampedWith = depth
    BY <1>1, <1>2, InterfaceAssumption DEF TypeOK, Ahead, DepthInv, At
  <2>2. row \in [frame : Nat, image : Image, depth : (1 .. depth) \cup {None}]
    <3>1. image \in Image
      BY <1>1, <1>2, FrameBegun DEF At
    <3>2. QED
      BY <2>1, <3>1
  <2>3. /\ DOMAIN landmarkRows' = 1 .. n + 1
        /\ landmarkRows'[n + 1] = row
        /\ \A i \in 1 .. n : landmarkRows'[i] = landmarkRows[i]
    BY <1>1, <1>2, <2>2, AppendFacts DEF TypeOK
  <2>4. row.frame = frameId /\ row.depth = stampedWith
    OBVIOUS
  <2> HIDE DEF n, row
  <2>5. DepthRowsExplainLandmarks'
    <3> SUFFICES ASSUME NEW i \in 1 .. n + 1, landmarkRows'[i].depth # None
                 PROVE  \E j \in DOMAIN depthRows :
                          /\ depthRows[j].image = landmarkRows'[i].depth
                          /\ depthRows[j].frame <= landmarkRows'[i].frame
                          /\ \A k \in DOMAIN depthRows :
                               k > j => depthRows[k].frame > landmarkRows'[i].frame
      BY <1>2, <2>3 DEF DepthRowsExplainLandmarks
    <3>1. CASE i \in 1 .. n
      BY <1>1, <2>1, <2>3, <3>1 DEF DepthInv, DepthRowsExplainLandmarks
    <3>2. CASE i = n + 1
      <4>1. depth \in 1 .. depth /\ landmarkRows'[i].depth = depth
            /\ landmarkRows'[i].frame = frameId
        BY <2>1, <2>3, <2>4, <3>2
      <4>2. depthRows[depth].image = depth /\ depthRows[depth].frame <= frameId
        BY <1>1, <2>1, <4>1 DEF DepthInv
      <4>3. \A k \in 1 .. depth : ~(k > depth)
        BY <2>1
      <4>4. QED
        BY <2>1, <4>1, <4>2, <4>3
    <3>3. QED
      BY <2>1, <3>1, <3>2
  <2>6. QED
    BY <1>1, <1>2, <2>1, <2>5 DEF DepthInv, At, Ahead
<1>8. QED
  BY <1>3, <1>4, <1>5, <1>6, <1>7 DEF InterfaceInv

(* The summary row is written and the frame counter moves on.              *)
LEMMA SummaryPreserves ==
  ASSUME InterfaceInv, Summary
  PROVE  InterfaceInv'
<1>1. TypeOK /\ ControlInv /\ Lockstep /\ FrameInv /\ DepthInv
  BY DEF InterfaceInv
<1>2. /\ pc = "summary"
      /\ pc' = "visualize"
      /\ summaryRows' = Append(summaryRows, [frame |-> frameId, image |-> image])
      /\ frameId' = frameId + 1
      /\ UNCHANGED <<image, depth, started, latestDepth, intrinsics,
                     stampedWith, prevImage, prevFrame, windows, intervals,
                     diagTime, diagRest, diagPose, raisedIn, saved,
                     plotted, released, landmarkRows, depthRows, closed>>
  BY DEF Summary, Goto, LogFrameSummary, callbackVars, depthVars,
         intervalVars, diagVars, shutdownVars, otherVars, loggerVars
<1>3. TypeOK'
  <2>1. image \in Image /\ frameId \in Nat /\ frameId + 1 \in 0 .. MaxImages
    <3>1. At \in BeforeExtract \cup AfterExtract
      BY <1>2 DEF At
    <3>2. QED
      BY <1>1, <3>1, FrameBegun
  <2>2. Image' = Image /\ OptionalImage' = OptionalImage
    BY <1>2 DEF Image, OptionalImage
  <2>3. [frame |-> frameId, image |-> image] \in [frame : Nat, image : Image]
    BY <1>1, <2>1, InterfaceAssumption DEF TypeOK
  <2>4. /\ summaryRows' \in Seq([frame : Nat, image : Image])
        /\ Len(summaryRows') = Len(summaryRows) + 1
    BY <1>1, <1>2, <2>3, AppendFacts DEF TypeOK
  <2>6. QED
    BY <1>1, <1>2, <2>1, <2>2, <2>4 DEF TypeOK
<1>4. ControlInv'
  BY <1>1, <1>2, InterfaceAssumption DEF TypeOK, ControlInv
<1>5. Lockstep'
  BY <1>1, <1>2 DEF TypeOK, Lockstep, At, Ahead
<1>6. FrameInv'
  <2> DEFINE n == Len(summaryRows)
  <2>1. /\ n \in Nat /\ DOMAIN summaryRows = 1 .. n /\ frameId = n
        /\ Len(windows) = n + 1 /\ windows # << >>
    BY <1>1, <1>2 DEF TypeOK, Lockstep, Ahead, At
  <2>2. /\ image \in Image /\ At \in AfterExtract
        /\ [frame |-> frameId, image |-> image] \in [frame : Nat, image : Image]
    <3>1. image \in Image /\ At \in AfterExtract
      BY <1>1, <1>2, FrameBegun DEF At
    <3>2. QED
      BY <1>1, <3>1 DEF TypeOK
  <2>3. /\ DOMAIN summaryRows' = 1 .. n + 1
        /\ summaryRows'[n + 1] = [frame |-> frameId, image |-> image]
        /\ \A i \in 1 .. n : summaryRows'[i] = summaryRows[i]
    BY <1>1, <1>2, <2>2, AppendFacts DEF TypeOK
  <2>4. windows[n + 1][2] = image
    BY <1>1, <2>1, <2>2 DEF FrameInv
  <2> HIDE DEF n
  <2>5. \A i \in DOMAIN summaryRows' : 
           summaryRows'[i].frame = i - 1 /\ summaryRows'[i].image = windows[i][2]
    <3>1. \A i \in 1 .. n + 1 : i \in 1 .. n \/ i = n + 1
      BY <2>1
    <3>2. QED
      BY <1>1, <2>1, <2>3, <2>4, <3>1 DEF FrameInv
  <2>6. At' \in AfterExtract => At \in AfterExtract
    BY <2>2
  <2>7. QED
    BY <1>1, <1>2, <2>5, <2>6 DEF FrameInv
<1>7. DepthInv'
  <2>1. /\ frameId \in Nat
        /\ \A j \in DOMAIN depthRows : depthRows[j].frame \in Nat
    <3>1. ASSUME NEW j \in DOMAIN depthRows
          PROVE  depthRows[j] \in [frame : Nat, image : 1 .. depth]
      <4>1. depthRows \in Seq([frame : Nat, image : 1 .. depth])
        BY <1>1 DEF TypeOK
      <4>2. j \in 1 .. Len(depthRows)
        BY <4>1
      <4>3. QED
        BY ONLY <4>1, <4>2, ElementOfSeq
    <3>2. QED
      BY <1>1, <3>1 DEF TypeOK
  <2>2. QED
    BY <1>1, <1>2, <2>1 DEF DepthInv, DepthRowsExplainLandmarks, Ahead, At
<1>8. QED
  BY <1>3, <1>4, <1>5, <1>6, <1>7 DEF InterfaceInv

(* The callback returns.                                                   *)
LEMMA VisualizePreserves ==
  ASSUME InterfaceInv, Visualize
  PROVE  InterfaceInv'
<1>1. TypeOK /\ ControlInv /\ Lockstep /\ FrameInv /\ DepthInv
  BY DEF InterfaceInv
<1>2. /\ pc = "visualize"
      /\ pc' = "spin"
      /\ UNCHANGED <<image, depth, started, latestDepth, intrinsics,
                     stampedWith, prevImage, prevFrame, windows, intervals,
                     diagTime, diagRest, diagPose, raisedIn, saved,
                     plotted, released, frameId, summaryRows, landmarkRows,
                     depthRows, closed>>
  BY DEF Visualize, Goto, callbackVars, depthVars, intervalVars, diagVars,
         shutdownVars, otherVars, loggerVars
<1>3. TypeOK'
  BY <1>1, <1>2, InterfaceAssumption DEF TypeOK, Image, OptionalImage
<1>4. ControlInv'
  BY <1>1, <1>2, InterfaceAssumption DEF TypeOK, ControlInv
<1>5. Lockstep'
  BY <1>1, <1>2 DEF TypeOK, Lockstep, At, Ahead
<1>6. FrameInv'
  BY <1>1, <1>2 DEF TypeOK, FrameInv, At, Ahead
<1>7. DepthInv'
  BY <1>1, <1>2 DEF TypeOK, DepthInv, DepthRowsExplainLandmarks, At, Ahead
<1>8. QED
  BY <1>3, <1>4, <1>5, <1>6, <1>7 DEF InterfaceInv

(* A depth image is dispatched.                                            *)
LEMMA DepthArrivesPreserves ==
  ASSUME InterfaceInv, DepthArrives
  PROVE  InterfaceInv'
<1>1. TypeOK /\ ControlInv /\ Lockstep /\ FrameInv /\ DepthInv
  BY DEF InterfaceInv
<1>2. /\ pc = "spin"
      /\ pc' = "logDepth"
      /\ depth' = depth + 1
      /\ latestDepth' = depth'
      /\ depth < MaxDepths
      /\ UNCHANGED <<image, started, intrinsics, stampedWith, prevImage,
                     prevFrame, windows, intervals, diagTime, diagRest,
                     diagPose, raisedIn, saved, plotted, released, frameId,
                     summaryRows, landmarkRows, depthRows, closed>>
  BY DEF DepthArrives, Goto, callbackVars, depthVars, intervalVars, diagVars,
         shutdownVars, otherVars, loggerVars
<1>3. TypeOK'
  <2>1. /\ image' \in Nat /\ image' >= image /\ image' \in 0 .. MaxImages
        /\ depth' \in Nat /\ depth' >= depth /\ depth' \in 0 .. MaxDepths
    BY <1>1, <1>2, InterfaceAssumption DEF TypeOK
  <2>2. /\ windows \in Seq(OptionalImage' \X Image')
        /\ intervals \in Seq(OptionalImage' \X Image')
        /\ diagTime \in Seq(Image')
        /\ summaryRows \in Seq([frame : Nat, image : Image'])
        /\ landmarkRows \in
             Seq([frame : Nat, image : Image',
                  depth : (1 .. depth') \cup {None}])
        /\ depthRows \in Seq([frame : Nat, image : 1 .. depth'])
        /\ {prevImage, prevFrame} \subseteq OptionalImage'
        /\ {latestDepth, stampedWith} \subseteq (1 .. depth') \cup {None}
    BY <1>1, <2>1, TypesGrow
  <2>3. latestDepth' \in 1 .. depth'
    BY <1>1, <1>2, <2>1, InterfaceAssumption DEF TypeOK
  <2>4. QED
    BY <1>1, <1>2, <2>1, <2>2, <2>3 DEF TypeOK
<1>4. ControlInv'
  BY <1>1, <1>2, InterfaceAssumption DEF TypeOK, ControlInv
<1>5. Lockstep'
  BY <1>1, <1>2 DEF TypeOK, Lockstep, At, Ahead
<1>6. FrameInv'
  BY <1>1, <1>2 DEF TypeOK, FrameInv, At, Ahead
<1>7. DepthInv'
  <2>1. depth \in Nat /\ Len(depthRows) = depth
    BY <1>1, <1>2, InterfaceAssumption DEF TypeOK, DepthInv, At, Ahead
  <2>2. /\ Len(depthRows') + Ahead({"logDepth"})' = depth'
        /\ At' \notin AfterUpdate
    BY <1>2, <2>1 DEF Ahead, At
  <2>3. QED
    BY <1>1, <1>2, <2>2 DEF DepthInv, DepthRowsExplainLandmarks
<1>8. QED
  BY <1>3, <1>4, <1>5, <1>6, <1>7 DEF InterfaceInv

(* Its row is written.                                                     *)
LEMMA LogDepthPreserves ==
  ASSUME InterfaceInv, LogDepth
  PROVE  InterfaceInv'
<1>1. TypeOK /\ ControlInv /\ Lockstep /\ FrameInv /\ DepthInv
  BY DEF InterfaceInv
<1>2. /\ pc = "logDepth"
      /\ pc' = "spin"
      /\ depthRows' = Append(depthRows, [frame |-> frameId, image |-> depth])
      /\ UNCHANGED <<image, depth, started, latestDepth, intrinsics,
                     stampedWith, prevImage, prevFrame, windows, intervals,
                     diagTime, diagRest, diagPose, raisedIn, saved,
                     plotted, released, frameId, summaryRows, landmarkRows,
                     closed>>
  BY DEF LogDepth, Goto, LogDepthFrame, callbackVars, depthVars, intervalVars,
         diagVars, shutdownVars, otherVars, loggerVars
<1>3. TypeOK'
  <2>1. frameId \in Nat /\ depth \in 1 .. depth
    <3>1. depth \in Nat /\ Len(depthRows) \in Nat /\ frameId \in Nat
      BY <1>1, InterfaceAssumption DEF TypeOK
    <3>2. depth = Len(depthRows) + 1
      BY <1>1, <1>2, <3>1 DEF DepthInv, At, Ahead
    <3>3. QED
      BY <3>1, <3>2
  <2>2. Image' = Image /\ OptionalImage' = OptionalImage
    BY <1>2 DEF Image, OptionalImage
  <2>3. [frame |-> frameId, image |-> depth] \in [frame : Nat, image : 1 .. depth]
    BY <2>1
  <2>4. depthRows' \in Seq([frame : Nat, image : 1 .. depth])
    BY <1>1, <1>2, <2>3, AppendFacts DEF TypeOK
  <2>5. QED
    BY <1>1, <1>2, <2>2, <2>4 DEF TypeOK
<1>4. ControlInv'
  BY <1>1, <1>2, InterfaceAssumption DEF TypeOK, ControlInv
<1>5. Lockstep'
  BY <1>1, <1>2 DEF TypeOK, Lockstep, At, Ahead
<1>6. FrameInv'
  BY <1>1, <1>2 DEF TypeOK, FrameInv, At, Ahead
<1>7. DepthInv'
  <2> DEFINE n   == Len(depthRows)
             row == [frame |-> frameId, image |-> depth]
  <2>1. /\ n \in Nat /\ DOMAIN depthRows = 1 .. n /\ depth = n + 1
        /\ frameId \in Nat /\ Len(landmarkRows) = frameId
        /\ DOMAIN landmarkRows = 1 .. frameId
    BY <1>1, <1>2, InterfaceAssumption
       DEF TypeOK, Lockstep, DepthInv, At, Ahead
  <2>2. row \in [frame : Nat, image : 1 .. depth]
    BY <2>1
  <2>3. /\ Len(depthRows') = n + 1 /\ DOMAIN depthRows' = 1 .. n + 1
        /\ depthRows'[n + 1] = row
        /\ \A j \in 1 .. n : depthRows'[j] = depthRows[j]
    BY <1>1, <1>2, <2>2, AppendFacts DEF TypeOK
  <2>4. row.frame = frameId /\ row.image = n + 1
    BY <2>1
  <2> HIDE DEF n, row
  <2>5. \A j \in 1 .. n + 1 : j \in 1 .. n \/ j = n + 1
    BY <2>1
  <2>6. \A j \in DOMAIN depthRows' :
          depthRows'[j].image = j /\ depthRows'[j].frame <= frameId
    BY <1>1, <2>1, <2>3, <2>4, <2>5 DEF DepthInv
  <2>7. DepthRowsExplainLandmarks'
    <3> SUFFICES ASSUME NEW i \in DOMAIN landmarkRows,
                        landmarkRows[i].depth # None
                 PROVE  \E j \in DOMAIN depthRows' :
                          /\ depthRows'[j].image = landmarkRows[i].depth
                          /\ depthRows'[j].frame <= landmarkRows[i].frame
                          /\ \A k \in DOMAIN depthRows' :
                               k > j => depthRows'[k].frame > landmarkRows[i].frame
      BY <1>2 DEF DepthRowsExplainLandmarks
    <3>1. PICK j \in 1 .. n :
            /\ depthRows[j].image = landmarkRows[i].depth
            /\ depthRows[j].frame <= landmarkRows[i].frame
            /\ \A k \in 1 .. n :
                 k > j => depthRows[k].frame > landmarkRows[i].frame
      BY <1>1, <2>1 DEF DepthInv, DepthRowsExplainLandmarks
    <3>2. landmarkRows[i].frame = i - 1 /\ i \in 1 .. frameId
      BY <1>1, <2>1 DEF FrameInv
    <3>3. frameId > landmarkRows[i].frame
      BY <2>1, <3>2
    <3>4. j \in 1 .. n + 1
      BY <2>1
    <3>5. QED
      BY <2>3, <2>4, <2>5, <3>1, <3>3, <3>4
  <2>8. QED
    BY <1>1, <1>2, <2>1, <2>3, <2>6, <2>7 DEF DepthInv, Ahead, At
<1>8. QED
  BY <1>3, <1>4, <1>5, <1>6, <1>7 DEF InterfaceInv

(* The intrinsics are set.                                                 *)
LEMMA CameraInfoPreserves ==
  ASSUME InterfaceInv, CameraInfo
  PROVE  InterfaceInv'
<1>1. TypeOK /\ ControlInv /\ Lockstep /\ FrameInv /\ DepthInv
  BY DEF InterfaceInv
<1>2. /\ pc = "spin"
      /\ intrinsics' = TRUE
      /\ UNCHANGED <<pc, image, depth, started, latestDepth, stampedWith,
                     prevImage, prevFrame, windows, intervals, diagTime,
                     diagRest, diagPose, raisedIn, saved, plotted,
                     released, frameId, summaryRows, landmarkRows,
                     depthRows, closed>>
  BY DEF CameraInfo, callbackVars, depthVars, intervalVars, diagVars,
         shutdownVars, otherVars, loggerVars
<1>3. TypeOK'
  BY <1>1, <1>2, InterfaceAssumption DEF TypeOK, Image, OptionalImage
<1>4. ControlInv'
  BY <1>1, <1>2, InterfaceAssumption DEF TypeOK, ControlInv
<1>5. Lockstep'
  BY <1>1, <1>2 DEF TypeOK, Lockstep, At, Ahead
<1>6. FrameInv'
  BY <1>1, <1>2 DEF TypeOK, FrameInv, At, Ahead
<1>7. DepthInv'
  BY <1>1, <1>2 DEF TypeOK, DepthInv, DepthRowsExplainLandmarks, At, Ahead
<1>8. QED
  BY <1>3, <1>4, <1>5, <1>6, <1>7 DEF InterfaceInv

(* An exception ends the callbacks.                                        *)
LEMMA RaisePreserves ==
  ASSUME InterfaceInv, Raise
  PROVE  InterfaceInv'
<1>1. TypeOK /\ ControlInv /\ Lockstep /\ FrameInv /\ DepthInv
  BY DEF InterfaceInv
<1>2. /\ pc \in CallbackStep \cup {"spin"}
      /\ pc' = "close"
      /\ raisedIn' = pc
      /\ UNCHANGED <<image, depth, started, latestDepth, intrinsics,
                     stampedWith, prevImage, prevFrame, windows, intervals,
                     diagTime, diagRest, diagPose, saved, plotted,
                     released, frameId, summaryRows, landmarkRows,
                     depthRows, closed>>
  BY DEF Raise, callbackVars, depthVars, intervalVars, diagVars, shutdownVars,
         otherVars, loggerVars
<1>3. TypeOK'
  BY <1>1, <1>2, InterfaceAssumption DEF TypeOK, Image, OptionalImage
<1>4. ControlInv'
  BY <1>1, <1>2, InterfaceAssumption DEF TypeOK, ControlInv
<1>5. Lockstep'
  BY <1>1, <1>2 DEF TypeOK, Lockstep, At, Ahead
<1>6. FrameInv'
  BY <1>1, <1>2 DEF TypeOK, FrameInv, At, Ahead
<1>7. DepthInv'
  BY <1>1, <1>2 DEF TypeOK, DepthInv, DepthRowsExplainLandmarks, At, Ahead
<1>8. QED
  BY <1>3, <1>4, <1>5, <1>6, <1>7 DEF InterfaceInv

(* The tables are closed.                                                  *)
LEMMA CloseLoggerPreserves ==
  ASSUME InterfaceInv, CloseLogger
  PROVE  InterfaceInv'
<1>1. TypeOK /\ ControlInv /\ Lockstep /\ FrameInv /\ DepthInv
  BY DEF InterfaceInv
<1>2. /\ pc = "close"
      /\ pc' = "save"
      /\ closed' = TRUE
      /\ UNCHANGED <<image, depth, started, latestDepth, intrinsics,
                     stampedWith, prevImage, prevFrame, windows, intervals,
                     diagTime, diagRest, diagPose, raisedIn, saved,
                     plotted, released, frameId, summaryRows, landmarkRows,
                     depthRows>>
  BY DEF CloseLogger, Goto, Close, callbackVars, depthVars, intervalVars,
         diagVars, shutdownVars, otherVars, loggerVars
<1>3. TypeOK'
  BY <1>1, <1>2, InterfaceAssumption DEF TypeOK, Image, OptionalImage
<1>4. ControlInv'
  BY <1>1, <1>2, InterfaceAssumption DEF TypeOK, ControlInv
<1>5. Lockstep'
  BY <1>1, <1>2 DEF TypeOK, Lockstep, At, Ahead
<1>6. FrameInv'
  BY <1>1, <1>2 DEF TypeOK, FrameInv, At, Ahead
<1>7. DepthInv'
  BY <1>1, <1>2 DEF TypeOK, DepthInv, DepthRowsExplainLandmarks, At, Ahead
<1>8. QED
  BY <1>3, <1>4, <1>5, <1>6, <1>7 DEF InterfaceInv

(* The diagnostics are saved.                                              *)
LEMMA SaveDiagnosticsPreserves ==
  ASSUME InterfaceInv, SaveDiagnostics
  PROVE  InterfaceInv'
<1>1. TypeOK /\ ControlInv /\ Lockstep /\ FrameInv /\ DepthInv
  BY DEF InterfaceInv
<1>2. /\ pc = "save"
      /\ pc' = "plot"
      /\ saved' = TRUE
      /\ UNCHANGED <<image, depth, started, latestDepth, intrinsics,
                     stampedWith, prevImage, prevFrame, windows, intervals,
                     diagTime, diagRest, diagPose, raisedIn, plotted,
                     released, frameId, summaryRows, landmarkRows,
                     depthRows, closed>>
  BY DEF SaveDiagnostics, Goto, callbackVars, depthVars, intervalVars,
         diagVars, shutdownVars, otherVars, loggerVars
<1>3. TypeOK'
  BY <1>1, <1>2, InterfaceAssumption DEF TypeOK, Image, OptionalImage
<1>4. ControlInv'
  BY <1>1, <1>2, InterfaceAssumption DEF TypeOK, ControlInv
<1>5. Lockstep'
  BY <1>1, <1>2 DEF TypeOK, Lockstep, At, Ahead
<1>6. FrameInv'
  BY <1>1, <1>2 DEF TypeOK, FrameInv, At, Ahead
<1>7. DepthInv'
  BY <1>1, <1>2 DEF TypeOK, DepthInv, DepthRowsExplainLandmarks, At, Ahead
<1>8. QED
  BY <1>3, <1>4, <1>5, <1>6, <1>7 DEF InterfaceInv

(* The plot returns or raises.                                             *)
LEMMA PlotDiagnosticsPreserves ==
  ASSUME InterfaceInv, PlotDiagnostics
  PROVE  InterfaceInv'
<1>1. TypeOK /\ ControlInv /\ Lockstep /\ FrameInv /\ DepthInv
  BY DEF InterfaceInv
<1>2. /\ pc = "plot"
      /\ pc' \in {"release", "exited"}
      /\ plotted' \in {plotted, TRUE}
      /\ pc' = "exited" =>
           diagTime # << >> /\ (Len(diagTime) # diagRest \/ ~(diagPose > 0))
      /\ UNCHANGED <<image, depth, started, latestDepth, intrinsics,
                     stampedWith, prevImage, prevFrame, windows, intervals,
                     diagTime, diagRest, diagPose, raisedIn, saved,
                     released, frameId, summaryRows, landmarkRows,
                     depthRows, closed>>
  BY DEF PlotDiagnostics, callbackVars, depthVars, intervalVars, diagVars,
         shutdownVars, otherVars, loggerVars
<1>3. TypeOK'
  BY <1>1, <1>2, InterfaceAssumption DEF TypeOK, Image, OptionalImage
<1>4. ControlInv'
  BY <1>1, <1>2, InterfaceAssumption DEF TypeOK, ControlInv
<1>5. Lockstep'
  BY <1>1, <1>2 DEF TypeOK, Lockstep, At, Ahead
<1>6. FrameInv'
  BY <1>1, <1>2 DEF TypeOK, FrameInv, At, Ahead
<1>7. DepthInv'
  BY <1>1, <1>2 DEF TypeOK, DepthInv, DepthRowsExplainLandmarks, At, Ahead
<1>8. QED
  BY <1>3, <1>4, <1>5, <1>6, <1>7 DEF InterfaceInv

(* The resources are released.                                             *)
LEMMA ReleasePreserves ==
  ASSUME InterfaceInv, Release
  PROVE  InterfaceInv'
<1>1. TypeOK /\ ControlInv /\ Lockstep /\ FrameInv /\ DepthInv
  BY DEF InterfaceInv
<1>2. /\ pc = "release"
      /\ pc' = "exited"
      /\ released' = TRUE
      /\ UNCHANGED <<image, depth, started, latestDepth, intrinsics,
                     stampedWith, prevImage, prevFrame, windows, intervals,
                     diagTime, diagRest, diagPose, raisedIn, saved,
                     plotted, frameId, summaryRows, landmarkRows,
                     depthRows, closed>>
  BY DEF Release, Goto, callbackVars, depthVars, intervalVars, diagVars,
         shutdownVars, otherVars, loggerVars
<1>3. TypeOK'
  BY <1>1, <1>2, InterfaceAssumption DEF TypeOK, Image, OptionalImage
<1>4. ControlInv'
  BY <1>1, <1>2, InterfaceAssumption DEF TypeOK, ControlInv
<1>5. Lockstep'
  BY <1>1, <1>2 DEF TypeOK, Lockstep, At, Ahead
<1>6. FrameInv'
  BY <1>1, <1>2 DEF TypeOK, FrameInv, At, Ahead
<1>7. DepthInv'
  BY <1>1, <1>2 DEF TypeOK, DepthInv, DepthRowsExplainLandmarks, At, Ahead
<1>8. QED
  BY <1>3, <1>4, <1>5, <1>6, <1>7 DEF InterfaceInv

(* Nothing happens.                                                        *)
LEMMA IdlePreserves ==
  ASSUME InterfaceInv, UNCHANGED vars
  PROVE  InterfaceInv'
<1>1. /\ UNCHANGED pc /\ UNCHANGED <<image, started, depth, latestDepth>>
      /\ UNCHANGED <<intrinsics, stampedWith, prevImage, prevFrame, windows>>
      /\ UNCHANGED <<intervals, diagTime, diagRest, diagPose, raisedIn, saved>>
      /\ UNCHANGED <<plotted, released, frameId, summaryRows, landmarkRows>>
      /\ UNCHANGED <<depthRows, closed>>
  BY DEF vars, callbackVars, depthVars, intervalVars, diagVars, shutdownVars,
         loggerVars
<1>2. TypeOK' /\ ControlInv'
  BY <1>1 DEF InterfaceInv, TypeOK, ControlInv, Image, OptionalImage
<1>3. Lockstep' /\ FrameInv'
  BY <1>1 DEF InterfaceInv, Lockstep, FrameInv, At, Ahead
<1>4. DepthInv'
  BY <1>1 DEF InterfaceInv, DepthInv, DepthRowsExplainLandmarks, At, Ahead
<1>5. QED
  BY <1>2, <1>3, <1>4 DEF InterfaceInv

-----------------------------------------------------------------------------
(* The theorems.                                                           *)

(* The interface invariant is inductive.                                   *)
THEOREM InterfaceInvariant == Spec => []InterfaceInv
<1>1. Init => InterfaceInv
  <2> SUFFICES ASSUME Init PROVE InterfaceInv
    OBVIOUS
  <2>1. /\ pc = "spin" /\ image = 0 /\ depth = 0 /\ frameId = 0
        /\ started = FALSE /\ intrinsics = FALSE
        /\ latestDepth = None /\ stampedWith = None
        /\ prevImage = None /\ prevFrame = None /\ raisedIn = None
        /\ windows = << >> /\ intervals = << >> /\ diagTime = << >>
        /\ diagRest = 0 /\ diagPose = 0
        /\ summaryRows = << >> /\ landmarkRows = << >> /\ depthRows = << >>
        /\ saved = FALSE /\ plotted = FALSE /\ released = FALSE /\ closed = FALSE
    BY DEF Init, LoggerInit
  <2>2. TypeOK
    <3>1. /\ windows \in Seq(OptionalImage \X Image)
          /\ intervals \in Seq(OptionalImage \X Image)
          /\ diagTime \in Seq(Image)
          /\ summaryRows \in Seq([frame : Nat, image : Image])
          /\ landmarkRows \in
               Seq([frame : Nat, image : Image, depth : (1 .. depth) \cup {None}])
          /\ depthRows \in Seq([frame : Nat, image : 1 .. depth])
          /\ Len(summaryRows) = 0
      BY <2>1
    <3>2. /\ pc \in CallbackStep \cup ShutdownStep \cup {"spin", "exited"}
          /\ image \in 0 .. MaxImages /\ depth \in 0 .. MaxDepths
          /\ {diagRest, diagPose} \subseteq 0 .. MaxImages
      BY <2>1, InterfaceAssumption
    <3>3. /\ {latestDepth, stampedWith} \subseteq (1 .. depth) \cup {None}
          /\ {prevImage, prevFrame} \subseteq OptionalImage
          /\ raisedIn \in CallbackStep \cup {"spin", None}
      BY <2>1 DEF OptionalImage
    <3>4. /\ started \in BOOLEAN /\ intrinsics \in BOOLEAN
          /\ {saved, plotted, released, closed} \subseteq BOOLEAN
      BY <2>1
    <3>5. QED
      BY <2>1, <3>1, <3>2, <3>3, <3>4 DEF TypeOK
  <2>3. At = "spin"
    BY <2>1 DEF At
  <2>4. ControlInv
    BY <2>1 DEF ControlInv
  <2>5. Lockstep
    BY <2>1, <2>3 DEF Lockstep, Ahead
  <2>6. FrameInv
    BY <2>1, <2>3 DEF FrameInv
  <2>7. DepthInv
    BY <2>1, <2>3 DEF DepthInv, DepthRowsExplainLandmarks, Ahead
  <2>8. QED
    BY <2>2, <2>4, <2>5, <2>6, <2>7 DEF InterfaceInv
<1>2. InterfaceInv /\ [Next]_vars => InterfaceInv'
  <2> SUFFICES ASSUME InterfaceInv, [Next]_vars
               PROVE  InterfaceInv'
    OBVIOUS
  <2>1. CASE RgbCallback
    BY <2>1, RgbArrivesPreserves, BootstrapPreserves, TrackPreserves,
       UpdateDepthPreserves, ExtractPreserves, ObservePreserves,
       DiagTimePreserves, DiagRestPreserves, DiagPosePreserves,
       LandmarksPreserves, SummaryPreserves, VisualizePreserves
       DEF RgbCallback
  <2>2. CASE DepthArrives \/ LogDepth \/ CameraInfo
    BY <2>2, DepthArrivesPreserves, LogDepthPreserves, CameraInfoPreserves
  <2>3. CASE Raise
    BY <2>3, RaisePreserves
  <2>4. CASE Shutdown
    BY <2>4, CloseLoggerPreserves, SaveDiagnosticsPreserves,
       PlotDiagnosticsPreserves, ReleasePreserves DEF Shutdown
  <2>5. CASE Exited \/ UNCHANGED vars
    BY <2>5, IdlePreserves DEF Exited
  <2>6. QED
    BY <2>1, <2>2, <2>3, <2>4, <2>5 DEF Next
<1>3. QED
  BY <1>1, <1>2, PTL DEF Spec

(* Every variable of the node and of its logger keeps its type.            *)
THEOREM InterfaceTypes == Spec => []TypeOK
<1>1. InterfaceInv => TypeOK
  BY DEF InterfaceInv
<1>2. QED
  BY <1>1, InterfaceInvariant, PTL

(* The tables can be joined on frame_id, and with the observer's           *)
(* diagnostics by position, wherever an exception came.                    *)
THEOREM TablesAgree == Spec => []TablesJoin
<1>1. InterfaceInv => TablesJoin
  <2> SUFFICES ASSUME InterfaceInv PROVE TablesJoin
    OBVIOUS
  <2>1. /\ Len(landmarkRows) \in Nat /\ frameId \in Nat
        /\ DOMAIN summaryRows = 1 .. frameId
        /\ DOMAIN landmarkRows = 1 .. Len(landmarkRows)
        /\ DOMAIN diagTime = 1 .. Len(diagTime)
        /\ frameId <= Len(landmarkRows) /\ Len(landmarkRows) <= Len(diagTime)
    BY SMTT(30) DEF InterfaceInv, TypeOK, Lockstep, Ahead
  <2>2. QED
    BY <2>1 DEF InterfaceInv, FrameInv, TablesJoin
<1>2. QED
  BY <1>1, InterfaceInvariant, PTL

(* depth_stats.csv tells which depth image an image's landmarks were       *)
(* stamped with, however the two cameras' images interleave.               *)
THEOREM DepthRowsExplain == Spec => []DepthRowsExplainLandmarks
<1>1. InterfaceInv => DepthRowsExplainLandmarks
  BY DEF InterfaceInv, DepthInv
<1>2. QED
  BY <1>1, InterfaceInvariant, PTL

(* The observer corrects over the very interval whose IMU samples it       *)
(* propagates over.                                                        *)
THEOREM WindowsAndIntervalsAgree == Spec => []WindowsMatchIntervals
<1>1. InterfaceInv => WindowsMatchIntervals
  BY DEF InterfaceInv, FrameInv, WindowsMatchIntervals
<1>2. QED
  BY <1>1, InterfaceInvariant, PTL

(* However the process ends, the tables are closed and the diagnostics are *)
(* saved; the resources are kept only after an exception in the recording  *)
(* of the diagnostics.                                                     *)
THEOREM ExitIsSaved == Spec => []EndsSaved
<1>1. InterfaceInv => EndsSaved
  <2> SUFFICES ASSUME InterfaceInv, pc = "exited"
               PROVE  /\ closed /\ saved
                      /\ released \/ raisedIn \in {"diagRest", "diagPose"}
    BY DEF EndsSaved
  <2>1. closed /\ saved
    BY DEF InterfaceInv, ControlInv
  <2>2. ASSUME ~released
        PROVE  raisedIn \in {"diagRest", "diagPose"}
    <3>1. /\ Len(diagTime) # 0 /\ Len(diagTime) \in Nat /\ frameId \in Nat
          /\ Len(diagTime) # diagRest \/ diagPose = 0
      BY <2>2 DEF InterfaceInv, ControlInv, TypeOK
    <3>2. At = raisedIn
      BY DEF At
    <3>3. QED
      BY <3>1, <3>2 DEF InterfaceInv, Lockstep, Ahead
  <2>3. QED
    BY <2>1, <2>2
<1>2. QED
  BY <1>1, InterfaceInvariant, PTL
=============================================================================
