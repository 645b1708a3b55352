-------------------------- MODULE MCLandmarkManager --------------------------
(* Model-checking instance of LandmarkManager: two image regions too far   *)
(* apart for a re-identification, and one outside the image, near both,    *)
(* that points may drift to.                                               *)
EXTENDS LandmarkManager, TLC

CONSTANTS left, right, outside

MCPixel == {left, right, outside}
MCVisible == {left, right}
MCNear == (MCPixel \X MCPixel) \ {<<left, right>>, <<right, left>>}
=============================================================================
