----------------------------- MODULE AtomicInstall -----------------------------
(***************************************************************************)
(* What an in-place update promises (Install of internal/update, cfupdate  *)
(* and dflyupdate): at every moment there is one image to run or to restore*)
(* by hand, it is a published release, and an install replaces it in one   *)
(* step; an orderly installer never by an older release.                   *)
(***************************************************************************)
EXTENDS Integers

VARIABLES
  image,    (* version of the image in place, or to be restored            *)
  latest,   (* latest published release                                    *)
  orderly   (* installs exclude each other and stop at the first failure   *)

AIVars == <<image, latest, orderly>>

AIInit == latest = 1 /\ image \in 0..1 /\ orderly \in BOOLEAN

Publish == latest' = latest + 1 /\ UNCHANGED <<image, orderly>>
Replace == /\ image' \in 1..latest
           /\ orderly => image' >= image
           /\ UNCHANGED <<latest, orderly>>

AISpec == AIInit /\ [][Publish \/ Replace]_AIVars
=============================================================================
