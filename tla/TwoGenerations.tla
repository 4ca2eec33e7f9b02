--------------------------- MODULE TwoGenerations ---------------------------
(* What an installation promises about replacing its own binary, apart from  *)
(* files, locks and crashes (docs/unified-design.md, section 6.3): a          *)
(* replacement is announced before it is made, only the announced image is    *)
(* ever installed, a replacement that is not yet proven blocks every other    *)
(* one except the way back, and its outcome is decided at most once until     *)
(* somebody asks again.                                                       *)
EXTENDS Naturals

CONSTANTS
  Images,     \* the binaries there are
  NoImage     \* no binary installed

VARIABLES
  bin,        \* the installed image
  announced   \* NoImage, or what the last announcement says

Init ==
  /\ bin \in Images \cup {NoImage}
  /\ announced = NoImage

Settled ==
  \/ announced = NoImage
  \/ announced /= NoImage /\ announced.outcome = "activated"

(* A replacement is announced: nothing is outstanding, or it is the same     *)
(* replacement again, or it leads back to the image it came from.             *)
Announce(image) ==
  /\ image /= bin
  /\ \/ Settled
     \/ announced /= NoImage /\ image \in {announced.target, announced.previous}
  /\ announced' = [target |-> image, previous |-> bin, outcome |-> "pending"]
  /\ UNCHANGED bin

(* Only the image that was announced is installed, while it is pending.      *)
Switch ==
  /\ announced /= NoImage
  /\ announced.outcome = "pending"
  /\ bin' = announced.target
  /\ UNCHANGED announced

Decide(outcome) ==
  /\ announced /= NoImage
  /\ announced.outcome /= "activated"
  /\ announced' = [announced EXCEPT !.outcome = outcome]
  /\ UNCHANGED bin

Next ==
  \/ \E image \in Images : Announce(image)
  \/ Switch
  \/ \E outcome \in {"activated", "failed"} : Decide(outcome)

Spec == Init /\ [][Next]_<<bin, announced>>
=============================================================================
