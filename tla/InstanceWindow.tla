----------------------------- MODULE InstanceWindow -----------------------------
(***************************************************************************)
(* rotateInstanceWindow: which of the instances, sorted by age, a dangling *)
(* check looks at.  Time is the number of whole check intervals the clock  *)
(* shows (now / checkInterval).                                            *)
(*                                                                         *)
(* Definitions named for a mistake (OffsetPastWindow) are slips the checks *)
(* are shown to notice; nothing else uses them.                            *)
(***************************************************************************)
EXTENDS Integers

(* The window moves on by its own size every interval, around the list.    *)
OffsetPastWindow(slot, size, total) == (slot * total) % total

Offset(slot, size, total) == (slot * size) % total

WindowOneTooMany(slot, size, total) ==
  IF size <= 0 \/ total <= size
  THEN 0..(total - 1)
  ELSE { (Offset(slot, size, total) + i) % total : i \in 0..size }

(* The positions in the list, from 0, that the window covers: all when     *)
(* there is no limit or the list fits.                                     *)
Window(slot, size, total) ==
  IF size <= 0 \/ total <= size
  THEN 0..(total - 1)
  ELSE { (Offset(slot, size, total) + i) % total : i \in 0..(size - 1) }

=============================================================================
