---------------------------- MODULE MCADBManager ----------------------------
(* A ring of two keys and reports of three bits: three inputs fill the ring,  *)
(* wrap it, clamp a report and interleave both Shift keys.                    *)
EXTENDS ADBManager

Letters == {"A", "Esc"}
ShiftKeys == {"LeftShift", "RightShift"}
LockKeys == {"CapsLock"}
Motions == {-3, 2}
=============================================================================
