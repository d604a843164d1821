----------------------------- MODULE MCKeyboard -----------------------------
(* A page of three keys whose size field has a low byte of one bit: what    *)
(* the memset over it leaves of a full size is not zero, as with the real   *)
(* 4094 and 2^8.  Both shift keys.                                          *)
EXTENDS Keyboard, TLC

CONSTANTS left, right, leftUp, rightUp

MCBreakOf == left :> leftUp @@ right :> rightUp
=============================================================================
