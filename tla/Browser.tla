------------------------------- MODULE Browser -------------------------------
(* What the modules of the pages share: the undefined of JavaScript, for a   *)
(* variable that was never set, an entry that is not there, an answer that   *)
(* did not come.                                                             *)
CONSTANT None
=============================================================================
