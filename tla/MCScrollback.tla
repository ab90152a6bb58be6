---------------------------- MODULE MCScrollback ----------------------------
(* Scrollback for TLC. *)
EXTENDS Scrollback

TwoLimits == {2, 3}
OneLimit == {2}
=============================================================================
