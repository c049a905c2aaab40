---------------------------- MODULE MCSettingsDraft ----------------------------
(* SettingsDraft with two settings on the form, one of which has a row too. *)
EXTENDS SettingsDraft
CONSTANTS limit, theme, low, high, broken, w1, w2
=============================================================================
