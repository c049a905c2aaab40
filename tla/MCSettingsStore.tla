---------------------------- MODULE MCSettingsStore ----------------------------
(* SettingsStore with two users and one setting of two values. *)
EXTENDS SettingsStore
CONSTANTS alice, bob, none, theme, dark, light, l1, l2, w1, w2
=============================================================================
