-------------------------- MODULE MCMediaDownload ---------------------------
(* Two assets, which may show the same image, and two slots.                 *)
EXTENDS MediaDownload, TLC
CONSTANTS w1, w2, a1, a2, i1, i2
TwoWorkers == {w1, w2}
TwoAssets == {a1, a2}
TwoImages == {i1, i2}
=============================================================================
