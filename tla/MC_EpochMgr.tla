----------------------------- MODULE MC_EpochMgr -----------------------------
(* Model-checking instance of EpochMgr: three epochs of four heights, a    *)
(* transaction expiry of two heights and timed waits that last at most one *)
(* height, the proportions of the defaults (600 blocks of expiry, one-     *)
(* minute timeouts at about one block per second, epochs far longer).      *)
EXTENDS EpochMgr

MC_MaxEpoch == 2
MC_EpochLen == 4
MC_SetupOffset == 2
MC_Expiry == 2
MC_TimeoutHeights == 1
\* the last stop (of epoch MaxEpoch - 1) is due at this height
MC_MaxHeight == MC_MaxEpoch * MC_EpochLen + MC_Expiry
\* (re)starts in epoch 0, in its setup phase, and at the first block of epoch 1
MC_StartHeights == 0..MC_EpochLen
=============================================================================
