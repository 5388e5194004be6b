\* Does the manager ever create two bundles for one epoch counter?
CONSTANTS
  MaxEpoch <- MC_MaxEpoch
  EpochLen <- MC_EpochLen
  SetupOffset <- MC_SetupOffset
  Expiry <- MC_Expiry
  TimeoutHeights <- MC_TimeoutHeights
  MaxHeight <- MC_MaxHeight
  StartHeights <- MC_StartHeights

SPECIFICATION Spec
INVARIANT AtMostOneBundlePerEpoch
