--------------------------- MODULE MCAssetMonitoring ---------------------------
(* AssetMonitoring for two assets and two sessions at a time. *)
EXTENDS AssetMonitoring

\* At the edge of the window and just outside it.
OffsetValue == {1, 2}
=============================================================================
