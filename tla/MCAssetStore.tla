---------------------------- MODULE MCAssetStore ----------------------------
(* One host, an installed revision and an upgrade, prepared in any order. *)
EXTENDS AssetStore
=============================================================================
