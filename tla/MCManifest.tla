----------------------------- MODULE MCManifest -----------------------------
(* Small instances of Manifest.                                            *)
EXTENDS Manifest

CONSTANTS a, b, x

ThreeContents == {a, b, x}
XBroken == {x}
=============================================================================
