---------------------------- MODULE MCHelmInstall ----------------------------
(* Instances of HelmInstall; the releases are interchangeable.              *)
EXTENDS HelmInstall, TLC

ReleaseSymmetry == Permutations(Releases)
=============================================================================
