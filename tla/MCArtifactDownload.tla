-------------------------- MODULE MCArtifactDownload --------------------------
(* Instances of ArtifactDownload for TLC.                                  *)
EXTENDS ArtifactDownload

CONSTANTS u1, good, other, v1, v2, v3

Rp(c, v) == [content |-> c, validator |-> v]

OneSource  == <<u1>>

\* Two nodes of a CDN serve the good content under different validators.
Servable == {Rp(good, v1), Rp(good, v2), Rp(other, v3), Rp(good, NoValidator),
             Rp(other, NoValidator)}

=============================================================================
