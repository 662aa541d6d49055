---------------------------- MODULE MCGroupVoice ----------------------------
(* Constants of GroupVoice for TLC.  GROUP_MESH_MAX is 5; a smaller value   *)
(* makes a group of three too large for the mesh.                           *)
EXTENDS GroupVoice

All    == {{n, m} : n, m \in Node} \ {{n} : n \in Node}
Starts == {{2, 3}, {1, 2, 3}}
=============================================================================
