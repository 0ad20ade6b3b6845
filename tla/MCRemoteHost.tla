---------------------------- MODULE MCRemoteHost ----------------------------
(* RemoteHost for model checking. *)
EXTENDS RemoteHost, TLC

\* Approvals are interchangeable.
Symmetric == Permutations(Approvers)
=============================================================================
