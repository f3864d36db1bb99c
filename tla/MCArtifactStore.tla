--------------------------- MODULE MCArtifactStore ---------------------------
(***************************************************************************)
(* A small instance of ArtifactStore: two artifacts of two tests, one      *)
(* registered alone, both together, and one twice in a request with two    *)
(* sizes.                                                                  *)
(***************************************************************************)
EXTENDS ArtifactStore

CONSTANTS trace, video, t1, t2

Want(i, n) == [ident |-> i, size |-> n]
MixedPayloads == {<<Want(video, 2)>>, <<Want(trace, 1), Want(video, 1)>>,
                  <<Want(trace, 2), Want(trace, 1)>>}
OneEach == [i \in Idents |-> IF i = trace THEN t1 ELSE t2]
=============================================================================
