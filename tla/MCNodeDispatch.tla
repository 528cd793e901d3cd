---------------------------- MODULE MCNodeDispatch ----------------------------
(* NodeDispatch on a node of either kind.                                    *)
EXTENDS NodeDispatch

\* A node that was restarted reports no load.
NoLoad == {Fresh}
=============================================================================
