---------------------------- MODULE MCUpdateLoop ----------------------------
(* Instances of UpdateLoop for TLC.                                         *)
EXTENDS UpdateLoop

(* The second update is no command; the last reply can never be sent.       *)
MCCommands == Updates \ {2}

MCUnsendable == {MaxUpdates}
=============================================================================
