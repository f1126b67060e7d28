--------------------------- MODULE MCConversation ----------------------------
(***************************************************************************)
(* Short calls: the bounds are in the configurations.                      *)
(***************************************************************************)
EXTENDS Conversation
=============================================================================
