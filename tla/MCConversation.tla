--------------------------- MODULE MCConversation ---------------------------
(***************************************************************************)
(* Conversation with the programs of the repository.                       *)
(***************************************************************************)
EXTENDS Conversation, SyncPrograms
==============================================================================
