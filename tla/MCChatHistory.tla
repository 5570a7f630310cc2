--------------------------- MODULE MCChatHistory ---------------------------
(* TLC instances of ChatHistory: two or three turns, one document question, *)
(* one reaction.                                                            *)
EXTENDS ChatHistory
=============================================================================
