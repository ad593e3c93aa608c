---------------------------- MODULE MCChatAdapter ----------------------------
(* Three inputs of one user, a call of a high-risk tool and two presses on it. *)
EXTENDS ChatAdapter

==============================================================================
