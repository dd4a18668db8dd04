----------------------------- MODULE MCChatRuns -----------------------------
(* Two pages of one Team's chat, each on a socket of its own session. *)
EXTENDS ChatRuns
Sessions == [p \in Page |-> <<"s1", "s2">>[p]]
=============================================================================
