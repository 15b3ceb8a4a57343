----------------------------- MODULE MCChatRuns -----------------------------
(* Small instances of ChatRuns for TLC. *)
EXTENDS ChatRuns

\* Every run holds an event of its own, so there are never more runs than events.
ASSUME MaxRuns >= Cardinality(Events)

\* The channel is public; its connection is lost and ready again.
PublicOrLost == {Everybody, {}}
=============================================================================
