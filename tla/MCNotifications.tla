---------------------------- MODULE MCNotifications ----------------------------
(* A finite instance of Notifications: "ann" has two connections.            *)
EXTENDS Notifications, TLC

CONSTANTS ann, c1, c2, r1, r2

MCOwner == [c \in Clients |-> ann]

\* Hub and connections do not tell the kinds of calls apart: one notification is
\* created, and all others calls mark everything read.
FewKinds ==
    /\ request[r1] # Idle => request[r1].kind # "notification.read"
    /\ request[r2] # Idle => request[r2].kind = "notifications.read_all"
===============================================================================
