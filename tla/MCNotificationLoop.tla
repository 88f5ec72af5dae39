------------------------ MODULE MCNotificationLoop ------------------------
(***************************************************************************)
(* NotificationLoop for TLC.  Notifications are interchangeable, so the    *)
(* safety runs are checked up to their permutation.                        *)
(***************************************************************************)
EXTENDS NotificationLoop, TLC

Symmetry == Permutations(Notifs)

============================================================================
