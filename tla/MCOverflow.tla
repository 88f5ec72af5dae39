---------------------------- MODULE MCOverflow ----------------------------
(***************************************************************************)
(* NotificationLoop with the history of a downtime: what the server        *)
(* indexed while no process ran, and a store held a watermark to resume    *)
(* from.                                                                   *)
(***************************************************************************)
EXTENDS MCNotificationLoop

VARIABLE waiting   \* History: indexed during a downtime, by a bot that resumed since

OverflowInit == Init /\ waiting = {}

OverflowNext ==
  /\ Next
  /\ waiting' =
       IF NothingRestored THEN {}
       ELSE IF pc \in Down /\ stored # Absent /\ stored.high_water # NoTime
            THEN waiting \cup {n \in Notifs : indexedAt[n] = NoTime /\ indexedAt'[n] # NoTime}
            ELSE waiting

OverflowSpec == OverflowInit /\ [][OverflowNext]_<<vars, waiting>>

(***************************************************************************)
(* "With a store configured, the bot **resumes** from the last processed   *)
(* notification on restart", "no missed notifications across downtime"     *)
(* (bot.rs:222-224).  A bot that resumed fetches only one page; what was   *)
(* indexed while it was down and does not fit is passed over for good.     *)
(***************************************************************************)
ResumeMissesNothing == [][(missed' \ missed) \cap waiting = {}]_<<vars, waiting>>

============================================================================
