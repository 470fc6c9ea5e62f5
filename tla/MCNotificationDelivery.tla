----------------------- MODULE MCNotificationDelivery -----------------------
(* Instances of NotificationDelivery for TLC: rows enough for one insert,   *)
(* one that is rolled back and one more.                                    *)
EXTENDS NotificationDelivery, TLC

MCIds == 1..3
=============================================================================
