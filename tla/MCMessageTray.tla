--------------------------- MODULE MCMessageTray ---------------------------
(* Mail sends two kinds of notification, the shell one as feedback.         *)
EXTENDS MessageTray, TLC

CONSTANTS mail, chat, usb, apps, shell

MCSourceOf2 == [n \in {mail, chat} |-> apps]
\* In message_tray the two notifications of apps are alike: neither is transient.
Alike == Permutations({mail, chat})

MCSourceOf3 == [n \in {mail, chat, usb} |-> IF n = usb THEN shell ELSE apps]
============================================================================
