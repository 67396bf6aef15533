------------------------ MODULE MCConfigNotifications ------------------------
(* Small instances of ConfigNotifications for TLC.                          *)
EXTENDS ConfigNotifications

CONSTANTS i1, i2, w1, w2

\* One writer per instance, and two on the first.
Apart  == [w \in Writers |-> IF w = w1 THEN i1 ELSE i2]
Beside == [w \in Writers |-> i1]
=============================================================================
