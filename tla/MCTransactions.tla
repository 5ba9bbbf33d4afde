--------------------------- MODULE MCTransactions ---------------------------
(* Small instances of BacnetTransactions. *)
EXTENDS BacnetTransactions

CONSTANTS a1, a2, d1, d2

OneTarget         == {<<d1, a1>>}
GoodAndBadAddress == {<<d1, a1>>, <<d1, BadIp>>}
NobodyAnnounces   == {}
DeviceMoves       == {<<d1, a2>>}
=============================================================================
