----------------------------- MODULE MCDispatch -----------------------------
(* Small instances of BacnetDispatch: a task that polls, one that writes,  *)
(* and the task of the web page, which discovers.                          *)
EXTENDS BacnetDispatch, TLC

CONSTANTS poller, writer, web, h1, h2, h3

WebDiscovers == (poller :> {"READ"}) @@ (writer :> {"WRITE"})
                @@ (web :> {"DISCOVERY"})
PollAndWrite == (poller :> {"READ"}) @@ (writer :> {"WRITE"})
HandlePermutations == Permutations({h1, h2, h3})
=============================================================================
