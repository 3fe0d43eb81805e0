------------------------------ MODULE MCProcesses ------------------------------
(* The code's own numbers of orders and lines, half its rounds of food; two   *)
(* clients with two actions each; outputs with a matching line cut anywhere,  *)
(* one longer than the buffer's first size, and a last line without an end;   *)
(* of the notebook's processes nobody is interrupted, or one of the two is.   *)
EXTENDS Processes

CONSTANTS c1, c2

MCClients == {c1, c2}
MCDisturbances == {{}, {"reader"}, {"writer"}}
MCOutputs == {<<>>,
              <<"h", "n", "a", "n", "a", "h", "a", "n">>,
              <<"a", "a", "h", "a", "a", "n", "n", "h">>}
===============================================================================
