---------------------------- MODULE MCLogsProcessor ----------------------------
(* Model values, and the logs a second carries.                            *)
EXTENDS LogsProcessor

CONSTANTS w1, w2

MCBlockLogs == {{}, {"fixedInput", "exitFarm"}, {"bothSwaps"}}
===============================================================================
