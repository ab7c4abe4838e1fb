---------------------------- MODULE MCRetention ----------------------------
(***************************************************************************)
(* RetentionCleanup for TLC: a meeting that is recorded, fails, is retried *)
(* and expires under the bot's cleanup, an administrator's run and a       *)
(* deletion.                                                               *)
(***************************************************************************)
EXTENDS RetentionCleanup

Days(r, t, s) == [raw |-> r, transcript |-> t, summary |-> s]

(* The bot keeps summaries for good, an administrator asks for a day; some *)
(* meetings have kept a snapshot that lets nothing expire.                 *)
BotPolicy == Days(1, 1, 0)
RunPolicies == {Days(1, 1, 1)}
KeptSnapshots == {[none |-> TRUE], Days(0, 0, 0)}
RequestTargets == {{"raw", "transcript", "summary"}}

ASSUME PolicyAssumption /\ TargetsAssumption /\ BoundAssumption
=============================================================================
