---------------------------- MODULE MCTransactions ----------------------------
(* Transactions with one caller of each kind. Three of them contend for the    *)
(* guard, so two can queue behind the holder; the command makes up to two      *)
(* library transactions, so it can fail with one committed; the hostname       *)
(* reaction overlaps any of them.                                              *)
EXTENDS Transactions

CONSTANTS c1, m1, w1, h1

MCCommands == {c1}
MCReports == {m1}
MCWatchers == {w1}
MCHostnames == {h1}
NoTasks == {}
================================================================================
