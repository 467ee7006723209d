-------------------------- MODULE MCTaskAssignment --------------------------
EXTENDS MCTaskManager, TaskAssignment

CONSTANTS e1, e2

(* No action reads the version a record carries, nor what was refused.     *)
WhatIsRead == <<Content, task_version, now, requests, answers>>
=============================================================================
