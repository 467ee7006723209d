\* Two tasks, two robots, and an engine whose answer goes stale on the way:
\* another engine's answers are the direct assignments.
SPECIFICATION AssignmentSpec
SYMMETRY Alike
VIEW WhatIsRead
CONSTANTS
  r1 = r1
  r2 = r2
  here = here
  there = there
  e1 = e1
  e2 = e2
  None = None
  Robot = {r1, r2}
  TaskId = {1, 2}
  Node = {here, there}
  Time = {0, 1}
  Priority = {1, 2, 101}
  Deadline = {0}
  Offered <- Tasks
  MinTaskPriority = 0
  MaxTaskPriority = 100
  MaxVersion = 6
  Engine = {e1}
  MaxProposals = 2
INVARIANTS
  TypeOK
  StampsAgree
PROPERTIES
  WorkIsKept
  VersionMovesWithTasks
  EngineKnows
\* Nothing happens once nobody calls and the versions are spent.
CHECK_DEADLOCK FALSE
