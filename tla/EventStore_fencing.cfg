\* Three writers that lose their leases to one another, and two run aggregates.
SPECIFICATION Spec
CONSTANTS
  Sessions = {s1}
  Tasks = {}
  Runs = {r1, r2}
  Inputs = {}
  Leases = {l1, l2, l3}
  Kinds = {"CreateSession", "AskSideQuestion"}
  NoArg = NoArg
  NoRow = NoRow
  NoLease = NoLease
  MaxCommands = 2
  MaxLog = 5
INVARIANTS
  Gapless
  FencedWritersStop
  ReadersAgree
