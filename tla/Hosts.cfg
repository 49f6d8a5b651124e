\* The approval gate: two requests, which may fail to be stored or read, late
\* decisions and a crash.  The relay: two tenants, callers and workers.  The broker:
\* one command and two readers.  The command line: one run, one report.
SPECIFICATION HostsSpec
CONSTANTS
  Tasks = {t1, t2}
  NoTask = NoTask
  Tools <- MCTools
  Args = {"inside", "outside"}
  NoCall = NoCall
  Escaping = {"outside"}
  Class <- MCClass
  Granted <- MCTools
  Mode <- MCMode
  Ids = {i1, i2}
  Faults = {"insert", "read"}
  MaxCrashes = 1
  Logins = {l1, l2}
  Guests = {g1, g2}
  Conns = {c1, c2}
  Nobody = Nobody
  Expired = Expired
  MaxOut = 3
  DrainMax = 1
  Window = 2
  Reporters = {"r1"}
  MaxEvents = 5
  Seconds = {1}
  MaxBad = 1
INVARIANTS
  EffectsAreGranted
  EscapesWereApproved
  
PROPERTIES
  FirstDecisionWins
  GateEnds
  LoginsAreSingleUse
  RelaysEnd
  
  
CHECK_DEADLOCK FALSE
