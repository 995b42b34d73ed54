SPECIFICATION FairSpec
CONSTANTS
  Nmax_master = 2
  Npoll = 2
  Nretry_token = 1
  Nmax_info_frames = 2
  Tusage_timeout = 0
  Treply_delay = 1
  Treply_timeout = 3
  Tno_token = 4
  Tslot = 1
  QueueLen = 1
  Nobody = Nobody
  MaxTroubles = 1
  MaxSwitches = 1
  MaxRequests = 1
  MaxEvents = 2
INVARIANTS
  BusSound
  AnswerAwaited
PROPERTIES
  EveryNodeServed
  RingHeals
CHECK_DEADLOCK FALSE
