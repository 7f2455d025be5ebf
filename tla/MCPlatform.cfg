CONSTANTS
  Elem = {e1, e2, e3}
  Head1 = h1
  Head2 = h2
  NULL = null
  Bits = 8
  IntBits = 6
  ShortBits = 4
  Args = {0, 5, 8, 47, 255}
  Widths = {4}
  Precs = {0, 3}
  Stars <- MCStars
  BufSizes = {0, 1, 4, 5}
  DMESG_SIZE = 5
  MaxFlags = 3
  MaxOut = 1
  Configs <- MCConfigs
  Layouts <- MCLayouts
  FirstYear = 1970
  LastYear = 2099
  PAGE_SHIFT = 6
  PAGES_PER_MAPWORD = 4
  FREELIST_LEVELS = 5
  MemMin = 50
  MemMax = 520
  Sizes = {12, 70}
  WrapSizes = {1020}
  Aligns = {8, 128}
  Whos = {"user"}
  WiredSizes = {12}
  Counts = {3, 100}
  MapPages = {2}
  WordBits = 10
  MaxLive = 3
  Line = {4, 5, 11}
  W = 3
  MaxVersion = 6
  timer_rval = 5
  MaxTicks = 12
  EvtPort = {1, 2}
  Dev = {d1, d2}
  EVTDEV_RING_SIZE = 4
  GThread = {t1, t2}
  Entry = {1, 2, 3, 4}
  RxEntries = 2
  DEMAND_MAP_PAGES = 5
  DEFAULT_MAX_GRANTS = 3
  MapCounts = {1, 2, 3}
  MapAligns = {1, 2}
  Driver = {"blk", "net", "pci"}
  MaxFaults = 2
  MaxEvents = 4
  BThread = {t1, t2}
  NBLKDEV = 1
  RingSize = 2
  MaxBio = 4
  DiskNames <- MCDiskNames
  BlkSlots = 2
  MaxOpen = 2
  Sender = {t1, t2}
  NET_TX_RING_SIZE = 2
  MaxSends = 4
  NET_RX_RING_SIZE = 2
  NBUF = 3
  MaxPackets = 4
  a1 = a1
  a2 = a2
  PciThread = {t1, t2}
  PciAddr = {a1, a2}
  NoAddr = noaddr
  PciNodes <- MCNodes
  MaxOps = 3
  Texts <- MCTexts
  OutSize = 2
  IdxMod = 4
  SThread = {t1, t2}
  StdioCap = 3
  ReadLen = 2
  WriteLens = {1, 4}
  NoThread = none
SPECIFICATION Spec
CHECK_DEADLOCK FALSE
INVARIANTS
  QueuesRepresent
  PrintsExactly
  ConfigRead
  SecondsCount
  AllocatorsSound
  RequestsReachHandler
  ClockSound
  EventsConserved
  GrantsAccounted
  MappingsAccounted
  FrontendSound
  BlkioSound
  FdsNameOneDisk
  TxSound
  RxSound
  OwnAnswer
  TextShown
  StdioSound
