\* The disk answers every request, and lists the whole directory.  The constants are those of Parts.cfg.
SPECIFICATION PartsSpec
CONSTANTS
\* A heap of 120 bytes at address 16: up to four blocks of one, 8 or 9 bytes,
\* or one of 24; 100 does not fit.  Pointers holds every payload address, NULL
\* and addresses outside the heap.
  HeapStart = 16
  HeapSize = 120
  WordLimit = 1024
  Sizes = {0, 1, 9, 24, 100}
  Pointers = {0, 8, 32, 56, 64, 72, 80, 88, 96, 104, 112, 120, 128, 200}
  InputMax = 79
\* Pages of 16 bytes, tables of 4 pages; malloc wants room for two of 11 entries.
  PAGE = 16
  TABLE = 4
  AddressSpace = 512
  HeapFloor = 80
  Programs <- UserPrograms
  Requests <- MCRequests
  ListSize = 11
  StackPage = 31
  TrackLimit = 9
  MaxRequests = 3
  MemoryFaults = {"page", "table"}
\* The clock counts in BCD and up to 24 hours, as the chip is shipped.
  Bcd = TRUE
  TwelveHour = FALSE
\* An editor's buffer of 6 bytes, lines of 2 characters, sectors of 2 bytes.
  NOTES_MAX_SIZE = 6
  LINE_MAX = 2
  SECTOR = 2
  Other <- MCOther
  Faults = {"read_error", "write_error"}
\* A directory of five entries in sectors of two, all of them
\* listed, a disk of five sectors, and two writes of up to two sectors.
  Shipped <- MCShipped
  NewNames = {"PAGE.TXT"}
  RootEntries = 5
  EntriesPerSector = 2
  FAT12_MAX_FILES = 5
  LastCluster = 6
  MaxSize = 2
  MaxWrites = 2
  DiskFaults = {"crash", "error"}
\* A buffer of 11 bytes and URLs of up to 3 characters: the file of bookmarks
\* fills up at every combination of lengths.
  URL_MAX_LEN = 5
  BUF = 11
  ReadFaults = {}
\* Sectors of 4 bytes: the headers end, and the rows begin, inside a sector.
  STAGE = 4
  HEADERS = 3
  PALETTE = 2
  Rows = 3
  Cols = 2
  Pixels = {1, 2}
  LastLba = 90
  WriteFaults = {"error"}
\* Archives of up to 9 bytes with headers of 2.
  Packages = {"chess", "clock"}
  Repository <- MCRepository
  Elf <- MCElf
  Archives <- MCArchives
  HEADER = 2
  Wrap = 16
  PkgFaults = {"memory", "network", "cut", "disk"}
PROPERTY OthersUntouched
CHECK_DEADLOCK FALSE
