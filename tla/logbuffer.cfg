\* Two readers of /proc/logbuffer; a 2-byte header, chunks of 3 bytes and a
\* 3-byte line buffer (one byte of text per line); every 4-byte log.
CONSTANTS
    r1 = r1  r2 = r2  NoReader = NoReader  MAGIC = MAGIC  BADTAG = BADTAG
    Readers = {r1, r2}
    HDR = 2
    LOGBUFF_LEN = 3
    LOGBUFF_SIZE = 3
    Infos <- LogInfos
    Bufs <- AllBufs
    Positions = {0, 1, 4}
    KmallocFails = TRUE
SPECIFICATION Spec
INVARIANT LbTypeOK
INVARIANT ReadsInRange
INVARIANT RegionBalanced
INVARIANT ProcessMatchesLines
