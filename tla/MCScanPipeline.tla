--------------------------- MODULE MCScanPipeline ---------------------------
(***************************************************************************)
(* Small scans.  Files are numbers, so that a tuple gives their sizes;     *)
(* with two workers even files go to the first, odd ones to the second.    *)
(***************************************************************************)
EXTENDS ScanPipeline

CONSTANTS w1, w2, r1, r2

FiveFiles == 1..5

(* A scan by these threads over files of these sizes; QueueCap and         *)
(* ReaderCap are 1 unless said otherwise.                                  *)
Scan(workers, readers, sizes, onDisk) ==
  [workers |-> workers, readers |-> readers, sizes |-> sizes, onDisk |-> onDisk,
   hashOf |-> [f \in DOMAIN sizes |->
                 IF workers = {w1, w2} /\ f % 2 = 1 THEN w2 ELSE w1],
   queueCap |-> 1, readerCap |-> 1, headerOnly |-> FALSE, second |-> FALSE,
   denied |-> {}, unchanged |-> {}, maxBlocks |-> 0, mayQuit |-> FALSE]

(* SSD: a file over the limit of two blocks and one the scan cache knows.  *)
Ssd == [Scan({w1, w2}, {}, <<1, 2, 3, 1>>, <<1, 2, 3, 1>>)
          EXCEPT !.unchanged = {4}, !.maxBlocks = 2]

(* HDD, full pass: one file read well, one that fails, an empty one that   *)
(* has grown since it was listed, one that cannot be opened.               *)
Hdd == [Scan({w1, w2}, {r1, r2}, <<1, 1, 0, 1>>, <<1, 0, 1, 1>>)
          EXCEPT !.denied = {4}]

(* HDD, full pass: two files of several blocks and a small one.            *)
Stream == [Scan({w1}, {r1, r2}, <<2, 3, 1>>, <<2, 3, 1>>) EXCEPT !.queueCap = 6]

(* HDD, header pass: sizes around one block, one of them truncated.        *)
Header == [Scan({w1}, {r1, r2}, <<1, 2, 3>>, <<1, 2, 2>>)
             EXCEPT !.queueCap = 6, !.headerOnly = TRUE]

(* HDD, second pass of --header-first over three paths.                    *)
Second == [Scan({w1, w2}, {r1, r2}, <<1, 2, 1>>, <<1, 2, 0>>)
             EXCEPT !.second = TRUE, !.unchanged = {1}]

(* HDD, full pass with an interruption: as many empty files as buffers,    *)
(* and another one.  The second pass on an SSD with an interruption.       *)
Stops == [Scan({w1}, {r1}, <<0, 0, 0, 0, 1>>, <<0, 0, 0, 0, 1>>)
            EXCEPT !.mayQuit = TRUE]
StopsSecond == [Scan({w1}, {}, <<1, 1, 1>>, <<1, 1, 1>>)
                  EXCEPT !.second = TRUE, !.mayQuit = TRUE]

AllScans == <<Ssd, Hdd, Stream, Header, Second, Stops, StopsSecond>>

(* HDD, full pass: a single file of three blocks.                          *)
LargeFile == <<Scan({w1}, {r1}, <<3>>, <<3>>)>>

=============================================================================
