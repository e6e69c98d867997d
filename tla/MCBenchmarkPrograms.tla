------------------------ MODULE MCBenchmarkPrograms ------------------------
(* BenchmarkPrograms for TLC. *)
EXTENDS BenchmarkPrograms
File(offset, size) == [offset |-> offset, size |-> size]
\* With Usize = 8, files that a guest allocates no buffer for (8), a small one (9), and
\* none at all (5); the last is read only if the file before it in its directory is.
MCItems ==
  << [directory |-> TRUE, files |-> <<File(2, 2), File(0, 8)>>],
     [directory |-> FALSE, files |-> <<File(1, 3)>>],
     [directory |-> FALSE, files |-> <<File(0, 9)>>],
     [directory |-> TRUE, files |-> <<File(6, 1), File(4, 5)>>] >>
\* In the middle of the disk; up to its last block; beyond it; of no block; too small
\* for its files.
MCPartitions == {<<2, 8>>, <<2, 12>>, <<2, 14>>, <<4, 4>>, <<4, 6>>}
Guests == {"readlot", "throughput", "hash", "old_read", "latency", "filesystem"} \X {FALSE}
Natives == {"readlot", "throughput"} \X {TRUE}
AllPrograms == Guests \cup Natives

ASSUME ReadsFit
=============================================================================
