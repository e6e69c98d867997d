---------------------------- MODULE MCBlockCache ----------------------------
(* BlockCache with blocks of two bytes, for TLC. *)
EXTENDS BlockCache
Guest(reads, writes, last, seeks, offsets) ==
  [reads |-> reads, writes |-> writes, last |-> last, seeks |-> seeks, offsets |-> offsets]

\* Guests that
\*  - access one or two blocks at any offset, more blocks than the cache holds;
\*  - write single whole blocks, so that dirty ones are evicted, and read several, cached
\*    or not, up to more than the cache holds;
\*  - write at any offset, one block or two, within what the cache holds;
\*  - access more blocks than a transfer counts, and seek past the end of the disk, below
\*    its start and beyond what usize addresses.
MCUsages == {
  Guest({1, 3}, {3}, 3, 0..6, {}),
  Guest({4, 6, 8}, {2}, 3, {0}, {}),
  Guest({1}, {1, 2}, 1, 0..3, {}),
  Guest({1, 9}, {4, 9}, LastBlock, {Usize}, {-1}),
  Guest({1}, {1}, 0, {0, Usize}, {-1, 3})}

Anywhere(reads, writes) == {Guest(reads, writes, LastBlock, 0..Capacity, {})}
SingleBlocks == Anywhere({1}, {1})
WideReads == Anywhere({2, 4}, {2})
WideReadsOnly == Anywhere({2, 5, 6}, {})
LargeReads == Anywhere({2, 4}, {})
WideWrites == Anywhere({1}, {3})
FarAway == {Guest({1}, {1}, LastBlock, {0, Usize}, {})}
=============================================================================
