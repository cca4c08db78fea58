------------------------------ MODULE MCMemory ------------------------------
\* 1M is 4 pages, the kernel's 8M are 12, a page holds 8 entries of memory_map
\* or 6 of a page table, 4G are 36 pages.  A zone above 4G comes last in the
\* third table; the last two have a zone that ends within a page: in the one it
\* is larger by 5 bytes than the zone before it and replaces it, in the other not.
EXTENDS Memory

Zone(base, size, rest, valid) ==
    [base |-> base, size |-> size, rest |-> rest, valid |-> valid]

MCArdsTables ==
    { << Zone(0, 1, 0, TRUE), Zone(1, 1, 0, FALSE), Zone(4, 12, 0, TRUE) >>,
      << Zone(0, 1, 0, TRUE), Zone(4, 11, 0, TRUE), Zone(15, 20, 0, FALSE) >>,
      << Zone(0, 1, 0, TRUE), Zone(4, 13, 0, TRUE), Zone(36, 16, 0, TRUE) >>,
      << Zone(4, 15, 0, TRUE), Zone(0, 1, 0, TRUE) >>,
      << Zone(4, 12, 0, TRUE), Zone(4, 12, 5, TRUE) >>,
      << Zone(0, 1, 5, TRUE), Zone(4, 12, 0, TRUE) >> }
=============================================================================
