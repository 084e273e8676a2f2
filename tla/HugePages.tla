------------------------------ MODULE HugePages ------------------------------
(***************************************************************************)
(* The DMA buffers of mem_alloc.cpp, __linux__ branch: pages of one        *)
(* gigabyte, each with blocks of data at its start and, at its end, a      *)
(* root_info_t, the descriptions of the blocks, and the offset of the      *)
(* root_info_t in the last four bytes.                                     *)
(***************************************************************************)
EXTENDS Integers, Sequences, FiniteSets

CONSTANTS
    RootSize,       \* sizeof(root_info_t)
    RootUsed,       \* its first bytes, up to the end of sig_offsets
    InfoSize,       \* sizeof(block_info_t)
    BlockCounts, BlockSizes,   \* blk_in_page, block_size of the cards
    MaxHupa,        \* bound: pages of one call
    MaxPages        \* bound: pages of all calls

SIZE_4K == 4096
SIZE_1G == 1073741824
ROOT_INFO_OFFSET_ADR == SIZE_1G - 4
MAX_BLOCKS_PER_HP == 64     \* the room for offsets in a root_info_t

ASSUME PagesAssumption ==
    /\ RootSize \in Nat /\ RootUsed \in Nat /\ InfoSize \in Nat
    /\ RootUsed + SIZE_4K <= RootSize /\ InfoSize + 4 <= SIZE_4K
    /\ BlockCounts \subseteq 1 .. MAX_BLOCKS_PER_HP /\ BlockSizes \subseteq Nat \ {0}
    /\ MaxHupa \in Nat /\ MaxPages \in Nat

VARIABLES
    mapped,    \* the pages that are mapped; a page is the number of its mmap()
    unmapped,  \* the pages that were unmapped
    twice,     \* those of them that were unmapped again
    shape,     \* page -> [n, size] when alloc_c2h_buffers() has laid it out
    g_pages,   \* the variable of that name
    frames,    \* the member of that name: [n, page, blk], in order
    buffers,   \* the virtual addresses in what the last call returned:
               \* index -> [page, blk], or <<>>
    overrun,   \* it has written behind the end of data_buf
    fresh,     \* it returned the buffer of an unused card ("c2h"), or the
               \* first buffer of files, of which the driver took no more blocks
               \* than there are ("h2c"), or neither
    frees      \* calls of free_buffers()

pageVars == <<mapped, unmapped, twice, shape, g_pages, frames, buffers, overrun,
              fresh, frees>>

Pages == 1 .. MaxPages
\* The page that a call maps after k others.
NewPage(k) == Cardinality(mapped \cup unmapped) + k + 1
NewPages(k) == {NewPage(i) : i \in 0 .. k - 1}

PagesInit ==
    /\ mapped = {} /\ unmapped = {} /\ twice = {}
    /\ shape = [p \in Pages |-> [n |-> 0, size |-> 0]]
    /\ g_pages = <<>> /\ frames = <<>>
    /\ buffers = <<>> /\ overrun = FALSE /\ fresh = "none"
    /\ frees = 0

-----------------------------------------------------------------------------
\* alloc_c2h_buffers(): where things are in a page of n blocks.
M_root_info_offset(n) == SIZE_4K * ((SIZE_1G - RootSize) \div SIZE_4K)
root_info_offset(n) ==
    SIZE_4K * ((SIZE_1G - (RootSize + n * SIZE_4K)) \div SIZE_4K)
bi_offset0(n) == SIZE_4K * ((root_info_offset(n) + RootSize) \div SIZE_4K)
bi_offset(n, iblk) == bi_offset0(n) + iblk * SIZE_4K
blk_offset(size, iblk) == iblk * size

\* The call maps `done' of the pages it wants.  When it cannot go on it returns
\* nullptr and keeps what it has, the frames of the finished pages included;
\* it also returns nullptr when the device takes no buffer (~taken).
M_idx_blk(n, ipage, iblk) == ipage * (n - 1) + iblk
idx_blk(n, ipage, iblk) == ipage * n + iblk

FramesOf(n, k) == [j \in 1 .. n * k |->
    [n |-> j - 1, page |-> NewPage((j - 1) \div n), blk |-> (j - 1) % n]]

alloc_c2h_buffers(hupa, n, size, done, taken) ==
    LET good == done = hupa /\ taken /\ size >= SIZE_4K
        Slots == (0 .. done - 1) \X (0 .. n - 1)
        Writer(i) == CHOOSE s \in Slots : idx_blk(n, s[1], s[2]) = i
        Written == {idx_blk(n, s[1], s[2]) : s \in Slots}
    IN
    /\ mapped' = mapped \cup NewPages(done)
    /\ shape' = [p \in Pages |->
                    IF p \in NewPages(done) THEN [n |-> n, size |-> size] ELSE shape[p]]
    /\ frames' = frames \o FramesOf(n, done)
    /\ buffers' = IF ~good THEN <<>> ELSE
                  [i \in Written |-> [page |-> NewPage(Writer(i)[1]), blk |-> Writer(i)[2]]]
    /\ overrun' = \E i \in Written : i >= hupa * n
    /\ fresh' = IF frames = <<>> /\ good THEN "c2h" ELSE "none"
    /\ UNCHANGED <<unmapped, twice, g_pages, frees>>

-----------------------------------------------------------------------------
\* alloc_h2c_buffers(): the pages are files that somebody has laid out before,
\* with counts[ipage] blocks each; data_buf has room for those of the first
\* page in every page.  The second loop runs over blk_num blocks in each page,
\* by the root_info_t of the last one; the driver, which was given blk_num by its
\* address, may have changed it.
M_Pushed(hupa, done) == IF done = hupa THEN done ELSE 0
Pushed(hupa, done) == done

SecondLoop(hupa, blk_num) == (0 .. hupa - 1) \X (0 .. blk_num - 1)

alloc_h2c_buffers(hupa, counts, done, taken, blk_num) ==
    LET good == done = hupa /\ taken
        pages == g_pages \o [k \in 1 .. Pushed(hupa, done) |-> NewPage(k - 1)]
        Index(s) == s[1] * counts[hupa] + s[2]
        Slots == SecondLoop(hupa, blk_num)
        Last(i) == CHOOSE s \in Slots : /\ Index(s) = i
                                        /\ \A t \in Slots : Index(t) = i => t[1] <= s[1]
        Room == 0 .. counts[1] * hupa - 1
        First == {k * counts[k + 1] + counts[k + 1] - 1 : k \in 0 .. done - 1}
    IN
    /\ mapped' = mapped \cup NewPages(done)
    /\ g_pages' = pages
    /\ buffers' = IF ~good THEN <<>> ELSE
                  [i \in {Index(s) : s \in Slots} \cap Room |->
                      [page |-> pages[Last(i)[1] + 1], blk |-> Last(i)[2]]]
    /\ overrun' = \/ \E i \in First : i \notin Room
                  \/ done = hupa /\ \E s \in Slots : Index(s) \notin Room
    /\ fresh' = IF g_pages = <<>> /\ good /\ blk_num <= counts[1] * hupa THEN "h2c" ELSE "none"
    /\ UNCHANGED <<unmapped, twice, shape, frames, frees>>

\* free_buffers() frees every page of g_pages, which is never cleared.
GPages == {g_pages[k] : k \in 1 .. Len(g_pages)}

free_buffers ==
    /\ frees < 2 /\ frees' = frees + 1
    /\ mapped' = mapped \ GPages
    /\ unmapped' = unmapped \cup GPages
    /\ twice' = twice \cup (GPages \cap unmapped)
    /\ buffers' = <<>> /\ overrun' = FALSE /\ fresh' = "none"
    /\ UNCHANGED <<shape, g_pages, frames>>

PagesNext ==
    \/ \E hupa \in 1 .. MaxHupa, done \in 0 .. MaxHupa, taken \in BOOLEAN :
          /\ done <= hupa /\ NewPages(done) \subseteq Pages
          /\ \/ \E n \in BlockCounts, size \in BlockSizes :
                   alloc_c2h_buffers(hupa, n, size, done, taken)
             \/ \E counts \in [1 .. hupa -> BlockCounts] :
                \E blk_num \in 0 .. counts[1] * hupa + 1 :
                   alloc_h2c_buffers(hupa, counts, done, taken, blk_num)
    \/ free_buffers

PagesSpec == PagesInit /\ [][PagesNext]_pageVars

-----------------------------------------------------------------------------
\* What a page of n blocks holds, as intervals [from, to).
Interval(a, len) == [from |-> a, to |-> a + len]
Disjoint(i, j) == i.to <= j.from \/ j.to <= i.from

RootBytes(n) == Interval(root_info_offset(n), RootSize)
RootFields(n) == Interval(root_info_offset(n), RootUsed)
InfoBytes(n, iblk) == Interval(bi_offset(n, iblk), InfoSize)
DataBytes(size, iblk) == Interval(blk_offset(size, iblk), size)

(* In a page of n blocks, whatever n, that fit in front of root_info_t, no  *)
(* two of the blocks, the descriptions, root_info_t and the offset word at  *)
(* the end overlap, with one exception: the offset of the descriptions is   *)
(* rounded down, so that the last RootSize % 4096 bytes of root_info_t,     *)
(* which is cleared whole, are the first ones of description 0.  The fields *)
(* that a time signal uses are not among them.                              *)
Layout(n, size) ==
    /\ \A i \in 0 .. n - 1 :
          /\ InfoBytes(n, i).to <= ROOT_INFO_OFFSET_ADR
          /\ DataBytes(size, i).to <= RootBytes(n).from
          /\ DataBytes(size, i).to <= InfoBytes(n, i).from
          /\ RootFields(n).to <= InfoBytes(n, i).from
          /\ i > 0 => RootBytes(n).to <= InfoBytes(n, i).from
          /\ \A j \in 0 .. n - 1 : i # j =>
                /\ Disjoint(InfoBytes(n, i), InfoBytes(n, j))
                /\ Disjoint(DataBytes(size, i), DataBytes(size, j))
                /\ Disjoint(DataBytes(size, i), InfoBytes(n, j))
    /\ RootBytes(n).to - InfoBytes(n, 0).from = RootSize % SIZE_4K
    /\ RootBytes(n).to <= ROOT_INFO_OFFSET_ADR

Fits(n, size) ==
    n \in Nat /\ size \in Nat /\ n * size <= root_info_offset(n)

OneOverlap == \A p \in Pages :
    shape[p].n > 0 /\ Fits(shape[p].n, shape[p].size) => Layout(shape[p].n, shape[p].size)

(* The buffer that alloc_c2h_buffers() returns for a card that was not used *)
(* before has one entry per frame, in the frames' order.  The one of the    *)
(* first alloc_h2c_buffers() of a single page has the blocks of that page.  *)
(* Neither has written behind its end, unless the driver answered that it   *)
(* took more blocks than it was given.                                      *)
BufferMatches ==
    /\ fresh = "c2h" =>
          /\ ~overrun /\ DOMAIN buffers = 0 .. Len(frames) - 1
          /\ \A i \in DOMAIN buffers : LET f == frames[i + 1] IN
                f.n = i /\ buffers[i] = [page |-> f.page, blk |-> f.blk]
    /\ fresh = "h2c" /\ Len(g_pages) = 1 =>
          /\ ~overrun
          /\ \A i \in DOMAIN buffers : buffers[i] = [page |-> g_pages[1], blk |-> i]

(* The first free_buffers() unmaps every page that alloc_h2c_buffers() has  *)
(* mapped until then, also in calls that failed, and none twice; pages of   *)
(* alloc_c2h_buffers() stay mapped.                                         *)
FreedOnce == [][frees = 0 /\ frees' = 1 =>
    twice' = {} /\ \A p \in mapped' : shape[p].n > 0]_pageVars
=============================================================================
