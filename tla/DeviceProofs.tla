---------------------------- MODULE DeviceProofs ----------------------------
(***************************************************************************)
(* Proofs about the DMA buffers: the layout of a huge page, the buffer     *)
(* that a call returns, the pages that free_buffers() frees; and about the *)
(* file functions and the drive test.                                      *)
(***************************************************************************)
EXTENDS HugePages, RwDisk, SequenceTheorems, TLAPS

(* Rows of a table do not overlap.                                          *)
LEMMA Rows ==
  ASSUME NEW i \in Nat, NEW j \in Nat, NEW size \in Nat, i < j
  PROVE  i * size + size <= j * size
<1>1. PICK d \in Nat : j = i + 1 + d
  <2>1. j - i - 1 \in Nat
    OBVIOUS
  <2> QED
    BY <2>1
<1>2. j * size = i * size + size + d * size
  BY <1>1
<1>3. d * size \in Nat /\ i * size \in Nat
  BY <1>1
<1> QED
  BY <1>2, <1>3

-----------------------------------------------------------------------------
(* For any number and size of blocks that fit, whatever the sizes of the    *)
(* structures: the truncating divisions leave everything its place.         *)
LEMMA LayoutOfPage ==
  ASSUME NEW n \in Nat \ {0}, NEW size \in Nat, Fits(n, size)
  PROVE  Layout(n, size)
<1> DEFINE r == root_info_offset(n)
           b == bi_offset0(n)
<1>1. /\ r \in Int /\ b \in Int
      /\ n * size <= r
      /\ r + RootSize + n * 4096 <= 1073741824
      /\ r + RootSize - 4095 <= b /\ b <= r + RootSize
  BY PagesAssumption
     DEF root_info_offset, bi_offset0, SIZE_4K, SIZE_1G, Fits
<1>2. RootUsed + 4096 <= RootSize /\ RootSize % 4096 \in 0 .. 4095 /\ InfoSize + 4 <= 4096
      /\ RootUsed \in Nat /\ InfoSize \in Nat /\ RootSize \in Nat
  BY PagesAssumption DEF SIZE_4K
<1>3. /\ RootBytes(n) = [from |-> r, to |-> r + RootSize]
      /\ RootFields(n) = [from |-> r, to |-> r + RootUsed]
      /\ \A i \in 0 .. n - 1 :
            /\ InfoBytes(n, i) = [from |-> b + i * 4096, to |-> b + i * 4096 + InfoSize]
            /\ DataBytes(size, i) = [from |-> i * size, to |-> i * size + size]
  BY DEF RootBytes, RootFields, InfoBytes, DataBytes, Interval, bi_offset, blk_offset, SIZE_4K
\* The offset of the descriptions is rounded down to a multiple of 4096.
<1>11. r + RootSize - b = RootSize % 4096
  <2>1. PICK k \in Int : r = 4096 * k
    BY PagesAssumption DEF root_info_offset, SIZE_4K, SIZE_1G
  <2>2. RootSize = 4096 * (RootSize \div 4096) + (RootSize % 4096)
        /\ RootSize \div 4096 \in Int
    BY <1>2
  <2>3. (4096 * k + RootSize) \div 4096 = k + RootSize \div 4096
    BY <1>2
  <2>4. b = 4096 * (k + RootSize \div 4096)
    BY <2>1, <2>3 DEF bi_offset0, SIZE_4K
  <2> HIDE DEF r, b
  <2> QED
    BY <1>1, <1>2, <2>1, <2>2, <2>4
<1> HIDE DEF r, b
<1>4. ASSUME NEW i \in 0 .. n - 1
      PROVE  /\ i * size + size <= r
             /\ i * size \in Nat
  BY <1>1, Rows
<1>5. ASSUME NEW i \in 0 .. n - 1, NEW j \in 0 .. n - 1, i # j
      PROVE  i * size + size <= j * size \/ j * size + size <= i * size
  <2>1. CASE i < j
    BY <2>1, Rows
  <2>2. CASE j < i
    BY <2>2, Rows
  <2> QED
    BY <1>5, <2>1, <2>2
<1>6. \A i \in 0 .. n - 1 :
          /\ InfoBytes(n, i).to <= ROOT_INFO_OFFSET_ADR
          /\ RootFields(n).to <= InfoBytes(n, i).from
          /\ i > 0 => RootBytes(n).to <= InfoBytes(n, i).from
  BY <1>1, <1>2, <1>3, <1>11 DEF ROOT_INFO_OFFSET_ADR, SIZE_1G
<1>7. \A i \in 0 .. n - 1 :
          /\ DataBytes(size, i).to <= RootBytes(n).from
          /\ DataBytes(size, i).to <= InfoBytes(n, i).from
  BY <1>1, <1>2, <1>3, <1>4
<1>8. \A i, j \in 0 .. n - 1 : i # j =>
          /\ Disjoint(InfoBytes(n, i), InfoBytes(n, j))
          /\ Disjoint(DataBytes(size, i), InfoBytes(n, j))
  <2> SUFFICES ASSUME NEW i \in 0 .. n - 1, NEW j \in 0 .. n - 1, i # j
               PROVE  /\ Disjoint(InfoBytes(n, i), InfoBytes(n, j))
                      /\ Disjoint(DataBytes(size, i), InfoBytes(n, j))
    OBVIOUS
  <2>1. /\ b \in Int /\ InfoSize \in Nat /\ InfoSize <= 4096 /\ i \in Int /\ j \in Int
        /\ i < j \/ j < i
    BY <1>1, <1>2
  <2>2. \/ b + i * 4096 + InfoSize <= b + j * 4096
        \/ b + j * 4096 + InfoSize <= b + i * 4096
    BY <2>1
  <2>3. InfoBytes(n, i) = [from |-> b + i * 4096, to |-> b + i * 4096 + InfoSize]
    BY <1>3
  <2>4. InfoBytes(n, j) = [from |-> b + j * 4096, to |-> b + j * 4096 + InfoSize]
    BY <1>3
  <2>5. Disjoint(InfoBytes(n, i), InfoBytes(n, j))
    BY <2>2, <2>3, <2>4 DEF Disjoint
  <2>6. DataBytes(size, i) = [from |-> i * size, to |-> i * size + size]
    BY <1>3
  <2>7. i * size + size <= r /\ i * size + size \in Int
    BY <1>4
  <2>8. r <= b + j * 4096
    BY <1>1, <1>2, <2>1
  <2>9. i * size + size <= b + j * 4096
    BY <1>1, <2>1, <2>7, <2>8
  <2>10. Disjoint(DataBytes(size, i), InfoBytes(n, j))
    BY <2>4, <2>6, <2>9 DEF Disjoint
  <2> QED
    BY <2>5, <2>10
<1>9. \A i, j \in 0 .. n - 1 : i # j => Disjoint(DataBytes(size, i), DataBytes(size, j))
  BY <1>3, <1>5 DEF Disjoint
<1>10. RootBytes(n).to <= ROOT_INFO_OFFSET_ADR
  BY <1>1, <1>2, <1>3 DEF ROOT_INFO_OFFSET_ADR, SIZE_1G
<1>12. RootBytes(n).to - InfoBytes(n, 0).from = RootSize % SIZE_4K
  <2>1. InfoBytes(n, 0).from = b
    BY <1>1, <1>3
  <2>2. RootBytes(n).to = r + RootSize
    BY <1>3
  <2>3. RootSize % SIZE_4K = RootSize % 4096
    BY DEF SIZE_4K
  <2>4. (r + RootSize) - b = RootSize % 4096
    BY <1>1, <1>2, <1>11
  <2>5. RootBytes(n).to - InfoBytes(n, 0).from = (r + RootSize) - b
    BY <2>1, <2>2
  <2> QED
    BY <2>3, <2>4, <2>5
<1> QED
  BY <1>6, <1>7, <1>8, <1>9, <1>10, <1>12 DEF Layout

(* The only bytes of a page with two meanings are the last RootSize % 4096  *)
(* ones of root_info_t, which are also the first ones of description 0.     *)
THEOREM OnlyOneOverlap == PagesSpec => []OneOverlap
<1>1. OneOverlap
  BY LayoutOfPage DEF OneOverlap, Fits
<1> QED
  BY <1>1, PTL

LEMMA CountsAre == BlockCounts \subseteq Nat \ {0}
<1>1. 1 .. MAX_BLOCKS_PER_HP \subseteq Nat \ {0}
  BY DEF MAX_BLOCKS_PER_HP
<1> QED
  BY <1>1, PagesAssumption

-----------------------------------------------------------------------------
\* Before the first free_buffers() nothing is unmapped, and each page that is
\* mapped is in g_pages or was laid out by alloc_c2h_buffers().
FreeInv ==
    /\ frees \in Nat
    /\ g_pages \in Seq(Pages)
    /\ mapped \subseteq Pages
    /\ frees = 0 =>
         /\ unmapped = {} /\ twice = {}
         /\ \A p \in mapped : p \in GPages \/ shape[p].n > 0

\* push_back() of the new pages, one after the other.
LEMMA PagesArePushed ==
  ASSUME NEW done \in Nat, g_pages \in Seq(Pages), NewPages(done) \subseteq Pages,
         g_pages' = g_pages \o [k \in 1 .. done |-> NewPage(k - 1)]
  PROVE  g_pages' \in Seq(Pages) /\ GPages \cup NewPages(done) \subseteq GPages'
<1> DEFINE more == [k \in 1 .. done |-> NewPage(k - 1)]
<1>1. \A k \in 1 .. done : k - 1 \in 0 .. done - 1
  OBVIOUS
<1>2. \A k \in 1 .. done : NewPage(k - 1) \in Pages
  BY <1>1 DEF NewPages
<1>3. more \in Seq(Pages) /\ Len(more) = done
  BY <1>2
<1>4. \A i \in 0 .. done - 1 : i + 1 \in 1 .. done /\ more[i + 1] = NewPage(i)
  OBVIOUS
<1> HIDE DEF more
<1>5. g_pages' = g_pages \o more
  BY DEF more
<1>6. /\ g_pages' \in Seq(Pages)
      /\ Len(g_pages') = Len(g_pages) + done
      /\ \A k \in 1 .. Len(g_pages) : g_pages'[k] = g_pages[k]
      /\ \A k \in 1 .. done : g_pages'[Len(g_pages) + k] = more[k]
  <2>1. /\ g_pages \o more \in Seq(Pages)
        /\ Len(g_pages \o more) = Len(g_pages) + done
        /\ \A i \in 1 .. Len(g_pages) + done : (g_pages \o more)[i] =
              IF i <= Len(g_pages) THEN g_pages[i] ELSE more[i - Len(g_pages)]
    BY <1>3, ConcatProperties
  <2>2. Len(g_pages) \in Nat
    OBVIOUS
  <2>3. \A k \in 1 .. done : (g_pages \o more)[Len(g_pages) + k] = more[k]
    BY <2>1, <2>2
  <2>4. \A k \in 1 .. Len(g_pages) : (g_pages \o more)[k] = g_pages[k]
    BY <2>1, <2>2
  <2> DEFINE both == g_pages \o more
  <2> HIDE DEF both
  <2>5. g_pages' = both
    BY <1>5 DEF both
  <2> QED
    BY <2>1, <2>3, <2>4, <2>5 DEF both
<1>7. GPages \subseteq GPages'
  BY <1>6 DEF GPages
<1>8. ASSUME NEW i \in 0 .. done - 1
      PROVE  NewPage(i) \in GPages'
  <2>1. Len(g_pages) + (i + 1) \in 1 .. Len(g_pages')
    BY <1>6
  <2>2. g_pages'[Len(g_pages) + (i + 1)] = NewPage(i)
    BY <1>4, <1>6
  <2> QED
    BY <2>1, <2>2 DEF GPages
<1> QED
  BY <1>6, <1>7, <1>8 DEF NewPages

LEMMA FreeStarts == PagesInit => FreeInv
BY DEF PagesInit, FreeInv

LEMMA FreeSteps == FreeInv /\ [PagesNext]_pageVars => FreeInv'
<1> SUFFICES ASSUME FreeInv, [PagesNext]_pageVars
             PROVE  FreeInv'
  OBVIOUS
<1>1. ASSUME NEW hupa \in 1 .. MaxHupa, NEW done \in 0 .. MaxHupa,
             NEW n \in BlockCounts, NEW size, NEW taken,
             NewPages(done) \subseteq Pages,
             alloc_c2h_buffers(hupa, n, size, done, taken)
      PROVE  FreeInv'
  <2>1. /\ mapped' = mapped \cup NewPages(done)
        /\ shape' = [p \in Pages |->
                       IF p \in NewPages(done) THEN [n |-> n, size |-> size]
                                               ELSE shape[p]]
        /\ UNCHANGED <<unmapped, twice, g_pages, frees>>
    BY <1>1 DEF alloc_c2h_buffers
  <2>2. n > 0
    BY PagesAssumption, CountsAre
  <2>3. GPages' = GPages
    BY <2>1 DEF GPages
  <2>4. mapped' \subseteq Pages
    BY <1>1, <2>1 DEF FreeInv
  <2>5. ASSUME frees = 0, NEW p \in mapped'
        PROVE  p \in GPages' \/ shape'[p].n > 0
    <3>1. CASE p \in NewPages(done)
      BY <2>1, <2>2, <2>4, <3>1
    <3>2. CASE p \notin NewPages(done)
      BY <2>1, <2>3, <2>4, <2>5, <3>2 DEF FreeInv
    <3> QED
      BY <3>1, <3>2
  <2> QED
    BY <2>1, <2>4, <2>5 DEF FreeInv
<1>2. ASSUME NEW hupa \in 1 .. MaxHupa, NEW done \in 0 .. MaxHupa,
             NEW counts, NEW taken, NEW blk_num,
             NewPages(done) \subseteq Pages,
             alloc_h2c_buffers(hupa, counts, done, taken, blk_num)
      PROVE  FreeInv'
  <2>1. /\ mapped' = mapped \cup NewPages(done)
        /\ g_pages' = g_pages \o [k \in 1 .. done |-> NewPage(k - 1)]
        /\ UNCHANGED <<unmapped, twice, shape, frees>>
    BY <1>2 DEF alloc_h2c_buffers, Pushed
  <2>2. done \in Nat
    BY PagesAssumption, CountsAre
  <2>3. g_pages' \in Seq(Pages) /\ GPages \cup NewPages(done) \subseteq GPages'
    BY <1>2, <2>1, <2>2, PagesArePushed DEF FreeInv
  <2> QED
    BY <1>2, <2>1, <2>3 DEF FreeInv
<1>3. CASE free_buffers
  <2>1. frees' \in Nat \ {0} /\ mapped' \subseteq mapped /\ g_pages' = g_pages
    BY <1>3 DEF free_buffers, FreeInv
  <2> QED
    BY <2>1 DEF FreeInv
<1>4. CASE UNCHANGED pageVars
  BY <1>4 DEF pageVars, FreeInv, GPages
<1> QED
  BY <1>1, <1>2, <1>3, <1>4 DEF PagesNext

(* The first free_buffers() frees all that alloc_h2c_buffers() has mapped,  *)
(* and nothing twice.                                                       *)
THEOREM FirstFreeIsComplete == PagesSpec => FreedOnce
<1>1. FreeInv /\ [PagesNext]_pageVars =>
        [frees = 0 /\ frees' = 1 =>
           twice' = {} /\ \A p \in mapped' : shape[p].n > 0]_pageVars
  <2> SUFFICES ASSUME FreeInv, PagesNext, frees = 0, frees' = 1
               PROVE  twice' = {} /\ \A p \in mapped' : shape[p].n > 0
    OBVIOUS
  <2>1. free_buffers
    BY DEF PagesNext, alloc_c2h_buffers, alloc_h2c_buffers
  <2> QED
    BY <2>1 DEF free_buffers, FreeInv
<1> QED
  BY <1>1, FreeStarts, FreeSteps, PTL DEF PagesSpec, FreedOnce

-----------------------------------------------------------------------------
(* Block i of pages with n blocks each is block i % n of page i \div n, and *)
(* of no other page.                                                        *)
LEMMA DivMod ==
  ASSUME NEW i \in Nat, NEW n \in Nat \ {0}
  PROVE  i \div n \in Nat /\ i % n \in 0 .. n - 1 /\ (i \div n) * n + (i % n) = i
BY Z3

LEMMA OnePlace ==
  ASSUME NEW n \in Nat \ {0}, NEW p \in Nat, NEW b \in 0 .. n - 1,
         NEW q \in Nat, NEW c \in 0 .. n - 1, p * n + b = q * n + c
  PROVE  p = q /\ b = c
<1>1. p * n \in Nat /\ q * n \in Nat
  OBVIOUS
<1>2. ~(p < q)
  BY <1>1, Rows
<1>3. ~(q < p)
  BY <1>1, Rows
<1>4. p = q
  BY <1>2, <1>3
<1> QED
  BY <1>1, <1>4

LEMMA InRange ==
  ASSUME NEW n \in Nat \ {0}, NEW h \in Nat, NEW i \in Nat, i < h * n
  PROVE  i \div n \in 0 .. h - 1
<1> DEFINE q == i \div n
           r == i % n
<1>1. q \in Nat /\ r \in 0 .. n - 1 /\ q * n + r = i
  BY DivMod
<1> HIDE DEF q, r
<1>2. h <= q => h * n <= q * n
  BY <1>1, Rows
<1>3. q * n \in Nat /\ h * n \in Nat
  BY <1>1
<1>4. q \in 0 .. h - 1
  BY <1>1, <1>2, <1>3
<1> QED
  BY <1>4 DEF q

LEMMA FirstAppend ==
  ASSUME NEW m \in Nat, NEW f, f = [j \in 1 .. m |-> f[j]]
  PROVE  <<>> \o f = f /\ Len(f) = m
<1> DEFINE S == {f[j] : j \in 1 .. m}
<1>1. \A j \in 1 .. m : f[j] \in S
  OBVIOUS
<1> HIDE DEF S
<1>2. f \in [1 .. m -> S]
  BY <1>1
<1>3. f \in Seq(S) /\ Len(f) = m
  BY <1>2
<1> QED
  BY <1>3, ConcatEmptySeq

(* One call of alloc_c2h_buffers() for an unused card.                      *)
LEMMA C2hMatches ==
  ASSUME NEW hupa \in Nat, NEW n \in Nat \ {0}, NEW size, NEW done \in Nat, NEW taken,
         done <= hupa, alloc_c2h_buffers(hupa, n, size, done, taken), fresh' = "c2h"
  PROVE  BufferMatches'
<1> DEFINE Slots == (0 .. done - 1) \X (0 .. n - 1)
           Writer(i) == CHOOSE s \in Slots : idx_blk(n, s[1], s[2]) = i
           Written == {idx_blk(n, s[1], s[2]) : s \in Slots}
<1>1. frames = <<>> /\ done = hupa
  BY DEF alloc_c2h_buffers
<1>2. /\ frames' = frames \o FramesOf(n, done)
      /\ buffers' = [i \in Written |-> [page |-> NewPage(Writer(i)[1]), blk |-> Writer(i)[2]]]
      /\ overrun' = \E i \in Written : i >= hupa * n
  BY DEF alloc_c2h_buffers
<1>3. \A s : s \in Slots <=> \E p \in 0 .. done - 1, b \in 0 .. n - 1 : s = <<p, b>>
  OBVIOUS
<1>4. done * n \in Nat
  OBVIOUS
<1>5. ASSUME NEW p \in 0 .. done - 1, NEW b \in 0 .. n - 1
      PROVE  p * n + b \in 0 .. done * n - 1
  <2>1. p * n + n <= done * n /\ p * n \in Nat
    BY Rows
  <2> QED
    BY <1>4, <2>1
<1>6. ASSUME NEW i \in 0 .. done * n - 1
      PROVE  /\ i \in Written
             /\ Writer(i) = <<i \div n, i % n>>
  <2> DEFINE q == i \div n
             r == i % n
  <2>1. q \in 0 .. done - 1 /\ r \in 0 .. n - 1 /\ q * n + r = i
    <3>1. i \in Nat /\ i < done * n
      BY <1>4
    <3>2. r \in 0 .. n - 1 /\ q * n + r = i
      BY <3>1, DivMod
    <3> QED
      BY <3>1, <3>2, InRange
  <2> HIDE DEF q, r
  <2>2. <<q, r>> \in Slots /\ idx_blk(n, <<q, r>>[1], <<q, r>>[2]) = i
    BY <2>1 DEF idx_blk
  <2>3. ASSUME NEW s \in Slots, idx_blk(n, s[1], s[2]) = i PROVE s = <<q, r>>
    <3>1. PICK p \in 0 .. done - 1, b \in 0 .. n - 1 : s = <<p, b>>
      BY <1>3
    <3>2. p * n + b = q * n + r
      BY <2>1, <2>3, <3>1 DEF idx_blk
    <3>3. p = q /\ b = r
      BY <2>1, <3>2, OnePlace
    <3> QED
      BY <3>1, <3>3
  <2>4. Writer(i) = <<q, r>>
    BY <2>2, <2>3
  <2>5. i \in Written
    BY <2>2
  <2> QED
    BY <2>4, <2>5 DEF q, r
<1>7. Written = 0 .. done * n - 1
  <2>1. ASSUME NEW i \in Written PROVE i \in 0 .. done * n - 1
    <3>1. PICK s \in Slots : i = idx_blk(n, s[1], s[2])
      OBVIOUS
    <3>2. PICK p \in 0 .. done - 1, b \in 0 .. n - 1 : s = <<p, b>>
      BY <1>3
    <3>3. i = p * n + b
      BY <3>1, <3>2 DEF idx_blk
    <3> QED
      BY <1>5, <3>3
  <2> QED
    BY <1>6, <2>1
<1> HIDE DEF Slots, Writer, Written
<1>8. ~overrun'
  BY <1>1, <1>2, <1>4, <1>7
<1>9. /\ Len(frames') = done * n
      /\ \A i \in 0 .. done * n - 1 : frames'[i + 1] =
            [n |-> i, page |-> NewPage(i \div n), blk |-> i % n]
  <2> DEFINE new == [j \in 1 .. n * done |->
                       [n |-> j - 1, page |-> NewPage((j - 1) \div n), blk |-> (j - 1) % n]]
  <2>1. n * done = done * n /\ n * done \in Nat
    OBVIOUS
  <2>2. <<>> \o new = new /\ Len(new) = n * done
    BY <2>1, FirstAppend
  <2>3. frames' = new
    BY <1>1, <1>2, <2>2 DEF FramesOf
  <2>4. ASSUME NEW i \in 0 .. done * n - 1
        PROVE  new[i + 1] = [n |-> i, page |-> NewPage(i \div n), blk |-> i % n]
    <3>1. i + 1 \in 1 .. n * done /\ (i + 1) - 1 = i
      BY <2>1
    <3> QED
      BY <3>1
  <2> QED
    BY <2>1, <2>2, <2>3, <2>4
<1>10. /\ DOMAIN buffers' = 0 .. Len(frames') - 1
       /\ \A i \in DOMAIN buffers' :
            /\ frames'[i + 1].n = i
            /\ buffers'[i] = [page |-> frames'[i + 1].page, blk |-> frames'[i + 1].blk]
  <2>1. DOMAIN buffers' = 0 .. Len(frames') - 1
    BY <1>2, <1>7, <1>9
  <2>2. ASSUME NEW i \in 0 .. done * n - 1
        PROVE  /\ frames'[i + 1].n = i
               /\ buffers'[i] = [page |-> frames'[i + 1].page, blk |-> frames'[i + 1].blk]
    <3>1. buffers'[i] = [page |-> NewPage(Writer(i)[1]), blk |-> Writer(i)[2]]
      BY <1>2, <1>7
    <3>2. Writer(i)[1] = i \div n /\ Writer(i)[2] = i % n
      BY <1>6
    <3>3. buffers'[i] = [page |-> NewPage(i \div n), blk |-> i % n]
      BY <3>1, <3>2
    <3>4. frames'[i + 1] = [n |-> i, page |-> NewPage(i \div n), blk |-> i % n]
      BY <1>9
    <3> DEFINE P == NewPage(i \div n)
               B == i % n
    <3> HIDE DEF P, B
    <3>5. buffers'[i] = [page |-> P, blk |-> B] /\ frames'[i + 1] = [n |-> i, page |-> P, blk |-> B]
      BY <3>3, <3>4, Zenon DEF P, B
    <3> QED
      BY <3>5
  <2> QED
    BY <1>9, <2>1, <2>2
<1> QED
  BY <1>8, <1>10 DEF BufferMatches

(* The first alloc_h2c_buffers() that leaves a single page in g_pages.      *)
LEMMA H2cMatches ==
  ASSUME NEW hupa \in Nat \ {0}, NEW counts \in [1 .. hupa -> BlockCounts],
         NEW done \in Nat, NEW taken,
         NEW blk_num \in 0 .. counts[1] * hupa + 1,
         done <= hupa, alloc_h2c_buffers(hupa, counts, done, taken, blk_num), fresh' = "h2c"
  PROVE  BufferMatches'
<1> DEFINE Nth(s) == s[1] * counts[hupa] + s[2]
           Slots == SecondLoop(hupa, blk_num)
           Last(i) == CHOOSE s \in Slots : /\ Nth(s) = i
                                           /\ \A t \in Slots : Nth(t) = i => t[1] <= s[1]
           Room == 0 .. counts[1] * hupa - 1
           First == {k * counts[k + 1] + counts[k + 1] - 1 : k \in 0 .. done - 1}
           new == [k \in 1 .. done |-> NewPage(k - 1)]
<1>1. g_pages = <<>> /\ done = hupa /\ blk_num <= counts[1] * hupa
  <2>1. fresh' = IF g_pages = <<>> /\ done = hupa /\ taken /\ blk_num <= counts[1] * hupa
                 THEN "h2c" ELSE "none"
    BY Zenon DEF alloc_h2c_buffers
  <2> QED
    BY <2>1
<1>2. /\ g_pages' = g_pages \o new
      /\ buffers' = [i \in {Nth(s) : s \in Slots} \cap Room |->
                      [page |-> g_pages'[Last(i)[1] + 1], blk |-> Last(i)[2]]]
      /\ overrun' = \/ \E i \in First : i \notin Room
                    \/ done = hupa /\ \E s \in Slots : Nth(s) \notin Room
  BY Zenon DEF alloc_h2c_buffers, Pushed
<1>3. g_pages' = new /\ Len(new) = done
  <2>1. <<>> \o new = new /\ Len(new) = done
    BY FirstAppend
  <2> QED
    BY <1>1, <1>2, <2>1
<1> SUFFICES ASSUME Len(g_pages') = 1
             PROVE  /\ ~overrun'
                    /\ \A i \in DOMAIN buffers' : buffers'[i] = [page |-> g_pages'[1], blk |-> i]
  BY DEF BufferMatches
<1>4. done = 1 /\ hupa = 1
  BY <1>1, <1>3
<1>5. counts[1] \in Nat \ {0}
  <2>1. counts[1] \in BlockCounts
    BY <1>4
  <2> QED
    BY <2>1, CountsAre
<1> DEFINE c == counts[1]
<1>6. /\ Room = 0 .. c - 1
      /\ \A s : s \in Slots <=> \E b \in 0 .. blk_num - 1 : s = <<0, b>>
      /\ blk_num \in Nat /\ blk_num <= c
  BY <1>1, <1>4, <1>5 DEF SecondLoop
<1>7. \A b \in 0 .. c - 1 : Nth(<<0, b>>) = b
  BY <1>4, <1>5
<1>8. First = {c - 1}
  BY <1>4, <1>5
<1>9. ~overrun'
  <2>1. \A i \in First : i \in Room
    BY <1>5, <1>6, <1>8
  <2>2. ASSUME NEW s \in Slots PROVE Nth(s) \in Room
    <3>1. PICK b \in 0 .. blk_num - 1 : s = <<0, b>>
      BY <1>6
    <3>2. Nth(s) = Nth(<<0, b>>)
      BY <3>1, Zenon
    <3>3. b \in 0 .. c - 1
      BY <1>5, <1>6
    <3>4. Nth(<<0, b>>) = b
      BY <1>7, <3>3, Zenon
    <3> HIDE DEF Nth
    <3> QED
      BY <1>6, <3>2, <3>3, <3>4
  <2> HIDE DEF First, Room, Slots, Nth
  <2> QED
    BY <1>2, <2>1, <2>2
<1>10. ASSUME NEW i \in 0 .. blk_num - 1
       PROVE  Last(i) = <<0, i>>
  <2>1. <<0, i>> \in Slots /\ Nth(<<0, i>>) = i
    BY <1>5, <1>6, <1>7
  <2>2. \A s \in Slots : s[1] = 0 /\ (Nth(s) = i => s = <<0, i>>)
    BY <1>4, <1>5, <1>6
  <2> HIDE DEF Nth, Slots
  <2>3. \A t \in Slots : Nth(t) = i => t[1] <= <<0, i>>[1]
    BY <2>2
  <2> QED
    BY <2>1, <2>2, <2>3
<1>12. ASSUME NEW s \in Slots PROVE Nth(s) \in 0 .. blk_num - 1
  BY <1>4, <1>5, <1>6
<1> HIDE DEF Last, Slots, Room, Nth, First
<1>11. ASSUME NEW i \in DOMAIN buffers'
       PROVE  buffers'[i] = [page |-> g_pages'[1], blk |-> i]
  <2>1. i \in 0 .. blk_num - 1
    BY <1>2, <1>12
  <2>2. Last(i)[1] + 1 = 1 /\ Last(i)[2] = i
    BY <1>10, <2>1
  <2>3. buffers'[i] = [page |-> g_pages'[Last(i)[1] + 1], blk |-> Last(i)[2]]
    BY <1>2
  <2> QED
    BY <2>2, <2>3
<1> QED
  BY <1>9, <1>11

(* The buffer returned for a card that was not used before has the blocks   *)
(* of its pages, each at its frame's number, and nothing is written behind  *)
(* its end.                                                                 *)
THEOREM BufferIsFrames == PagesSpec => []BufferMatches
<1>1. PagesInit => BufferMatches
  BY DEF PagesInit, BufferMatches
<1>2. BufferMatches /\ [PagesNext]_pageVars => BufferMatches'
  <2> SUFFICES ASSUME BufferMatches, [PagesNext]_pageVars PROVE BufferMatches'
    OBVIOUS
  <2>1. ASSUME NEW hupa \in 1 .. MaxHupa, NEW done \in 0 .. MaxHupa, NEW taken \in BOOLEAN,
               NEW n \in BlockCounts, NEW size \in BlockSizes, done <= hupa,
               alloc_c2h_buffers(hupa, n, size, done, taken)
        PROVE  BufferMatches'
    <3>1. fresh' = "c2h" \/ fresh' = "none"
      BY <2>1 DEF alloc_c2h_buffers
    <3>2. hupa \in Nat /\ done \in Nat /\ n \in Nat \ {0}
      BY PagesAssumption, CountsAre
    <3>3. CASE fresh' = "c2h"
      BY <2>1, <3>2, <3>3, C2hMatches
    <3>4. CASE fresh' = "none"
      BY <3>4 DEF BufferMatches
    <3> QED
      BY <3>1, <3>3, <3>4
  <2>2. ASSUME NEW hupa \in 1 .. MaxHupa, NEW done \in 0 .. MaxHupa, NEW taken \in BOOLEAN,
               NEW counts \in [1 .. hupa -> BlockCounts],
               NEW blk_num \in 0 .. counts[1] * hupa + 1, done <= hupa,
               alloc_h2c_buffers(hupa, counts, done, taken, blk_num)
        PROVE  BufferMatches'
    <3>1. fresh' = "h2c" \/ fresh' = "none"
      BY <2>2 DEF alloc_h2c_buffers
    <3>2. hupa \in Nat \ {0} /\ done \in Nat
      BY PagesAssumption, CountsAre
    <3>3. CASE fresh' = "h2c"
      BY <2>2, <3>2, <3>3, H2cMatches
    <3>4. CASE fresh' = "none"
      BY <3>4 DEF BufferMatches
    <3> QED
      BY <3>1, <3>3, <3>4
  <2>3. CASE free_buffers
    BY <2>3 DEF free_buffers, BufferMatches
  <2>4. CASE UNCHANGED pageVars
    BY <2>4 DEF pageVars, BufferMatches
  <2> QED
    BY <2>1, <2>2, <2>3, <2>4 DEF PagesNext
<1> QED
  BY <1>1, <1>2, PTL DEF PagesSpec

-----------------------------------------------------------------------------
LEMMA SmallMod ==
  ASSUME NEW a \in Nat, NEW b \in Nat \ {0}, a < b
  PROVE  a % b = a
BY Z3

LEMMA ModIsNat ==
  ASSUME NEW a \in Nat, NEW b \in Nat \ {0}
  PROVE  a % b \in Nat
BY Z3

\* What a test writes fits into a word, so two blocks have no word in common at
\* the same index.
LEMMA WordIs ==
  ASSUME NEW idx \in 0 .. MaxNum, NEW i \in Index
  PROVE  /\ Word(idx, i) \in Nat
         /\ idx < MaxNum => Word(idx, i) = idx * Shift + i
<1>1. /\ Shift \in Nat \ {0} /\ WordSize \in Nat \ {0} /\ BlockWords \in Nat \ {0}
      /\ MaxNum \in Nat /\ MaxNum * Shift + BlockWords <= WordSize
      /\ i \in Nat /\ i < BlockWords /\ idx \in Nat
  BY DiskAssumption DEF Index
<1>2. idx * Shift \in Nat
  BY <1>1
<1>3. Word(idx, i) \in Nat
  BY <1>1, <1>2, ModIsNat DEF Word
<1>4. ASSUME idx < MaxNum
      PROVE  Word(idx, i) = idx * Shift + i
  <2>1. idx * Shift + Shift <= MaxNum * Shift
    BY <1>1, <1>4, Rows
  <2>2. idx * Shift + i < WordSize /\ idx * Shift + i \in Nat
    <3>1. MaxNum * Shift \in Nat
      BY <1>1
    <3> QED
      BY <1>1, <1>2, <2>1, <3>1
  <2> QED
    BY <1>1, <2>2, SmallMod DEF Word
<1> QED
  BY <1>3, <1>4

Blocks == [Index -> Int]

DiskTypes ==
    /\ disk \in [0 .. Capacity - 1 -> Int]
    /\ buf \in Blocks /\ given \in Blocks /\ before \in Blocks
    /\ stored \in Seq(Int)
    /\ test \in [fn : {"none", "write2drive", "read_drive"},
                 num : 0 .. MaxNum, idx : 0 .. MaxNum, pos : Nat]
    /\ test.idx <= test.num

\* While a test runs it is the last call, and a test that writes is where it
\* should be; the first block of the drive has nothing of another block; the
\* file has the beginning of what was last written to it.
DiskInv ==
    /\ DiskTypes
    /\ test.fn # "none" => last.fn = "none"
    /\ test.fn = "write2drive" => test.pos = test.idx * BlockWords
    /\ \A i \in Index : i < Capacity => disk[i] \in {Junk, Word(0, i)}
    /\ there => /\ Len(stored) <= BlockWords
                /\ \A j \in 1 .. Len(stored) : stored[j] = given[j - 1]
    /\ Verified
    /\ ReadsWhole

LEMMA DiskStarts == DiskInit => DiskInv
<1> SUFFICES ASSUME DiskInit
             PROVE  DiskInv
  OBVIOUS
<1>1. DiskTypes
  BY DiskAssumption DEF DiskInit, DiskTypes, Blocks, NoTest, Junk
<1>2. \A i \in Index : i < Capacity => i \in 0 .. Capacity - 1
  BY DiskAssumption DEF Index
<1> QED
  BY <1>1, <1>2 DEF DiskInit, DiskInv, NoTest, Verified, ReadsWhole

LEMMA PatternIsBlock == \A idx \in 0 .. MaxNum : Pattern(idx) \in Blocks
BY WordIs DEF Pattern, Blocks

\* A step that leaves the drive and the file alone.
LEMMA OtherCall ==
  ASSUME DiskInv, NEW fn, fn \notin {"read_drive_block", "file_read"},
         NEW idx, NEW res, Return(fn, idx, res),
         UNCHANGED <<disk, stored, there, given>>,
         buf' \in Blocks, before' = buf',
         test' \in [fn : {"none", "write2drive", "read_drive"},
                    num : 0 .. MaxNum, idx : 0 .. MaxNum, pos : Nat],
         test'.idx <= test'.num,
         test'.fn # "none" => fn = "none" /\ test'.idx = 0 /\ test'.pos = 0
  PROVE  DiskInv'
<1>1. last' = [fn |-> fn, idx |-> idx, res |-> res]
  BY DEF Return
<1>2. DiskTypes'
  BY DEF DiskInv, DiskTypes
<1>3. Verified' /\ ReadsWhole'
  BY <1>1 DEF Verified, ReadsWhole
<1>4. test'.fn = "write2drive" => test'.pos = test'.idx * BlockWords
  BY DiskAssumption
<1> QED
  BY <1>1, <1>2, <1>3, <1>4 DEF DiskInv

\* The steps that leave the drive and the file alone, but for those of a test.
LEMMA QuietSteps ==
  ASSUME DiskInv, before' = buf',
         \/ \E idx \in 0 .. MaxNum : Refill(idx)
         \/ \E fn \in {"write2drive", "read_drive"}, num \in 0 .. MaxNum :
               BeginTest(fn, num) \/ OpenFails(fn, num)
         \/ TestDone
  PROVE  DiskInv'
<1>1. MaxNum \in Nat /\ 0 \in 0 .. MaxNum
  BY DiskAssumption
<1>2. buf \in Blocks /\ [i \in Index |-> Junk] \in Blocks
  BY DEF DiskInv, DiskTypes, Blocks, Junk
<1>3. ASSUME NEW idx \in 0 .. MaxNum, Refill(idx)
      PROVE  DiskInv'
  <2>1. buf' \in Blocks
    BY <1>2, <1>3, PatternIsBlock DEF Refill
  <2>2. Return("none", 0, 0) /\ test' = test /\ test.fn = "none"
        /\ UNCHANGED <<disk, stored, there, given>>
    BY <1>3 DEF Refill
  <2> QED
    BY <2>1, <2>2, OtherCall DEF DiskInv, DiskTypes
<1>4. ASSUME NEW fn \in {"write2drive", "read_drive"}, NEW num \in 0 .. MaxNum,
             BeginTest(fn, num)
      PROVE  DiskInv'
  <2>1. test' = [fn |-> fn, num |-> num, idx |-> 0, pos |-> 0]
        /\ Return("none", 0, 0)
        /\ UNCHANGED <<disk, stored, there, buf, given>>
    BY <1>4 DEF BeginTest
  <2>2. test' \in [fn : {"none", "write2drive", "read_drive"},
                   num : 0 .. MaxNum, idx : 0 .. MaxNum, pos : Nat]
        /\ test'.idx = 0 /\ test'.pos = 0 /\ test'.idx <= test'.num
    BY <1>1, <2>1
  <2> QED
    BY <1>2, <2>1, <2>2, OtherCall
<1>5. ASSUME NEW fn \in {"write2drive", "read_drive"}, NEW num \in 0 .. MaxNum,
             OpenFails(fn, num)
      PROVE  DiskInv'
  <2>1. Return(fn, num, -1) /\ test' = test /\ test.fn = "none" /\ buf' = buf
        /\ UNCHANGED <<disk, stored, there, given>>
    BY <1>5 DEF OpenFails
  <2> QED
    BY <1>2, <2>1, OtherCall DEF DiskInv, DiskTypes
<1>6. CASE TestDone
  <2>1. test' = NoTest /\ Return(test.fn, test.num, 0) /\ buf' = buf
        /\ test.fn \notin {"read_drive_block", "file_read"}
        /\ UNCHANGED <<disk, stored, there, given>>
    BY <1>6 DEF TestDone, EndTest, DiskInv, DiskTypes
  <2>2. test' \in [fn : {"none", "write2drive", "read_drive"},
                   num : 0 .. MaxNum, idx : 0 .. MaxNum, pos : Nat]
        /\ test'.fn = "none" /\ test'.idx <= test'.num
    BY <1>1, <2>1 DEF NoTest
  <2> QED
    BY <1>2, <2>1, <2>2, OtherCall
<1> QED
  BY <1>3, <1>4, <1>5, <1>6

\* What a read leaves in the buffer.
LEMMA GotIsBlock ==
  ASSUME NEW k \in 0 .. BlockWords, NEW f, NEW b, buf \in Blocks,
         \A i \in 0 .. k - 1 : f[i] \in Int,
         b = [i \in Index |-> IF i < k THEN f[i] ELSE buf[i]]
  PROVE  b \in Blocks
BY DiskAssumption DEF Blocks, Index

\* file_write() and file_write_direct(): what is in the file is the beginning
\* of what was given.
LEMMA WritesBeginning ==
  ASSUME DiskInv, before' = buf',
         NEW fn \in {"file_write", "file_write_direct"}, FileWrite(fn)
  PROVE  DiskInv'
<1>1. CASE Return(fn, 0, -1) /\ UNCHANGED <<stored, there, given>>
  <2>1. UNCHANGED <<disk, buf, test>> /\ test.fn = "none"
    BY DEF FileWrite
  <2> QED
    BY <1>1, <2>1, OtherCall DEF DiskInv, DiskTypes
<1>2. ASSUME NEW kept \in 0 .. BlockWords, NEW res,
             given' = buf, there' = TRUE,
             stored' = [j \in 1 .. kept |-> buf[j - 1]], Return(fn, 0, res)
      PROVE  DiskInv'
  <2>1. UNCHANGED <<disk, buf, test>> /\ test.fn = "none"
    BY DEF FileWrite
  <2>2. \A j \in 1 .. kept : j - 1 \in Index
    BY DiskAssumption DEF Index
  <2>3. \A j \in 1 .. kept : buf[j - 1] \in Int
    BY <2>2 DEF DiskInv, DiskTypes, Blocks
  <2>4. kept \in Nat
    BY DiskAssumption
  <2>5. stored' \in Seq(Int) /\ Len(stored') = kept
        /\ \A j \in 1 .. kept : stored'[j] = given'[j - 1]
    BY <1>2, <2>3, <2>4
  <2>6. last' = [fn |-> fn, idx |-> 0, res |-> res]
    BY <1>2 DEF Return
  <2>7. DiskTypes'
    BY <1>2, <2>1, <2>5 DEF DiskInv, DiskTypes
  <2>8. Verified' /\ ReadsWhole'
    BY <2>6 DEF Verified, ReadsWhole
  <2> QED
    BY <2>1, <2>4, <2>5, <2>6, <2>7, <2>8, DiskAssumption DEF DiskInv
<1> QED
  BY <1>1, <1>2 DEF FileWrite

\* file_read() has compared the number of words, file_read_direct() is not
\* asked about.
LEMMA ReadsBeginning ==
  ASSUME DiskInv, before' = buf',
         NEW fn \in {"file_read", "file_read_direct"}, FileRead(fn)
  PROVE  DiskInv'
<1>1. UNCHANGED <<disk, stored, there, test, given>> /\ test.fn = "none"
  BY DEF FileRead
<1>2. BlockWords \in Nat \ {0} /\ DiskTypes /\ buf \in Blocks /\ given \in Blocks
  BY DiskAssumption DEF DiskInv, DiskTypes
<1>3. ASSUME NEW res, res # 0, buf' = buf, Return(fn, 0, res)
      PROVE  DiskInv'
  <2>1. last' = [fn |-> fn, idx |-> 0, res |-> res]
    BY <1>3 DEF Return
  <2>2. DiskTypes'
    BY <1>1, <1>2, <1>3 DEF DiskTypes
  <2>3. Verified' /\ ReadsWhole'
    BY <1>3, <2>1 DEF Verified, ReadsWhole
  <2> QED
    BY <1>1, <2>1, <2>2, <2>3 DEF DiskInv
<1>4. ASSUME NEW k \in 0 .. Len(stored), NEW err \in BOOLEAN, there,
             buf' = Got(k, [i \in 0 .. k - 1 |-> stored[i + 1]]),
             Return(fn, 0, IF Complete(fn, k, err) THEN 0 ELSE -2)
      PROVE  DiskInv'
  <2>1. stored \in Seq(Int) /\ Len(stored) <= BlockWords
        /\ \A j \in 1 .. Len(stored) : stored[j] = given[j - 1]
    BY <1>2, <1>4 DEF DiskInv, DiskTypes
  <2>2. buf' = [i \in Index |-> IF i < k THEN stored[i + 1] ELSE buf[i]]
    BY <1>4 DEF Got, Index
  <2>3. Len(stored) \in Nat /\ k \in 0 .. BlockWords
    BY <1>2, <2>1
  <2>4. \A i \in Index : i < k => i + 1 \in 1 .. Len(stored)
    BY <1>2, <2>3 DEF Index
  <2>5. \A i \in Index : i < k => stored[i + 1] \in Int /\ stored[i + 1] = given[i]
    <3>1. ASSUME NEW i \in Index, i < k
          PROVE  stored[i + 1] \in Int /\ stored[i + 1] = given[i]
      <4>1. i + 1 \in 1 .. Len(stored) /\ (i + 1) - 1 = i
        BY <2>4, <3>1 DEF Index
      <4>2. stored[i + 1] = given[(i + 1) - 1]
        BY <2>1, <4>1
      <4> QED
        BY <2>1, <4>1, <4>2
    <3> QED
      BY <3>1
  <2>6. buf' \in Blocks
    BY <1>2, <2>2, <2>5 DEF Blocks
  <2>7. last' = [fn |-> fn, idx |-> 0,
                 res |-> IF Complete(fn, k, err) THEN 0 ELSE -2]
    BY <1>4 DEF Return
  <2>8. ReadsWhole'
    <3> SUFFICES ASSUME fn = "file_read", k = BlockWords
                 PROVE  buf' = given'
      BY <2>7 DEF ReadsWhole, Complete, Checked
    <3>1. \A i \in Index : i < k
      BY <1>2 DEF Index
    <3>2. \A i \in Index : buf'[i] = given[i]
      BY <2>2, <2>5, <3>1
    <3> QED
      BY <1>1, <1>2, <2>6, <3>2 DEF Blocks
  <2>9. DiskTypes' /\ Verified'
    BY <1>1, <1>2, <2>6, <2>7 DEF DiskTypes, Verified
  <2> QED
    BY <1>1, <2>7, <2>8, <2>9 DEF DiskInv
<1>5. Return(fn, 0, -1) /\ UNCHANGED buf => DiskInv'
  BY <1>3
<1> QED
  BY <1>4, <1>5 DEF FileRead

IsOver == /\ test' = NoTest
          /\ UNCHANGED last \/ \E res : Return(test.fn, test.num, res)

GoesOn == /\ test.idx < test.num /\ UNCHANGED last
          /\ \E k \in Nat :
               /\ test.fn = "write2drive" => k = BlockWords
               /\ test' = [fn |-> test.fn, num |-> test.num,
                           idx |-> test.idx + 1, pos |-> test.pos + k]

Places == [fn : {"none", "write2drive", "read_drive"},
           num : 0 .. MaxNum, idx : 0 .. MaxNum, pos : Nat]

\* A step of a test that runs.
LEMMA TestStep ==
  ASSUME DiskInv, test.fn # "none", UNCHANGED <<stored, there, given>>,
         disk' \in [0 .. Capacity - 1 -> Int],
         buf' \in Blocks, before' = buf',
         \A i \in Index : i < Capacity => disk'[i] \in {Junk, Word(0, i)},
         IsOver \/ GoesOn
  PROVE  DiskInv'
<1>1. BlockWords \in Nat \ {0} /\ MaxNum \in Nat
  BY DiskAssumption
<1>2. DiskTypes /\ last.fn = "none"
      /\ (test.fn = "write2drive" => test.pos = test.idx * BlockWords)
  BY DEF DiskInv
<1>3. test.idx \in Nat /\ test.num \in 0 .. MaxNum /\ test.pos \in Nat
      /\ test.fn \in {"write2drive", "read_drive"}
  BY <1>1, <1>2 DEF DiskTypes
<1>4. last'.fn \notin {"read_drive_block", "file_read"}
      /\ (test'.fn # "none" => last'.fn = "none")
  BY <1>2, <1>3 DEF IsOver, GoesOn, Return, NoTest
<1>5. /\ test' \in Places
      /\ test'.idx <= test'.num
      /\ test'.fn = "write2drive" => test'.pos = test'.idx * BlockWords
  <2>1. CASE IsOver
    BY <1>1, <2>1 DEF IsOver, NoTest, Places
  <2>2. CASE GoesOn
    <3>1. PICK k \in Nat : /\ test.fn = "write2drive" => k = BlockWords
                           /\ test' = [fn |-> test.fn, num |-> test.num,
                                 idx |-> test.idx + 1, pos |-> test.pos + k]
      BY <2>2 DEF GoesOn
    <3>2. (test.idx + 1) * BlockWords = test.idx * BlockWords + BlockWords
      BY <1>1, <1>3
    <3>3. test'.fn = "write2drive" => test'.pos = test'.idx * BlockWords
      BY <1>2, <3>1, <3>2
    <3>4. /\ test.idx + 1 \in 0 .. MaxNum /\ test.pos + k \in Nat
          /\ test.idx + 1 <= test.num
      BY <1>1, <1>3, <2>2 DEF GoesOn
    <3> QED
      BY <1>3, <3>1, <3>3, <3>4 DEF Places
  <2> QED
    BY <2>1, <2>2
<1>6. DiskTypes'
  BY <1>2, <1>5 DEF DiskTypes, Places
<1>7. Verified' /\ ReadsWhole'
  BY <1>4 DEF Verified, ReadsWhole
<1>8. there' => /\ Len(stored') <= BlockWords
                /\ \A j \in 1 .. Len(stored') : stored'[j] = given'[j - 1]
  BY DEF DiskInv
<1> QED
  BY <1>4, <1>5, <1>6, <1>7, <1>8 DEF DiskInv

\* How a step of a test ends.
LEMMA NextOrEnd ==
  ASSUME DiskTypes
  PROVE  /\ \A res : EndTest(res) => IsOver
         /\ \A k \in Nat : NextBlock(k) /\ test.idx < test.num
              /\ (test.fn = "write2drive" => k = BlockWords) => GoesOn
<1>1. \A res : EndTest(res) => IsOver
  BY DEF EndTest, IsOver
<1>2. ASSUME NEW k \in Nat, NextBlock(k), test.idx < test.num,
             test.fn = "write2drive" => k = BlockWords
      PROVE  GoesOn
  <2>1. test' = [test EXCEPT !.idx = @ + 1, !.pos = @ + k] /\ UNCHANGED last
    BY <1>2 DEF NextBlock
  <2>2. test' = [fn |-> test.fn, num |-> test.num,
                 idx |-> test.idx + 1, pos |-> test.pos + k]
    BY <2>1 DEF DiskTypes
  <2> QED
    BY <1>2, <2>1, <2>2 DEF GoesOn
<1> QED
  BY <1>1, <1>2

\* write2drive() puts something into the first block in its first turn only.
LEMMA WritesItsBlock ==
  ASSUME DiskInv, before' = buf', WriteBlock
  PROVE  DiskInv'
<1>1. /\ BlockWords \in Nat \ {0} /\ MaxNum \in Nat /\ Capacity \in Nat
      /\ DiskTypes
  BY DiskAssumption DEF DiskInv
<1>2. /\ test.fn = "write2drive" /\ test.idx < test.num
      /\ buf' = Pattern(test.idx) /\ UNCHANGED <<stored, there, given>>
  BY DEF WriteBlock
<1>3. /\ test.idx \in 0 .. MaxNum /\ test.idx \in Nat /\ test.pos \in Nat
      /\ test.pos = test.idx * BlockWords
  BY <1>1, <1>2 DEF DiskInv, DiskTypes
<1>4. PICK k \in 0 .. BlockWords :
         /\ disk' \in {disk, Onto(test.pos, k, buf')}
         /\ IF k = BlockWords THEN NextBlock(k) ELSE EndTest(-1)
  BY DEF WriteBlock
<1>5. buf' \in Blocks
  BY <1>2, <1>3, PatternIsBlock
<1>6. DOMAIN disk = 0 .. Capacity - 1 /\ k \in Nat /\ k <= BlockWords
  BY <1>1 DEF DiskTypes
<1>7. \A w \in test.pos .. test.pos + k - 1 : w - test.pos \in Index
  BY <1>1, <1>3, <1>6 DEF Index
<1>8. disk' \in [0 .. Capacity - 1 -> Int]
  <2>1. \A w \in test.pos .. test.pos + k - 1 : buf'[w - test.pos] \in Int
    BY <1>5, <1>7 DEF Blocks
  <2> QED
    BY <1>1, <1>4, <1>6, <2>1 DEF Onto, DiskTypes
<1>9. ASSUME NEW i \in Index, i < Capacity
      PROVE  disk'[i] \in {Junk, Word(0, i)}
  <2>1. i \in 0 .. Capacity - 1 /\ i \in Nat /\ i < BlockWords
    BY <1>1, <1>9 DEF Index
  <2>2. disk[i] \in {Junk, Word(0, i)}
    BY <1>9 DEF DiskInv
  <2>3. ASSUME i \in test.pos .. test.pos + k - 1
        PROVE  test.idx = 0 /\ test.pos = 0
    <3>1. test.idx # 0 => BlockWords <= test.idx * BlockWords
      BY <1>1, <1>3, Rows
    <3> QED
      BY <1>1, <1>3, <2>1, <2>3, <3>1
  <2>4. i \in test.pos .. test.pos + k - 1 => buf'[i - test.pos] = Word(0, i)
    BY <1>2, <1>9, <2>1, <2>3 DEF Pattern
  <2> QED
    BY <1>4, <1>6, <2>1, <2>2, <2>4 DEF Onto
<1>10. IsOver \/ GoesOn
  BY <1>1, <1>2, <1>4, <1>6, NextOrEnd
<1> QED
  BY <1>2, <1>5, <1>8, <1>9, <1>10, TestStep

LEMMA ReadsItsBlock ==
  ASSUME DiskInv, before' = buf', ReadBlock
  PROVE  DiskInv'
<1>1. /\ BlockWords \in Nat \ {0} /\ MaxNum \in Nat /\ Capacity \in Nat
      /\ DiskTypes
  BY DiskAssumption DEF DiskInv
<1>2. /\ test.fn = "read_drive" /\ test.idx < test.num
      /\ UNCHANGED <<disk, stored, there, given>>
  BY DEF ReadBlock
<1>3. test.pos \in Nat /\ disk \in [0 .. Capacity - 1 -> Int] /\ buf \in Blocks
  BY <1>1 DEF DiskTypes
<1>4. \A i \in Index : i < Capacity => disk'[i] \in {Junk, Word(0, i)}
  BY <1>2 DEF DiskInv
<1>5. CASE EndTest(-1) /\ UNCHANGED buf
  BY <1>1, <1>2, <1>3, <1>4, <1>5, NextOrEnd, TestStep
<1>6. ASSUME NEW k \in 0 .. BlockWords, test.pos + k <= Capacity,
             buf' = Got(k, [i \in 0 .. k - 1 |-> disk[test.pos + i]]),
             IF buf' = Pattern(test.idx) THEN NextBlock(k) ELSE EndTest(0)
      PROVE  DiskInv'
  <2>1. buf' = [i \in Index |-> IF i < k THEN disk[test.pos + i] ELSE buf[i]]
    BY <1>6 DEF Got, Index
  <2>2. \A i \in 0 .. k - 1 : test.pos + i \in 0 .. Capacity - 1
    BY <1>1, <1>3, <1>6
  <2>3. \A i \in Index : i < k => disk[test.pos + i] \in Int
    BY <1>3, <2>2 DEF Index
  <2>4. buf' \in Blocks
    BY <1>3, <2>1, <2>3 DEF Blocks
  <2>5. k \in Nat
    BY <1>1
  <2>6. IsOver \/ GoesOn
    <3> HIDE <1>6
    <3>1. NextBlock(k) \/ EndTest(0)
      BY <1>6
    <3> QED
      BY <1>1, <1>2, <2>5, <3>1, NextOrEnd
  <2> QED
    BY <1>2, <1>3, <1>4, <2>4, <2>6, TestStep
<1> QED
  BY <1>5, <1>6 DEF ReadBlock

LEMMA Dies ==
  ASSUME DiskInv, before' = buf', Killed
  PROVE  DiskInv'
<1>1. /\ UNCHANGED <<disk, stored, there, given, last>> /\ test.fn # "none"
      /\ test' = NoTest /\ buf' = [i \in Index |-> Junk]
  BY DEF Killed
<1>2. buf' \in Blocks /\ disk' \in [0 .. Capacity - 1 -> Int]
      /\ \A i \in Index : i < Capacity => disk'[i] \in {Junk, Word(0, i)}
  BY <1>1 DEF Blocks, Junk, DiskInv, DiskTypes
<1>3. IsOver
  BY <1>1 DEF IsOver
<1> QED
  BY <1>1, <1>2, <1>3, TestStep

LEMMA Deletes ==
  ASSUME DiskInv, before' = buf', file_delete
  PROVE  DiskInv'
<1>1. /\ UNCHANGED <<disk, buf, test, given>> /\ test.fn = "none"
      /\ last' = [fn |-> "file_delete", idx |-> 0, res |-> 0]
      /\ (there' = FALSE /\ stored' = <<>>) \/ UNCHANGED <<there, stored>>
  BY DEF file_delete, Return
<1>2. DiskTypes
  BY DEF DiskInv
<1>3. stored' \in Seq(Int)
  <2>1. stored' = <<>> \/ stored' = stored
    BY <1>1
  <2>2. stored \in Seq(Int) /\ <<>> \in Seq(Int)
    BY <1>2, EmptySeq DEF DiskTypes
  <2> QED
    BY <2>1, <2>2
<1>4. DiskTypes'
  BY <1>1, <1>2, <1>3 DEF DiskTypes
<1>5. Verified' /\ ReadsWhole'
  BY <1>1 DEF Verified, ReadsWhole
<1>6. there' => there /\ stored' = stored
  BY <1>1
<1> QED
  BY <1>1, <1>4, <1>5, <1>6 DEF DiskInv

\* What read_drive_block() finds, although it may be where it should not be.
LEMMA Confirms ==
  ASSUME DiskInv, NEW idx \in 0 .. MaxNum - 1, read_drive_block(idx)
  PROVE  DiskInv'
<1>1. /\ before' = buf /\ test.fn = "none"
      /\ UNCHANGED <<disk, stored, there, test, given>>
  BY DEF read_drive_block
<1>2. /\ BlockWords \in Nat \ {0} /\ MaxNum \in Nat /\ Capacity \in Nat
      /\ Shift \in Nat \ {0}
  BY DiskAssumption
<1>3. /\ DiskTypes /\ buf \in Blocks
      /\ disk \in [0 .. Capacity - 1 -> Int]
  BY DEF DiskInv, DiskTypes
<1>4. idx \in 0 .. MaxNum /\ 0 \in 0 .. MaxNum /\ 0 < MaxNum /\ idx < MaxNum
      /\ idx \in Nat
  BY <1>2
<1>5. ASSUME NEW res, last' = [fn |-> "read_drive_block", idx |-> idx, res |-> res],
             buf' \in Blocks,
             res = 0 => \A i \in Index :
               \/ idx * BlockWords + i < Capacity
                  /\ disk[idx * BlockWords + i] = Word(idx, i)
               \/ buf[i] = Word(idx, i)
      PROVE  DiskInv'
  <2>1. DiskTypes'
    BY <1>1, <1>3, <1>5 DEF DiskTypes
  <2>2. Verified' /\ ReadsWhole'
    BY <1>1, <1>5 DEF Verified, ReadsWhole
  <2> QED
    BY <1>1, <2>1, <2>2 DEF DiskInv
<1>6. CASE Return("read_drive_block", idx, -1) /\ UNCHANGED buf
  BY <1>3, <1>5, <1>6 DEF Return
<1>7. ASSUME NEW pos \in {0, idx * BlockWords}, NEW k \in 0 .. BlockWords,
             k > 0 => pos + k <= Capacity,
             buf' = [i \in Index |-> IF i < k THEN disk[pos + i] ELSE buf[i]],
             NEW res, Return("read_drive_block", idx, res),
             res = 0 => buf' = Pattern(idx)
      PROVE  DiskInv'
  <2>1. pos \in Nat /\ k \in Nat
    BY <1>2, <1>4
  <2>2. \A i \in Index : i < k => pos + i \in 0 .. Capacity - 1 /\ i \in Nat
    BY <1>2, <1>7, <2>1 DEF Index
  <2>3. buf' \in Blocks
    BY <1>3, <1>7, <2>2 DEF Blocks
  <2>4. ASSUME res = 0, NEW i \in Index
        PROVE  \/ idx * BlockWords + i < Capacity
                  /\ disk[idx * BlockWords + i] = Word(idx, i)
               \/ buf[i] = Word(idx, i)
    <3>1. buf'[i] = Word(idx, i)
      BY <1>7, <2>4 DEF Pattern
    <3>2. CASE ~(i < k)
      BY <1>7, <3>1, <3>2
    <3>3. CASE i < k
      <4>1. disk[pos + i] = Word(idx, i) /\ i \in Nat /\ pos + i < Capacity
        BY <1>2, <1>7, <2>1, <2>2, <3>1, <3>3
      <4>2. CASE pos = idx * BlockWords
        BY <4>1, <4>2
      <4>3. CASE pos = 0 /\ idx # 0
        <5>1. disk[i] \in {Junk, Word(0, i)} /\ disk[i] = Word(idx, i)
          BY <4>1, <4>3 DEF DiskInv
        <5>2. Word(0, i) = 0 * Shift + i /\ Word(idx, i) = idx * Shift + i
              /\ Word(idx, i) \in Nat
          BY <1>4, <2>4, WordIs
        <5>3. 0 * Shift = 0 /\ idx * Shift # 0 /\ idx * Shift \in Nat
          <6>1. 0 * Shift + Shift <= idx * Shift
            BY <1>2, <1>4, <4>3, Rows
          <6> QED
            BY <1>2, <1>4, <6>1
        <5>4. Word(idx, i) # Junk /\ Word(idx, i) # Word(0, i)
          BY <4>1, <5>2, <5>3 DEF Junk
        <5> QED
          BY <5>1, <5>4
      <4>4. idx = 0 => idx * BlockWords = 0
        BY <1>2
      <4> QED
        BY <1>7, <4>2, <4>3, <4>4
    <3> QED
      BY <3>2, <3>3
  <2>5. last' = [fn |-> "read_drive_block", idx |-> idx, res |-> res]
    BY <1>7 DEF Return
  <2> QED
    BY <1>5, <2>3, <2>4, <2>5
<1>8. ASSUME NEW pos \in {0, idx * BlockWords}, NEW k \in 0 .. BlockWords,
             k > 0 => pos + k <= Capacity,
             buf' = Got(k, [i \in 0 .. k - 1 |-> disk[pos + i]]),
             Return("read_drive_block", idx, IF buf' = Pattern(idx) THEN 0 ELSE -1)
      PROVE  DiskInv'
  <2> DEFINE res == IF buf' = Pattern(idx) THEN 0 ELSE -1
  <2>1. res = 0 => buf' = Pattern(idx)
    OBVIOUS
  <2>2. Return("read_drive_block", idx, res)
    BY <1>8
  <2>3. buf' = [i \in Index |-> IF i < k THEN disk[pos + i] ELSE buf[i]]
    BY <1>8 DEF Got, Index
  <2> HIDE DEF res
  <2> QED
    BY <1>7, <1>8, <2>1, <2>2, <2>3
<1> QED
  BY <1>6, <1>8 DEF read_drive_block

LEMMA DiskSteps == DiskInv /\ [DiskNext]_diskVars => DiskInv'
<1> SUFFICES ASSUME DiskInv, [DiskNext]_diskVars
             PROVE  DiskInv'
  OBVIOUS
<1>1. CASE UNCHANGED diskVars
  BY <1>1 DEF diskVars, DiskInv, DiskTypes, Verified, ReadsWhole
<1>2. ASSUME NEW idx \in 0 .. MaxNum - 1, read_drive_block(idx)
      PROVE  DiskInv'
  BY <1>2, Confirms
<1>3. ASSUME before' = buf',
             \/ \E fn \in {"file_write", "file_write_direct"} : FileWrite(fn)
             \/ \E fn \in {"file_read", "file_read_direct"} : FileRead(fn)
      PROVE  DiskInv'
  BY <1>3, WritesBeginning, ReadsBeginning
<1>4. ASSUME before' = buf',
             file_delete \/ WriteBlock \/ ReadBlock \/ Killed
      PROVE  DiskInv'
  BY <1>4, Deletes, WritesItsBlock, ReadsItsBlock, Dies
<1>5. ASSUME before' = buf',
             \/ \E idx \in 0 .. MaxNum : Refill(idx)
             \/ \E fn \in {"write2drive", "read_drive"}, num \in 0 .. MaxNum :
                   BeginTest(fn, num) \/ OpenFails(fn, num)
             \/ TestDone
      PROVE  DiskInv'
  BY <1>5, QuietSteps
<1> QED
  BY <1>1, <1>2, <1>3, <1>4, <1>5 DEF DiskNext

(* A block that read_drive_block() confirms is on the drive, or was in the  *)
(* buffer already: a position that was not set is never taken for it.       *)
THEOREM ConfirmedIsThere == DiskSpec => []Verified
<1>1. DiskInv => Verified
  BY DEF DiskInv
<1> QED
  BY <1>1, DiskStarts, DiskSteps, PTL DEF DiskSpec

(* file_read() returns nothing, or all that was given to the last write.    *)
THEOREM ReadIsWhole == DiskSpec => []ReadsWhole
<1>1. DiskInv => ReadsWhole
  BY DEF DiskInv
<1> QED
  BY <1>1, DiskStarts, DiskSteps, PTL DEF DiskSpec
=============================================================================
