-------------------------------- MODULE Mkfs --------------------------------
(***************************************************************************)
(* mkfs.c: the image that the kernel boots from.  A block is a row of      *)
(* slots; a slot holds a piece of a file or of the kernel, a directory     *)
(* entry, an inode, the address of a block, a bit of the map, a super      *)
(* block or the partition table.  BSIZE counts the pieces of a block, and  *)
(* a directory entry is as long as a piece.                                *)
(***************************************************************************)
EXTENDS Integers, Sequences, FiniteSets, FiniteSetsExt, SequencesExt

CONSTANTS
  BSIZE, IPB, BPB, NDIRECT, NINDIRECT,
  NINODES, LOGSIZE, FSSIZE, NPARTITIONS,
  KernelSizes,  \* the lengths of the kernel and of the files that mkfs is run with
  Arguments

VARIABLES
  kernel, argv,  \* the inputs: the length of the kernel, and of every file
  mkpc,
  img,           \* the blocks written
  part,          \* mbr.partitions as far as they are created
  freeinode, freeblock,
  arg,           \* the file that is being written, and how much of it is
  done

mkfsVars == <<kernel, argv, mkpc, img, part, freeinode, freeblock, arg, done>>

Zero == <<0>>
Stale == <<1>>                     \* what buf[] held before
Piece(f, k) == <<f, k>>            \* piece k of file f, or of the kernel (0)
dirent(inum, name) == <<inum, name, 0>>
Dot == 0
DotDot == -1
ROOTINO == 1

MAXFILE == NDIRECT + NINDIRECT

zeroes == [k \in 0..(BPB - 1) |-> Zero]
nbitmap == FSSIZE \div BPB + 1
ninodeblocks == NINODES \div IPB + 1
nmeta == 1 + LOGSIZE + ninodeblocks + nbitmap

\* The partition that is being written, and its super block
offset == part[Len(part)].offset
sb == [size |-> part[Len(part)].size, nblocks |-> part[Len(part)].size - nmeta,
       ninodes |-> NINODES, nlog |-> LOGSIZE, logstart |-> offset + 1,
       inodestart |-> offset + 1 + LOGSIZE, bmapstart |-> offset + 1 + LOGSIZE + ninodeblocks]

MkfsInit(ks, as) ==
  /\ kernel \in ks /\ argv \in as
  /\ mkpc = "kernel" /\ part = <<>>
  /\ img = [b \in 0..(FSSIZE - 1) |-> zeroes]
  /\ freeinode = 1 /\ freeblock = 0 /\ arg = 0 /\ done = 0

input == <<kernel, argv>>

IBLOCK(i) == i \div IPB + sb.inodestart
winode(im, inum, din) == [im EXCEPT ![IBLOCK(inum)][inum % IPB] = din]
rinode(inum) == img[IBLOCK(inum)][inum % IPB]
ialloc(type) ==
  /\ freeinode' = freeinode + 1
  /\ img' = winode(img, freeinode, [type |-> type, size |-> 0, addrs |-> [a \in 0..NDIRECT |-> 0]])

\* iappend(): s is the image, the inode and freeblock, and whether mkfs goes on.  The
\* next block is taken when a piece is the first of a block.  assert(fbn < MAXFILE) may
\* fail, and rsect() of a block behind the end of the image.
Taken(s, a) == IF s.din.addrs[a] # 0 THEN s
               ELSE [s EXCEPT !.din.addrs[a] = s.free, !.free = @ + 1]
Entered(s, b, k) == IF s.im[b][k] # Zero THEN s
                    ELSE [s EXCEPT !.im[b][k] = <<s.free>>, !.free = @ + 1]
append1(s, piece) ==
  LET fbn == s.din.size \div BSIZE
      direct == Taken(s, fbn)
      table == Taken(s, NDIRECT)
      at == table.din.addrs[NDIRECT]
      indirect == Entered(table, at, fbn - NDIRECT)
      t == IF fbn < NDIRECT THEN direct ELSE indirect
      x == IF fbn < NDIRECT THEN t.din.addrs[fbn] ELSE t.im[at][fbn - NDIRECT][1]
  IN IF ~s.ok \/ fbn >= MAXFILE \/ (fbn >= NDIRECT /\ at \notin DOMAIN s.im)
     THEN [s EXCEPT !.ok = FALSE]
     ELSE IF x \notin DOMAIN s.im THEN [t EXCEPT !.ok = FALSE]
     ELSE [t EXCEPT !.im[x][s.din.size % BSIZE] = piece, !.din.size = @ + 1]
iappend(inum, pieces, next) ==
  LET s == FoldLeft(append1, [im |-> img, din |-> rinode(inum), free |-> freeblock, ok |-> TRUE],
                    pieces)
  IN /\ img' = IF s.ok THEN winode(s.im, inum, s.din) ELSE s.im
     /\ freeblock' = s.free
     /\ mkpc' = IF s.ok THEN next ELSE "failed"

\* balloc(): the first bits of the map
\* Fault: the map counts from the start of the partition.
Faultballoc(im, used) ==
  [im EXCEPT ![sb.bmapstart] = [k \in 0..(BPB - 1) |-> IF k < used + nmeta THEN <<1>> ELSE Zero]]
balloc(im, used) ==
  [im EXCEPT ![sb.bmapstart] = [k \in 0..(BPB - 1) |-> IF k < used THEN <<1>> ELSE Zero]]

-----------------------------------------------------------------------------
\* main() and create_bootload_kernel(): the kernel from block 1 on; when the kernel or
\* a file cannot be opened mkfs exits.
wsect(im, b, block) == [c \in DOMAIN im \cup {b} |-> IF c = b THEN block ELSE im[c]]
Fails == mkpc' = "failed" /\ UNCHANGED <<input, img, part, freeinode, freeblock, arg, done>>
create_bootload_kernel ==
  /\ mkpc = "kernel"
  /\ \/ /\ done < kernel
        /\ img' = wsect(img, 1 + done \div BSIZE,
                        [k \in DOMAIN zeroes |-> IF k >= BSIZE THEN Zero
                                                 ELSE IF done + k < kernel THEN Piece(0, done + k)
                                                 ELSE Stale])
        /\ done' = Min({kernel, done + BSIZE})
        /\ UNCHANGED <<input, mkpc, part, freeinode, freeblock, arg>>
     \/ /\ done = kernel
        /\ mkpc' = "partition" /\ done' = 0
        /\ UNCHANGED <<input, img, part, freeinode, freeblock, arg>>
     \/ done = 0 /\ Fails

\* create_partition(), add_partition(), and the start of init_partition(): zeroes
create_partition ==
  /\ mkpc = "partition"
  /\ LET n == Len(part)
         o == IF n = 0 THEN 1 + (kernel + BSIZE - 1) \div BSIZE ELSE part[n].offset + part[n].size
     IN /\ part' = Append(part, [bootable |-> TRUE, offset |-> o, size |-> FSSIZE])
        /\ img' = [b \in DOMAIN img \cup o..(o + FSSIZE - 1) |->
                     IF b >= o /\ b < o + FSSIZE THEN zeroes ELSE img[b]]
        /\ freeblock' = o + nmeta
  /\ freeinode' = 1 /\ mkpc' = "root"
  /\ UNCHANGED <<input, arg, done>>

\* init_partition(): the root directory
init_root ==
  /\ mkpc = "root" /\ ialloc("T_DIR") /\ mkpc' = "dots"
  /\ UNCHANGED <<input, part, freeblock, arg, done>>
init_dots ==
  /\ mkpc = "dots"
  /\ iappend(ROOTINO, <<dirent(ROOTINO, Dot), dirent(ROOTINO, DotDot)>>, "open")
  /\ arg' = 1
  /\ UNCHANGED <<input, part, freeinode, done>>

\* root_handler(): for every file an inode, an entry of the root and the pieces
root_file ==
  /\ mkpc = "open" /\ arg <= Len(argv)
  /\ \/ /\ ialloc("T_FILE") /\ mkpc' = "entry"
        /\ UNCHANGED <<input, part, freeblock, arg, done>>
     \/ Fails
root_entry ==
  /\ mkpc = "entry" /\ iappend(ROOTINO, <<dirent(freeinode - 1, arg)>>, "read")
  /\ UNCHANGED <<input, part, freeinode, arg, done>>
root_read ==
  /\ mkpc = "read"
  /\ LET n == Min({BSIZE, argv[arg] - done}) IN
       \/ /\ n > 0 /\ iappend(freeinode - 1, [k \in 1..n |-> Piece(arg, done + k - 1)], "read")
          /\ done' = done + n
          /\ UNCHANGED <<input, part, freeinode, arg>>
       \/ /\ n = 0 /\ arg' = arg + 1 /\ done' = 0 /\ mkpc' = "open"
          /\ UNCHANGED <<input, img, part, freeinode, freeblock>>

\* The end of init_partition(): the size of the root, the bitmap (with the assertion of
\* balloc()), the super block with its offsets made relative
init_finish ==
  /\ mkpc = "open" /\ arg > Len(argv)
  /\ LET din == rinode(ROOTINO)
         rooted == winode(img, ROOTINO, [din EXCEPT !.size = (@ \div BSIZE + 1) * BSIZE])
         used == freeblock - (offset + nmeta)
         relative == [sb EXCEPT !.logstart = @ - offset, !.inodestart = @ - offset,
                                !.bmapstart = @ - offset]
     IN IF used < BPB
        THEN /\ img' = [balloc(rooted, used) EXCEPT ![offset][0] = relative]
             /\ mkpc' = IF Len(part) < NPARTITIONS THEN "partition" ELSE "mbr"
        ELSE img' = rooted /\ mkpc' = "failed"
  /\ UNCHANGED <<input, part, freeinode, freeblock, arg, done>>

write_mbr ==
  /\ mkpc = "mbr"
  /\ img' = [img EXCEPT ![0][0] = part] /\ mkpc' = "done"
  /\ UNCHANGED <<input, part, freeinode, freeblock, arg, done>>

MkfsStep ==
  \/ create_bootload_kernel \/ create_partition \/ init_root \/ init_dots
  \/ root_file \/ root_entry \/ root_read \/ init_finish \/ write_mbr

-----------------------------------------------------------------------------
(* The image as the kernel reads it *)

readsb(p) ==
  LET s == img[p.offset][0]
  IN [s EXCEPT !.logstart = @ + p.offset, !.inodestart = @ + p.offset, !.bmapstart = @ + p.offset]
inode(s, i) == img[s.inodestart + i \div IPB][i % IPB]
Indirect(din) == IF din.addrs[NDIRECT] = 0 THEN zeroes ELSE img[din.addrs[NDIRECT]]
bmap(din, fbn) == IF fbn < NDIRECT THEN din.addrs[fbn] ELSE Indirect(din)[fbn - NDIRECT][1]
readi(din, k) == LET b == bmap(din, k \div BSIZE) IN IF b = 0 THEN Zero ELSE img[b][k % BSIZE]

\* The places of an inode that name a block
Places(din) == {a \in 0..NDIRECT : din.addrs[a] # 0}
               \cup {NDIRECT + 1 + k : k \in {k \in 0..(NINDIRECT - 1) : Indirect(din)[k] # Zero}}
Block(din, a) == IF a <= NDIRECT THEN din.addrs[a] ELSE Indirect(din)[a - NDIRECT - 1][1]

\* A partition is a file system: the root has its entries and no other, every file has
\* its contents, no two places name the same block, the bits that the kernel's balloc()
\* looks at are those of the blocks in use, and log, inodes, map and data are apart.
WellFormed(p) ==
  LET s == readsb(p)
      root == inode(s, ROOTINO)
      inodes == 1..(1 + Len(argv))
      places == UNION {{<<i, a>> : a \in Places(inode(s, i))} : i \in inodes}
      used == {Block(inode(s, x[1]), x[2]) : x \in places}
      first == s.bmapstart + 1
  IN /\ {readi(root, k) : k \in 0..(root.size - 1)} \ {Zero} =
          {dirent(1, Dot), dirent(1, DotDot)} \cup {dirent(f + 1, f) : f \in DOMAIN argv}
     /\ root.type = "T_DIR"
     /\ \A f \in DOMAIN argv : LET din == inode(s, f + 1) IN
          /\ din.type = "T_FILE" /\ din.size = argv[f]
          /\ \A k \in 0..(din.size - 1) : readi(din, k) = Piece(f, k)
     /\ Cardinality(used) = Cardinality(places)
     /\ used = {first + k : k \in {k \in 0..(BPB - 1) : img[s.bmapstart][k] # Zero}}
     /\ used \subseteq first..(p.offset + p.size - 1)
     /\ s.nlog = LOGSIZE /\ s.logstart > p.offset /\ s.logstart + s.nlog <= s.inodestart
     /\ \A b \in s.logstart..(s.logstart + s.nlog - 1) : img[b] = zeroes
     /\ s.inodestart + NINODES \div IPB < s.bmapstart

\* mkfs: when it is done, the kernel is in the blocks from 1 on, and behind it are the
\* partitions of the table, apart from each other, each a file system with the files;
\* before, and when it has failed, there is no partition table.
ImageInv ==
  /\ mkpc # "done" => img[0] = zeroes
  /\ mkpc = "done" =>
       LET table == img[0][0] IN
       /\ \A k \in 0..(kernel - 1) : img[1 + k \div BSIZE][k % BSIZE] = Piece(0, k)
       /\ Len(table) = NPARTITIONS /\ table[1].bootable
       /\ kernel > 0 => table[1].offset > 1 + (kernel - 1) \div BSIZE
       /\ \A i \in DOMAIN table : i > 1 => table[i].offset >= table[i - 1].offset + table[i - 1].size
       /\ \A i \in DOMAIN table : WellFormed(table[i])
=============================================================================
