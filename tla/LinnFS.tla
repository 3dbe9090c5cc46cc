-------------------------------- MODULE LinnFS --------------------------------
(* The Linnenbank file system (server/filesystem/linn): the host tool        *)
(* LinnCreate that writes a directory tree into an image, and the server     *)
(* that mounts the image and reads it.  The image is an array of cells of    *)
(* one directory entry each; a block address takes PtrCells of them.         *)
EXTENDS Integers, Sequences, FiniteSets

CONSTANTS BlockCells,         \* cells of a block
          EntryBytes,         \* sizeof(LinnDirectoryEntry)
          PtrCells, InodesPerBlock,
          LINN_INODE_DIR_BLOCKS,
          BlocksPerGroup, LINN_CREATE_BLOCK_NUM, LINN_CREATE_INODE_NUM,
          Commands,           \* options of the tool: sequences of words
          Value,              \* what atoi makes of a word
          Hidden,             \* names that start with a dot
          Inputs              \* trees: <<file size | "dir" with its files>, ...>>
VARIABLE fs

(* LINN_SUPER_NUM_PTRS, LINN_DIRENT_PER_BLOCK, LINN_GROUP_COUNT,             *)
(* LINN_INODE_NUM_BLOCKS and super->blockSize.                               *)
NumPtrs == BlockCells \div PtrCells
blockSize == BlockCells * EntryBytes
GroupCount(s) == IF s.blocksCount \div BlocksPerGroup = 0 THEN 1 ELSE s.blocksCount \div BlocksPerGroup
NumBlocks(size) == (size + BlockCells - 1) \div BlockCells
ROOT == 0
NoInode == [type |-> "none", size |-> 0, block |-> [i \in 0..(LINN_INODE_DIR_BLOCKS + 2) |-> 0], of |-> "none"]
Empty == [kind |-> "empty", of |-> "none", n |-> 0]
Pointer(block) == [kind |-> "block", of |-> "none", n |-> block]
At(s, a) == IF a \in DOMAIN s.image THEN s.image[a] ELSE Empty
Cell(s, a) == At(s, a).n
Put(s, a, v) == [s EXCEPT !.image = [b \in DOMAIN @ \cup {a} |-> IF b = a THEN v ELSE @[b]]]

(* The options read so far, the superblock, the groups with their tables,    *)
(* the inodes and their maps, the image, the directories whose entries are   *)
(* still to be inserted, and what the tool LinnDump printed.                 *)
Init ==
  \E input \in Inputs, argv \in Commands :
    fs = [pc |-> "main", argv |-> argv, i |-> 1, excludes |-> {}, given |-> FALSE, input |-> input,
          blocksCount |-> LINN_CREATE_BLOCK_NUM, inodesCount |-> LINN_CREATE_INODE_NUM, freeBlocks |-> 0, inodesPerGroup |-> 0,
          free |-> <<>>, groups |-> <<>>, used |-> {}, inode |-> <<>>, image |-> <<>>,
          todo |-> <<>>, blockMap |-> {}, dump |-> <<>>]

(* BLOCKS(super, count): the next free blocks, or the tool exits.            *)
Block(s) == s.blocksCount - s.freeBlocks
Taken(s, count) == [s EXCEPT !.freeBlocks = @ - count]
Exit(s) == [s EXCEPT !.pc = "exit"]

(* main of LinnCreate: one option after the other, with its value if another *)
(* word follows.  The block size stays that of BlockCells cells.             *)
option ==
  LET word == fs.argv[fs.i]
      more == fs.i < Len(fs.argv)
      value == fs.argv[fs.i + 1]
      count == Value[value]
      After(s, n) == [s EXCEPT !.i = @ + n] IN
  /\ fs.pc = "main" /\ fs.i <= Len(fs.argv)
  /\ fs' = CASE word = "-e" /\ more -> After([fs EXCEPT !.excludes = @ \cup {value}], 2)
             [] word = "-v" -> After(fs, 1)
             [] word = "-d" /\ more -> After([fs EXCEPT !.given = TRUE], 2)
             [] word = "-b" /\ more -> After(fs, 2)
             [] word = "-n" /\ more -> IF count < 2 THEN Exit(fs) ELSE After([fs EXCEPT !.blocksCount = count], 2)
             [] word = "-i" /\ more -> IF count < 1 THEN Exit(fs) ELSE After([fs EXCEPT !.inodesCount = count], 2)
             [] OTHER -> Exit(fs)

(* createInode(inodeNum, ...): fills inode inodeNum in its group and marks   *)
(* it there.                                                                 *)
createInode(s, n, type, of) ==
  LET g == n \div s.inodesPerGroup IN
  [s EXCEPT !.inode[n] = [NoInode EXCEPT !.type = type, !.of = of], !.used = @ \cup {<<g, n % s.inodesPerGroup>>},
            !.free[g + 1] = @ - 1]

(* create: superblock, groups (block map, inode map and inode table each,    *)
(* from the first free block on) and the root inode.                         *)
AtLeast1(n) == IF n = 0 THEN 1 ELSE n
NumBlockMap == AtLeast1(BlocksPerGroup \div NumPtrs)
NumInodeMap(per) == AtLeast1(per \div NumPtrs)
NumInodeTab(per) == AtLeast1(per \div InodesPerBlock)
Group(first, per) == [blockMap |-> first, inodeMap |-> first + NumBlockMap, inodeTable |-> first + NumBlockMap + NumInodeMap(per)]

create ==
  /\ fs.pc = "main" /\ fs.i > Len(fs.argv)
  /\ LET groups == GroupCount(fs)
         per == fs.inodesCount \div groups
         each == NumBlockMap + NumInodeMap(per) + NumInodeTab(per)
         s == [fs EXCEPT !.freeBlocks = fs.blocksCount - 3 - (groups * each), !.inodesPerGroup = per, !.free = [g \in 1..groups |-> per],
                         !.groups = [g \in 1..groups |-> Group(3 + ((g - 1) * each), per)], !.inode = [n \in 0..(fs.inodesCount - 1) |-> NoInode]]
     IN fs' = IF fs.blocksCount - 3 < groups * each THEN Exit(fs)
              ELSE [createInode(s, ROOT, "dir", "root") EXCEPT !.pc = "insert",
                      !.todo = IF fs.given THEN <<[dir |-> ROOT, parent |-> ROOT, left |-> <<".", "..">>, files |-> fs.input]>> ELSE <<>>]

(* insertIndirect: the block map at ptr (a block of its own first), then the *)
(* entry of block index, directly or one level deeper.                       *)
Power(depth) == IF depth = 1 THEN 1 ELSE IF depth = 2 THEN NumPtrs ELSE NumPtrs * NumPtrs

RECURSIVE insertIndirect(_, _, _, _)
insertIndirect(s, block, index, depth) ==
  IF depth = 1 THEN Put(Taken(s, 1), (block * BlockCells) + ((index % NumPtrs) * PtrCells), Pointer(Block(s)))
  ELSE LET a == (block * BlockCells) + ((index \div Power(depth)) * PtrCells) IN
       IF Cell(s, a) # 0 THEN insertIndirect(s, Cell(s, a), index, depth - 1)
       ELSE insertIndirect(Put(Taken(s, 1), a, Pointer(Block(s))), Block(s), index, depth - 1)

(* The level of indirection insertFile gives block b of a file.              *)
Depth(b) == IF b < LINN_INODE_DIR_BLOCKS THEN 0 ELSE IF b < LINN_INODE_DIR_BLOCKS + NumPtrs THEN 1
            ELSE IF b < LINN_INODE_DIR_BLOCKS + (NumPtrs * NumPtrs) THEN 2 ELSE 3

insertBlock(s, n, b) ==
  LET d == Depth(b)
      p == LINN_INODE_DIR_BLOCKS + d - 1
  IN IF d = 0 THEN [Taken(s, 1) EXCEPT !.inode[n].block[b] = Block(s)]
     ELSE LET t == IF s.inode[n].block[p] # 0 THEN s ELSE [Taken(s, 1) EXCEPT !.inode[n].block[p] = Block(s)]
          IN insertIndirect(t, t.inode[n].block[p], b - LINN_INODE_DIR_BLOCKS, d)

(* insertFile: block after block; the last block taken holds the next cells  *)
(* of the file.                                                              *)
RECURSIVE insertFile(_, _, _, _)
insertFile(s, n, of, size) ==
  LET done == s.inode[n].size IN
  IF done >= size \/ NumBlocks(done) >= LINN_INODE_DIR_BLOCKS + (NumPtrs * NumPtrs * NumPtrs) THEN s
  ELSE IF s.freeBlocks < 4 THEN Exit(s)
  ELSE LET t == insertBlock(s, n, NumBlocks(done))
           b == Block(t) - 1
           bytes == IF size - done < BlockCells THEN size - done ELSE BlockCells
           cells == [a \in (b * BlockCells)..((b * BlockCells) + bytes - 1) |-> [kind |-> "data", of |-> of, n |-> (a - (b * BlockCells)) + done]]
       IN insertFile([t EXCEPT !.inode[n].size = @ + bytes, !.image = [a \in DOMAIN @ \cup DOMAIN cells |-> IF a \in DOMAIN cells THEN cells[a] ELSE @[a]]],
                     n, of, size)

(* insertEntry: the entry goes to the directory's last block, at the place   *)
(* entryNum % blockSize from its start.                                      *)
insertEntry(s, dir, n, name) ==
  LET entryNum == s.inode[dir].size
      blockNum == entryNum \div BlockCells
      t == IF blockNum < LINN_INODE_DIR_BLOCKS /\ s.inode[dir].block[blockNum] = 0
           THEN [Taken(s, 1) EXCEPT !.inode[dir].block[blockNum] = Block(s)] ELSE s
  IN IF blockNum >= LINN_INODE_DIR_BLOCKS \/ s.freeBlocks = 0 THEN Exit(s)
     ELSE [Put(t, (t.inode[dir].block[blockNum] * BlockCells) + (entryNum % blockSize), [kind |-> "entry", of |-> name, n |-> n])
             EXCEPT !.inode[dir].size = @ + 1]

(* createInode(inputFile, st): the first group with a free inode, and the    *)
(* first inode of it that its map has free.                                  *)
FreeGroup(s) == CHOOSE g \in DOMAIN s.free : s.free[g] # 0 /\ \A h \in DOMAIN s.free : s.free[h] # 0 => g <= h
FreeInode(s) ==
  LET g == FreeGroup(s)
  IN CHOOSE n \in 0..(s.inodesPerGroup - 1) : <<g - 1, n>> \notin s.used /\ \A m \in 0..(n - 1) : <<g - 1, m>> \in s.used

insertChild(s, dir, name, input) ==
  IF \A g \in DOMAIN s.free : s.free[g] = 0 THEN Exit(s)
  ELSE LET n == FreeInode(s)
           t == createInode([s EXCEPT !.used = @ \cup {<<FreeGroup(s) - 1, n>>}], n, IF input.dir THEN "dir" ELSE "file", name)
           u == IF input.dir THEN t ELSE insertFile(t, n, name, input.size)
           v == IF u.pc = "exit" THEN u ELSE insertEntry(u, dir, n, name)
       IN IF v.pc = "exit" \/ ~input.dir THEN v
          ELSE [v EXCEPT !.todo = <<[dir |-> n, parent |-> dir, left |-> <<".", "..">>, files |-> input.files]>> \o @]

(* insertDirectory: its own two entries, then every file of the input that   *)
(* is neither hidden nor excluded.                                           *)
Skip(s, name) == name \in Hidden \cup s.excludes
insertDirectory ==
  /\ fs.pc = "insert" /\ fs.todo # <<>>
  /\ LET d == Head(fs.todo) IN
     IF d.left # <<>>
     THEN fs' = insertEntry([fs EXCEPT !.todo[1].left = Tail(@)], d.dir, IF Head(d.left) = "." THEN d.dir ELSE d.parent, Head(d.left))
     ELSE IF d.files = <<>> THEN fs' = [fs EXCEPT !.todo = Tail(@)]
     ELSE IF Skip(fs, Head(d.files).name) THEN fs' = [fs EXCEPT !.todo[1].files = Tail(@)]
     ELSE fs' = insertChild([fs EXCEPT !.todo[1].files = Tail(@)], d.dir, Head(d.files).name, Head(d.files))

(* The end of create: blocks are marked in the maps, and the image written   *)
(* up to the last block taken.                                               *)
writeImage ==
  /\ fs.pc = "insert" /\ fs.todo = <<>>
  /\ fs' = [fs EXCEPT !.pc = "written", !.blockMap = {b \in 0..(fs.blocksCount - 1) : b < fs.freeBlocks}]

(* main of LinnDump: what it prints of the image, unless it is asked for     *)
(* help; it ends with the same status whether or not the image is good.      *)
Upto(first, count) == <<first, first + count>>
Printed(s) ==
  [g \in DOMAIN s.groups |->
     [freeBlocks |-> BlocksPerGroup - Cardinality({b \in s.blockMap : b \div BlocksPerGroup = g - 1}), freeInodes |-> s.free[g],
      blockMap |-> Upto(s.groups[g].blockMap, NumBlockMap), inodeMap |-> Upto(s.groups[g].inodeMap, NumInodeMap(s.inodesPerGroup)),
      inodeTable |-> Upto(s.groups[g].inodeTable, NumInodeTab(s.inodesPerGroup))]]
dump(options) ==
  /\ fs.pc = "written" /\ fs.dump = <<>>
  /\ fs' = [fs EXCEPT !.dump = IF "-h" \in options THEN <<"EXIT_SUCCESS", <<>>>> ELSE <<"EXIT_FAILURE", Printed(fs)>>]

(* main of the server takes the boot image, or the file it is given; a       *)
(* FileStorage that is not initialized reads what descriptor zero is.  The   *)
(* server reads the superblock and the group descriptors from it, or gives   *)
(* up, and mounts.                                                           *)
Storage(file) == IF file THEN "descriptor zero" ELSE "image"
LinnFileSystem(storage) == IF storage = "image" THEN "mounted" ELSE "fatal"
mount(file) ==
  /\ fs.pc = "written"
  /\ fs' = [fs EXCEPT !.pc = LinnFileSystem(Storage(file))]

Next == option \/ create \/ insertDirectory \/ writeImage \/ (\E o \in {{}, {"-h"}, {"-x"}} : dump(o)) \/ (\E file \in BOOLEAN : mount(file))

-----------------------------------------------------------------------------
ReadDepth(index) == IF index < NumPtrs THEN 1 ELSE IF index < NumPtrs * NumPtrs THEN 2 ELSE 3

RECURSIVE Resolve(_, _, _, _)
Resolve(s, block, index, depth) ==
  IF depth = 1 THEN block
  ELSE Resolve(s, Cell(s, (block * BlockCells) + ((index \div Power(depth)) * PtrCells)), index, depth - 1)

Run(number, first, last) ==
  CHOOSE k \in 1..(last - first + 1) :
    /\ \A i \in 1..(k - 1) : number[first + i] = number[first] + i
    /\ first + k > last \/ number[first + k] # number[first] + k

LastOf(S) == CHOOSE m \in S : \A o \in S : o <= m

(* The last block the search for contiguous ones looks at.                   *)
Until(blk, numBlocks) == LastOf({blk} \cup {i \in blk..(numBlocks - 1) : \A j \in (blk + 1)..i : j % NumPtrs # 0})

getOffsetRange(s, inode, blk) ==
  LET n == NumBlocks(inode.size)
      depth == IF blk < LINN_INODE_DIR_BLOCKS THEN 0 ELSE ReadDepth(blk - LINN_INODE_DIR_BLOCKS)
      map == Resolve(s, inode.block[LINN_INODE_DIR_BLOCKS + depth - 1], blk - LINN_INODE_DIR_BLOCKS, depth)
      last == IF depth > 0 THEN Until(blk, n) ELSE (IF n < LINN_INODE_DIR_BLOCKS THEN n ELSE LINN_INODE_DIR_BLOCKS) - 1
      number == [i \in blk..last |-> IF depth = 0 THEN inode.block[i]
                   ELSE Cell(s, (map * BlockCells) + (((i - LINN_INODE_DIR_BLOCKS) % NumPtrs) * PtrCells))]
  IN [block |-> number[blk], count |-> Run(number, blk, last)]

(* LinnFile::read.                                                           *)
RECURSIVE readFrom(_, _, _, _, _, _)
readFrom(s, inode, offset, size, blk, total) ==
  IF blk >= NumBlocks(inode.size) \/ Len(total) >= size \/ inode.size - (offset + Len(total)) = 0 THEN total
  ELSE LET r == getOffsetRange(s, inode, blk)
           copyOffset == IF total = <<>> THEN offset - (BlockCells * blk) ELSE 0
           bytes == LET m == {(r.count * BlockCells) - copyOffset, inode.size - (offset + Len(total)), size - Len(total)}
                    IN CHOOSE k \in m : \A o \in m : k <= o
       IN readFrom(s, inode, offset, size, blk + r.count,
                   total \o [i \in 1..bytes |-> At(s, (r.block * BlockCells) + copyOffset + i - 1)])

read(s, inode, offset, size) == readFrom(s, inode, offset, size, offset \div BlockCells, <<>>)

(* LinnFileSystem::getInode: the block of the storage that holds inode n.    *)
InodeBlock(s, n) == s.groups[(n \div s.inodesPerGroup) + 1].inodeTable + ((n % s.inodesPerGroup) \div InodesPerBlock)
getInode(s, n) == IF n >= s.inodesCount THEN NoInode ELSE s.inode[n]

(* LinnDirectory::getLinnDirectoryEntry and lookup: every entry of every     *)
(* block of the directory.                                                   *)
Entries(s, inode) ==
  {At(s, (inode.block[b] * BlockCells) + e) : b \in 0..(NumBlocks(inode.size) - 1), e \in 0..(BlockCells - 1)}

lookup(s, dir, name) ==
  LET found == {e \in Entries(s, s.inode[dir]) : e.kind = "entry" /\ e.of = name} IN
  IF found = {} THEN NoInode ELSE getInode(s, (CHOOSE e \in found : TRUE).n)

(* LinnDirectory::read: entry ent of block blk at ent entries from it.       *)
list(s, inode) ==
  {At(s, (inode.block[ent \div BlockCells] * BlockCells) + ent).of : ent \in 0..(inode.size - 1)}

-----------------------------------------------------------------------------
(* File f of the input, in directory dir, is found and all its cells come    *)
(* back for every offset and size.                                           *)
Back(f, dir) ==
  LET inode == lookup(fs, dir, f.name) IN
  /\ inode.of = f.name
  /\ IF f.dir THEN inode.type = "dir"
     ELSE /\ inode.size = f.size
          /\ \A offset \in 0..f.size, size \in {1, BlockCells - 1, f.size} :
               LET want == IF size < f.size - offset THEN size ELSE f.size - offset IN
               read(fs, inode, offset, size) = [i \in 1..want |-> [kind |-> "data", of |-> f.name, n |-> offset + i - 1]]

Fits(files) == /\ Len(files) + 2 <= BlockCells
               /\ \A i \in DOMAIN files : files[i].dir \/ NumBlocks(files[i].size) <= LINN_INODE_DIR_BLOCKS + (NumPtrs * NumPtrs)

Kept(files) == SelectSeq(files, LAMBDA f : ~ Skip(fs, f.name))
Used == {n \in DOMAIN fs.inode : fs.inode[n].type # "none"}
(* Blocks of the tables of group g, and blocks that inodes refer to.         *)
TableBlocks(g) == fs.groups[g].blockMap .. (fs.groups[g].inodeTable + NumInodeTab(fs.inodesPerGroup) - 1)
Referred == {fs.inode[n].block[i] : n \in Used, i \in DOMAIN NoInode.block} \ {0}

(* Every file of the input that is not left out is found in the mounted      *)
(* image and reads back as it was, at every offset and across direct,        *)
(* indirect and double indirect blocks: writer and reader agree on every     *)
(* boundary.  For directories of one block, files below triple indirection,  *)
(* inodes of one group and inode tables that hold them (LinnCreate.cpp,      *)
(* LinnFileSystem::getOffsetRange, LinnFile::read).                          *)
ReadsBack ==
  fs.pc = "mounted" /\ fs.given /\ Fits(fs.input) /\ GroupCount(fs) = 1 /\ fs.inodesCount % InodesPerBlock = 0 =>
    /\ list(fs, fs.inode[ROOT]) = {".", ".."} \cup {Kept(fs.input)[i].name : i \in DOMAIN Kept(fs.input)}
    /\ \A i \in DOMAIN Kept(fs.input) : Back(Kept(fs.input)[i], ROOT)
(* No block of a file or directory lies in the tables of a group, the tables *)
(* of two groups do not overlap, all of them lie in the part of the image    *)
(* that is written, and what the dump counts as free is what is not in use   *)
(* (BLOCKS, LinnCreate::create and createInode, LinnDump).                   *)
TablesApart ==
  fs.pc \in {"written", "mounted"} /\ GroupCount(fs) = 1 =>
    /\ \A g, h \in DOMAIN fs.groups : TableBlocks(g) \cap Referred = {} /\ (g # h => TableBlocks(g) \cap TableBlocks(h) = {})
    /\ \A b \in Referred \cup UNION {TableBlocks(g) : g \in DOMAIN fs.groups} : b \in 3 .. Block(fs) - 1
    /\ fs.dump # <<>> => \A g \in DOMAIN fs.dump[2] : fs.dump[2][g].freeInodes = fs.inodesCount - Cardinality(Used)

(* The same for every input the tool accepts ("Insert files from the given   *)
(* directory into the image"): a directory it fills is found again entry by  *)
(* entry.                                                                    *)
EveryFileFound ==
  fs.pc = "mounted" /\ fs.given => \A i \in DOMAIN Kept(fs.input) : lookup(fs, ROOT, Kept(fs.input)[i].name).of = Kept(fs.input)[i].name
(* An inode lies in the blocks "needed for the inodes table"                 *)
(* (LINN_GROUP_NUM_INODETAB).                                                *)
InodesInTable == fs.pc = "written" => \A n \in Used : InodeBlock(fs, n) \in TableBlocks((n \div fs.inodesPerGroup) + 1)
(* LinnCreate shows its usage for "-h", as the usage says.                   *)
HelpKnown == fs.pc = "exit" /\ fs.i <= Len(fs.argv) => fs.argv[fs.i] # "-h"
(* LinnDump ends with success when it has shown the image.                   *)
DumpSucceeds == fs.dump # <<>> => fs.dump[1] = "EXIT_SUCCESS"
(* The ranges LinnDump prints are those of the tables: like the range of the *)
(* blocks of the group, they end with the last block.                        *)
DumpedRanges == fs.dump # <<>> => \A g \in DOMAIN fs.dump[2] : fs.dump[2][g].inodeTable[2] \in TableBlocks(g)
(* "Mount the given file, or try to use the BootImage embedded rootfs".      *)
GivenMounted == fs.pc # "fatal"
=============================================================================
