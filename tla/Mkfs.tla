-------------------------------- MODULE Mkfs --------------------------------
(* The program that makes the disk image (mkfs/mkfs.cc). The tree it is    *)
(* given is a directory: [name, dir |-> TRUE, kids] with kids in the order *)
(* readdir gives them, or a file: [name, dir |-> FALSE, text]. The image m *)
(* has the disk fields of Inodes, the next free inode and block number,    *)
(* and ok, FALSE once mkfs gave up. The use "dropped" marks an image that  *)
(* left entries of a directory out.                                        *)
EXTENDS Inodes

Blank ==
    [imap |-> {}, bmap |-> {}, dinode |-> [i \in Inum |-> ZeroDinode],
     data |-> [b \in {0} \cup Blk |-> ZeroBlock], text |-> [i \in Inum |-> <<>>],
     inum |-> 0, bno |-> 1, ok |-> TRUE, odd |-> {}, r |-> 0]

dinode_alloc(m) ==
    IF m.inum > NDINODE - 1 THEN [m EXCEPT !.ok = FALSE, !.r = 0]
    ELSE [m EXCEPT !.imap = @ \cup {m.inum}, !.inum = @ + 1, !.r = m.inum]

(* n blocks in a row.                                                      *)
block_alloc(m, n) ==
    IF m.bno + n - 1 > NBLOCK + 1 THEN [m EXCEPT !.ok = FALSE]
    ELSE [m EXCEPT !.bmap = @ \cup (m.bno..(m.bno + n - 1)), !.bno = @ + n]

Ceil(a, b) == (a + b - 1) \div b

(* Slip in Index: the blocks of an index block start one too early.        *)
Index_early(m, inum, n) ==
    LET all == block_alloc(m, n + IF n > NDIRECT THEN Ceil(n - NDIRECT, IDX) ELSE 0)
        at(i) == m.bno + NDIRECT + i * (IDX + 1)
    IN [all EXCEPT
           !.dinode[inum].iblock =
               [i \in DOMAIN @ |-> IF i < NDIRECT THEN IF i < n THEN m.bno + i ELSE 0
                                   ELSE IF i - NDIRECT < Ceil(n - NDIRECT, IDX) THEN at(i - NDIRECT) ELSE 0],
           !.data = [b \in DOMAIN @ |->
               IF \E i \in 0..(NINDIRECT - 1) : b = at(i)
               THEN [@[b] EXCEPT !.idx = [j \in 0..(IDX - 1) |-> b + j]]
               ELSE @[b]]]

(* The index of n data blocks: direct blocks first, then an index block    *)
(* and the blocks it names, and so on. Files and directories share it.     *)
Index(m, inum, n) ==
    LET rest == n - NDIRECT
        q == IF rest > 0 THEN Ceil(rest, IDX) ELSE 0
        at(i) == m.bno + NDIRECT + i * (IDX + 1)
        idx(i) == [j \in 0..(IDX - 1) |-> IF i * IDX + j < rest THEN at(i) + 1 + j ELSE 0]
        all == block_alloc(m, n + q)
    IN IF q > NINDIRECT \/ ~all.ok THEN [m EXCEPT !.ok = FALSE]
       ELSE [all EXCEPT
           !.dinode[inum].iblock =
               [i \in DOMAIN @ |-> IF i < NDIRECT THEN IF i < n THEN m.bno + i ELSE 0
                                   ELSE IF i - NDIRECT < q THEN at(i - NDIRECT) ELSE 0],
           !.data = [b \in DOMAIN @ |->
               IF \E i \in 0..(q - 1) : b = at(i)
               THEN [@[b] EXCEPT !.idx = idx(CHOOSE i \in 0..(q - 1) : b = at(i))]
               ELSE @[b]]]

(* The data blocks of an inode in the order of the file.                   *)
DataBlocks(m, inum, n) == [i \in 1..n |-> data_block_get(m, m.dinode[inum], i - 1)]

reg_meta_copy(m, node) ==
    LET new == dinode_alloc(m)
        meta == [new EXCEPT !.dinode[new.r].fsize = Len(node.text), !.dinode[new.r].nlink = 1,
                            !.dinode[new.r].type = "REGULAR", !.text[new.r] = node.text]
    IN IF ~new.ok THEN new ELSE Index(meta, new.r, Ceil(Len(node.text), BSIZE))

(* buf is not cleared between two reads: the end of a last block that is   *)
(* not full holds what the block before it had there.                      *)
reg_data_copy(m, node, inum) ==
    LET len == Len(node.text)
        n == Ceil(len, BSIZE)
        blocks == DataBlocks(m, inum, n)
        buf(i) == [j \in 0..(BSIZE - 1) |->
                     LET at == (i - 1) * BSIZE + j + 1
                     IN IF at <= len THEN node.text[at]
                        ELSE IF at > BSIZE THEN node.text[at - BSIZE] ELSE 0]
    IN IF ~m.ok THEN m
       ELSE [m EXCEPT !.data = [b \in DOMAIN @ |->
                IF \E i \in 1..n : blocks[i] = b
                THEN [@[b] EXCEPT !.bytes = buf(CHOOSE i \in 1..n : blocks[i] = b)]
                ELSE @[b]]]

(* A file of the directory, and its number at the end of namei.            *)
CopyFile(acc, node) ==
    LET meta == reg_meta_copy(acc.m, node)
    IN IF ~acc.m.ok THEN acc
       ELSE [m |-> reg_data_copy(meta, node, acc.m.inum),
             namei |-> Append(acc.namei, [inum |-> acc.m.inum, name |-> node.name])]

RECURSIVE directory_copy(_, _, _)
directory_copy(m, node, pinum) ==
    LET new == dinode_alloc(m)
        inum == new.r
        isdir(k) == k.dir
        isfile(k) == ~k.dir
        dirs == SelectSeq(node.kids, isdir)
        files == FoldLeft(CopyFile, [m |-> new, namei |-> <<>>], SelectSeq(node.kids, isfile))
        \* readdir also counts "." and ".."; one slot is added for one header
        n == Ceil(1 + Len(node.kids) + 2, DENT + 1)
        sized == Index([files.m EXCEPT !.dinode[inum].type = "DIRECTORY",
                                       !.dinode[inum].nlink = 2 + Len(dirs),
                                       !.dinode[inum].fsize = n * BSIZE], inum, n)
        fit == Min({Len(dirs), n * DENT - 2})
        copy(acc, d) ==
            LET done == directory_copy(acc.m, d, inum)
            IN IF ~acc.m.ok THEN acc
               ELSE [m |-> done, ents |-> Append(acc.ents, [inum |-> done.r, name |-> d.name])]
        sub == FoldLeft(copy, [m |-> sized, ents |-> <<>>], SubSeq(dirs, 1, fit))
        ents == <<[inum |-> inum, name |-> "."],
                  [inum |-> IF pinum = -1 THEN inum ELSE pinum, name |-> ".."]>>
                \o sub.ents \o files.namei
        blocks == DataBlocks(sized, inum, n)
        slot(i, j) == (i - 1) * DENT + j
        dts(i) == [ZeroBlock EXCEPT
                      !.cnt = Cardinality({j \in 1..DENT : slot(i, j) <= Len(ents)}),
                      !.ents = [j \in 1..DENT |-> IF slot(i, j) <= Len(ents)
                                                  THEN ents[slot(i, j)] ELSE @[j]]]
    IN IF ~new.ok \/ ~files.m.ok \/ ~sized.ok \/ ~sub.m.ok THEN [m EXCEPT !.ok = FALSE]
       ELSE [sub.m EXCEPT !.r = inum,
                !.odd = IF Len(node.kids) + 2 > n * DENT THEN @ \cup {"dropped"} ELSE @,
                !.data = [b \in DOMAIN @ |->
                    IF \E i \in 1..n : blocks[i] = b
                    THEN dts(CHOOSE i \in 1..n : blocks[i] = b) ELSE @[b]]]

(* What the kernel finds on the disk.                                      *)
main(tree) ==
    LET m == directory_copy(Blank, tree, -1)
    IN [imap |-> m.imap, bmap |-> m.bmap, dinode |-> m.dinode, data |-> m.data,
        disk |-> m.data, text |-> m.text, odd |-> m.odd, halt |-> IF m.ok THEN "no" ELSE "mkfs",
        icache |-> init_icache, file |-> <<>>, pipe |-> <<>>, task |-> <<>>, r |-> 0]
=============================================================================
