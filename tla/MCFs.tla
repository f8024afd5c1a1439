---------------------------------- MODULE MCFs ---------------------------------
(*****************************************************************************)
(* A disk of 21 blocks of three items.  The root directory has 13 entries in *)
(* a direct zone, the three zones of its index and one of its second level.  *)
(* Below it lies d, and below that e, each with a direct and an indexed      *)
(* zone: together six blocks, one less than the cache has buffers, so that   *)
(* the buffer that the listing of the root comes back to for the entry after *)
(* d is then the next one to be evicted.  Both files have several names, and *)
(* as in /test/test.txt the name of d is a beginning of a file's in it.      *)
(*****************************************************************************)
EXTENDS Fs

Items3(a, b, c) == [i \in 0..2 |-> <<a, b, c>>[i + 1]]
No(n) == [no |-> n]
Byte(n) == [byte |-> n]
Entry(ino, name) == [inode |-> ino, name |-> name]
Inode(dir, size, a, b, c) ==
    [dir |-> dir, size |-> size, zone |-> [z \in 0..2 |-> <<a, b, c>>[z + 1]]]
Free == Inode(FALSE, 0, 0, 0, 0)
Numbered(a, b, c) == Items3(No(a), No(b), No(c))
Text(t) == Items3([text |-> t], [text |-> "more"], [text |-> "the rest"])

MCSuperBlock == [num_inodes |-> 6, num_zones |-> 22, num_imap_blocks |-> 1, num_zmap_blocks |-> 1]

MCBlocks == 1..21

\* Inodes: 1 the root, 2 and 3 the directories d and e, 4 and 5 files, 6 free.
MCImage ==
    [b \in MCBlocks |->
     CASE b = 1  -> Items3(MCSuperBlock, No(0), No(0))
       [] b = 2  -> Items3(Byte(1), Byte(2), Byte(3))
       [] b = 3  -> Items3(Byte(4), Byte(5), Byte(6))
       [] b = 4  -> Items3(Inode(TRUE, 13, 6, 7, 11), Inode(TRUE, 5, 14, 15, 0),
                           Inode(TRUE, 4, 17, 18, 0))
       [] b = 5  -> Items3(Inode(FALSE, 30, 20, 0, 0), Inode(FALSE, 20, 21, 0, 0), Free)
       [] b = 6  -> Items3(Entry(1, <<".">>), Entry(1, <<".", ".">>), Entry(5, <<"t", "x">>))
       [] b = 7  -> Numbered(8, 9, 10)
       [] b = 8  -> Items3(Entry(4, <<"t">>), Entry(5, <<"a">>), Entry(0, <<"b">>))
       [] b = 9  -> Items3(Entry(4, <<"c">>), Entry(2, <<"d">>), Entry(5, <<"d", "x">>))
       [] b = 10 -> Items3(Entry(5, <<"h">>), Entry(4, <<"i">>), Entry(5, <<"j">>))
       [] b = 11 -> Numbered(12, 0, 0)
       [] b = 12 -> Numbered(13, 0, 0)
       [] b = 13 -> Items3(Entry(4, <<"g">>), No(0), No(0))
       [] b = 14 -> Items3(Entry(2, <<".">>), Entry(1, <<".", ".">>), Entry(5, <<"k">>))
       [] b = 15 -> Numbered(16, 0, 0)
       [] b = 16 -> Items3(Entry(3, <<"e">>), Entry(4, <<"d", "x">>), No(0))
       [] b = 17 -> Items3(Entry(3, <<".">>), Entry(2, <<".", ".">>), Entry(4, <<"f">>))
       [] b = 18 -> Numbered(19, 0, 0)
       [] b = 19 -> Items3(Entry(5, <<"t">>), No(0), No(0))
       [] b = 20 -> Text("f")
       [] b = 21 -> Text("t")]

\* The second level, a name that begins another, a way up (for which the entry
\* "." is taken) and down; a file, a file used as a directory.
MCPaths == {<<<<"g">>>>, <<<<"t">>>>, <<<<".", ".">>, <<"t", "x">>>>,
            <<<<"d">>, <<".", ".">>, <<"d">>, <<"f">>>>}
MCEditPaths == {<<<<"d">>, <<"d", "x">>>>, <<<<"g">>, <<"d", "x">>>>}

--------------------------------------------------------------------------------
\* The zones of a directory in order: the direct ones, those of its index, those
\* of each index of its second level.
Numbers(b) == [i \in 1..kPerBlock |-> Image[b][i - 1].no]
InOrder(inode) ==
    [z \in 1..kDirect |-> inode.zone[z - 1]] \o Numbers(inode.zone[kDirect])
    \o (IF inode.zone[kDirect + 1] = 0 THEN <<>>
        ELSE FlattenSeq([i \in 1..kPerBlock |->
                            LET b == Numbers(inode.zone[kDirect + 1])[i]
                            IN  IF b = 0 THEN <<>> ELSE Numbers(b)]))

ASSUME ZonesInOrder ==
    \A d \in Dirs : \A z \in Zones(InodeOf(d)) :
        ZoneBlock(InodeOf(d), z) = InOrder(InodeOf(d))[z + 1]

RECURSIVE Listing(_)
Listing(ino) ==
    LET node(e) == g_inode_table[e.inode]
        lines(e) == <<Line(e.name, node(e))>>
                    \o (IF node(e).dir THEN Listing(e.inode) ELSE <<>>)
        entries == [i \in 1..InodeOf(ino).size |-> EntryAt(InodeOf(ino), i - 1)]
        shown == SelectSeq(entries, LAMBDA e : Head(e.name) # ".")
    IN  FlattenSeq([k \in DOMAIN shown |-> lines(shown[k])])

\* list_entries prints every file below the root once, in order, whichever of
\* the direct and indexed zones its entry is in.
ListedRight == pc = "list" /\ stack = <<>> /\ ~lost => listed = Listing(kRootINO)

================================================================================
