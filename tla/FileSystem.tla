----------------------------- MODULE FileSystem -----------------------------
(* The file system in RAM: chains of blocks, directories that are files of      *)
(* entries, and files open in several threads.  A unit stands for one byte of a *)
(* file or for one entry of a directory.  A call runs under mutexFilesys and is *)
(* one step; OS_fread takes no mutex, but takes one unit after the other.       *)
EXTENDS Integers, Sequences, FiniteSets, SequencesExt

CONSTANTS Blocks,           \* the memory for blocks: numbers from 1 on
          BlockUnits,       \* units in a block: BLOCK_SIZE - sizeof(uint32) bytes
          FileNames, DirectoryName,
          Handles,          \* files open at the same time
          Values, MaxLength

EOF == 0
Root == 1

Paths == {<<n>> : n \in FileNames \cup {DirectoryName}}
         \cup {<<DirectoryName, n>> : n \in FileNames}

ASSUME FilesAssumption ==
    /\ Root \in Blocks /\ Blocks \subseteq Nat \ {EOF} /\ IsFiniteSet(Blocks)
    /\ BlockUnits \in Nat \ {0} /\ MaxLength \in Nat
    /\ DirectoryName \notin FileNames /\ "none" \notin FileNames \cup {DirectoryName}

VARIABLES disk,             \* the blocks: next, data, which are free, and what went wrong
          open,             \* the open files
          content           \* what each path should hold

vars == <<disk, open, content>>

Blank == [kind |-> "blank"]             \* memory that is 0xff
DirectoryMark == [kind |-> "dir"]       \* content of a directory
Data(f, v) == [kind |-> "data", path |-> f.path, pos |-> f.pos, value |-> v]  \* names its place
Entry(f) == [kind |-> "entry", name |-> Last(f.path), block |-> f.first,
             length |-> f.length, dir |-> f.dir, valid |-> TRUE]

NoFile == [path |-> <<"none">>]
IsOpen(h) == open[h] # NoFile

\* A file that has just been opened at its first block; text is what it should hold
Opened(path, first, length, dir) ==
    [path |-> path, first |-> first, block |-> first, offset |-> 0, pos |-> 0,
     length |-> length, dir |-> dir, modified |-> FALSE, text |-> <<>>]

-----------------------------------------------------------------------------
(* Blocks.  An operator that changes the disk and a file gives [d, f]. *)

\* BlockRead(BLOCK_MALLOC): a new block after this one; without memory nothing changes
NewBlock(d, f) ==
    LET b == CHOOSE x \in d.free : \A y \in d.free : x <= y
        chained == IF f.block = EOF THEN d.next ELSE [d.next EXCEPT ![f.block] = b]
    IN IF d.free = {} THEN [d |-> d, f |-> f]
       ELSE [d |-> [d EXCEPT !.free = @ \ {b}, !.next = [chained EXCEPT ![b] = EOF],
                             !.data[b] = [i \in 1..BlockUnits |-> Blank]],
             f |-> [f EXCEPT !.block = b, !.offset = 0]]

\* BlockRead of the next block, which stays where it is at the end of the chain
NextBlock(d, f) ==
    IF d.next[f.block] = EOF THEN f ELSE [f EXCEPT !.block = d.next[f.block], !.offset = 0]

\* OS_fwrite goes on to the next block when this one is full
Room(d, f) ==
    IF f.block = EOF \/ f.offset < BlockUnits THEN [d |-> d, f |-> f]
    ELSE IF d.next[f.block] = EOF THEN NewBlock(d, f)
    ELSE [d |-> d, f |-> NextBlock(d, f)]

\* Its check for the end of the memory never holds: it writes past the block.
PutAt(d, f, unit) ==
    IF f.block = EOF \/ f.offset >= BlockUnits
    THEN [d |-> [d EXCEPT !.defect = "overrun"], f |-> f]
    ELSE [d |-> [d EXCEPT !.data[f.block][f.offset + 1] = unit],
          f |-> [f EXCEPT !.offset = @ + 1, !.pos = @ + 1, !.modified = TRUE,
                          !.length = IF @ > f.pos THEN @ ELSE f.pos + 1]]

Put(d, f, unit) == LET r == Room(d, f) IN PutAt(r.d, r.f, unit)

\* OS_fread: the file one unit on; at its end, where it was
Get(d, f) ==
    LET g == IF f.offset >= BlockUnits THEN NextBlock(d, f) ELSE f IN
    IF (~f.dir /\ f.pos >= f.length) \/ g.offset >= BlockUnits THEN f
    ELSE [g EXCEPT !.offset = @ + 1, !.pos = @ + 1]

\* Broken variant: it goes on from the block the file is in
BrokenSeek(d, f, offset) ==
    LET skip == IF offset = 0 THEN 0 ELSE (offset - 1) \div BlockUnits
        at[i \in 0..skip] == IF i = 0 THEN f ELSE NextBlock(d, at[i - 1])
    IN [at[skip] EXCEPT !.offset = offset - skip * BlockUnits, !.pos = offset]

\* OS_fseek to a place inside the file: a place at the end of a block stays in it
Seek(d, f, offset) ==
    LET skip == IF offset = 0 THEN 0 ELSE (offset - 1) \div BlockUnits
        at[i \in 0..skip] == IF i = 0 THEN [f EXCEPT !.block = f.first] ELSE NextBlock(d, at[i - 1])
    IN [at[skip] EXCEPT !.offset = offset - skip * BlockUnits, !.pos = offset]

Chain(d, first) ==
    LET upto[n \in 0..Cardinality(Blocks)] ==
            IF n = 0 THEN <<>>
            ELSE LET c == upto[n - 1]
                     b == IF c = <<>> THEN first ELSE d.next[Last(c)]
                 IN IF b = EOF THEN c ELSE Append(c, b)
    IN upto[Cardinality(Blocks)]

\* The units of a chain, in their order
Units(d, first) ==
    LET chain == Chain(d, first)
    IN [i \in 1..Len(chain) * BlockUnits |->
          d.data[chain[(i - 1) \div BlockUnits + 1]][((i - 1) % BlockUnits) + 1]]

-----------------------------------------------------------------------------
(* Directories *)

\* The place of a unit of a directory; one past the last is at the end of the last block
Place(chain, dir, at) ==
    LET block == Min({(at - 1) \div BlockUnits + 1, Len(chain)})
    IN [dir EXCEPT !.block = chain[block], !.offset = at - 1 - (block - 1) * BlockUnits]

\* The search ended at the unit end: at the entry, or else a new one is to go to the first
\* entry that was deleted or to the end
FoundAt(chain, units, dir, end) ==
    LET found == end \in DOMAIN units /\ units[end] # Blank
        empty == {i \in 1..end - 1 : ~units[i].valid}
    IN [found |-> found,
        entry |-> IF found THEN units[end] ELSE Blank,
        dir   |-> Place(chain, dir, IF found THEN end ELSE Min(empty \cup {end}))]

\* FileFind in an opened directory
FileFind(d, dir, name) ==
    LET units == Units(d, dir.first)
        Is(u) == u.kind = "entry" /\ u.valid /\ u.name = name
        ends  == {i \in DOMAIN units : units[i] = Blank \/ Is(units[i])}
    IN FoundAt(Chain(d, dir.first), units, dir, Min(ends \cup {Len(units) + 1}))

RootDirectory == Opened(<<>>, Root, 0, TRUE)

\* The search for the name after the first, in the directory that the first names
FindBelow(d, first, path) ==
    IF Len(path) = 1 \/ ~first.found THEN first
    ELSE FileFind(d, Opened(<<path[1]>>, first.entry.block, first.entry.length, TRUE), path[2])

\* rc 0: found; -1: not in its directory; -2: no such directory, and dir is the last one found
FileFindRecursive(d, path) ==
    LET first == FileFind(d, RootDirectory, path[1])
        r     == FindBelow(d, first, path)
    IN [entry |-> r.entry, dir |-> r.dir,
        rc    |-> IF ~first.found /\ Len(path) > 1 THEN -2 ELSE IF r.found THEN 0 ELSE -1]

\* Broken variant: the entry stays valid
BrokenDeleteFound(d, r) ==
    IF r.rc # 0 THEN d
    ELSE [d EXCEPT !.free = @ \cup ToSet(Chain(d, r.entry.block))]

\* The blocks of the file that was found are free, and its entry is no longer valid
DeleteFound(d, r) ==
    LET freed == [d EXCEPT !.free = @ \cup ToSet(Chain(d, r.entry.block))]
    IN IF r.rc # 0 THEN d
       ELSE Put(freed, r.dir, [r.entry EXCEPT !.valid = FALSE]).d

OS_fdelete(d, path) == DeleteFound(d, FileFindRecursive(d, path))

\* [d, f], f NoFile without a file, when the search for path found r
OpenFound(d, r, path, mode) ==
    LET new == NewBlock(d, Opened(path, EOF, 0, FALSE))
        old == Opened(path, r.entry.block, r.entry.length, r.entry.dir)
    IN IF r.rc = -2 \/ (r.rc # 0 /\ mode = "r") THEN [d |-> d, f |-> NoFile]
       ELSE IF r.rc # 0
       THEN [d |-> new.d, f |-> [new.f EXCEPT !.first = new.f.block, !.modified = TRUE]]
       ELSE [d |-> d, f |-> IF mode = "a" THEN Seek(d, old, old.length) ELSE old]

\* OS_fopen, after the test whether a directory is overwritten
OS_fopen(d, path, mode) ==
    LET cleared == IF mode = "w" THEN OS_fdelete(d, path) ELSE d
    IN OpenFound(cleared, FileFindRecursive(cleared, path), path, mode)

\* Broken variant: the entry goes to the start of the directory
BrokenClose(d, f) ==
    IF ~f.modified THEN d
    ELSE LET r == FileFindRecursive(d, f.path)
         IN Put(d, [r.dir EXCEPT !.block = r.dir.first, !.offset = 0], Entry(f)).d

\* OS_fclose: the entry is written where FileFind says, whatever it found
OS_fclose(d, f) ==
    IF ~f.modified THEN d ELSE Put(d, FileFindRecursive(d, f.path).dir, Entry(f)).d

-----------------------------------------------------------------------------
(* Calls.  Nothing protects a file that is open from another thread that opens  *)
(* it for writing, creates it too or deletes it, a directory that is not empty  *)
(* from being deleted, nor the mutex, which stays taken when a directory is     *)
(* opened for writing: the threads are assumed to do none of this.              *)

IsDirectory(path) == path \in DOMAIN content /\ content[path] = <<DirectoryMark>>

Polite(path, mode) ==
    /\ \A h \in Handles : IsOpen(h) /\ open[h].path = path => mode = "r" /\ ~open[h].modified
    /\ mode \in {"w", "mkdir"} => ~IsDirectory(path)
    /\ mode = "mkdir" => path = <<DirectoryName>>
    /\ mode # "mkdir" => path # <<DirectoryName>> \/ IsDirectory(path)

Open(h) ==
    \E path \in Paths, mode \in {"r", "w", "a", "mkdir"} :
       LET r == OS_fopen(disk, path, IF mode = "mkdir" THEN "w" ELSE mode) IN
       /\ ~IsOpen(h) /\ Polite(path, mode)
       /\ disk' = IF r.f # NoFile /\ r.f.first = EOF THEN [r.d EXCEPT !.defect = "null"] ELSE r.d
       /\ open' = [open EXCEPT ![h] =
             IF r.f = NoFile THEN NoFile
             ELSE [r.f EXCEPT !.dir = @ \/ mode = "mkdir",
                              !.text = IF mode = "w" \/ path \notin DOMAIN content THEN <<>>
                                       ELSE content[path]]]
       /\ content' = IF mode \in {"w", "mkdir"}
                     THEN [p \in DOMAIN content \ {path} |-> content[p]] ELSE content

\* A thread looks through the root directory (OS_fdir): it reads entries
OpenRoot(h) ==
    /\ ~IsOpen(h)
    /\ open' = [open EXCEPT ![h] = RootDirectory]
    /\ UNCHANGED <<disk, content>>

Read(h) ==
    /\ IsOpen(h) /\ open[h].first # EOF
    /\ open' = [open EXCEPT ![h] = Get(disk, @)]
    /\ UNCHANGED <<disk, content>>

Write(h) ==
    \E v \in Values :
       LET unit == Data(open[h], v)
           r    == Put(disk, open[h], unit)
       IN
       /\ IsOpen(h) /\ ~open[h].dir /\ open[h].pos < MaxLength
       /\ \A g \in Handles \ {h} : open[g].path # open[h].path
       /\ disk' = r.d
       /\ open' = [open EXCEPT ![h] =
                     [r.f EXCEPT !.text = SubSeq(@, 1, open[h].pos) \o <<unit>>
                                          \o SubSeq(@, open[h].pos + 2, Len(@))]]
       /\ UNCHANGED content

SeekTo(h) ==
    /\ IsOpen(h) /\ ~open[h].dir
    /\ \E offset \in 0..open[h].length : open' = [open EXCEPT ![h] = Seek(disk, @, offset)]
    /\ UNCHANGED <<disk, content>>

Close(h) ==
    LET f == open[h] IN
    /\ IsOpen(h)
    /\ disk' = OS_fclose(disk, f)
    /\ open' = [open EXCEPT ![h] = NoFile]
    /\ content' = IF ~f.modified THEN content
                  ELSE [p \in DOMAIN content \cup {f.path} |->
                          IF p # f.path THEN content[p]
                          ELSE IF f.dir THEN <<DirectoryMark>> ELSE f.text]

Delete ==
    \E path \in Paths :
       /\ \A h \in Handles : ~IsOpen(h) \/ ~IsPrefix(path, open[h].path)
       /\ \A p \in DOMAIN content : ~IsStrictPrefix(path, p)
       /\ disk' = OS_fdelete(disk, path)
       /\ content' = [p \in DOMAIN content \ {path} |-> content[p]]
       /\ UNCHANGED open

FilesInit ==
    /\ disk = [next |-> [b \in Blocks |-> EOF],
               data |-> [b \in Blocks |-> [i \in 1..BlockUnits |-> Blank]],
               free |-> Blocks \ {Root}, defect |-> "none"]
    /\ open = [h \in Handles |-> NoFile]
    /\ content = [p \in {} |-> <<>>]

\* Nothing is said of what follows a write past a block
Next ==
    /\ disk.defect = "none"
    /\ \/ Delete
       \/ \E h \in Handles :
             Open(h) \/ OpenRoot(h) \/ Read(h) \/ Write(h) \/ SeekTo(h) \/ Close(h)

Spec == FilesInit /\ [][Next]_vars
-----------------------------------------------------------------------------
(* Properties *)

\* The first length units of a chain
Text(first, length) == SubSeq(Units(disk, first), 1, length)

Entries(first) == {u \in ToSet(Units(disk, first)) : u.kind = "entry" /\ u.valid}

\* The first blocks of the root directory, of all files and directories, and of open files
Heads ==
    LET top == Entries(Root) IN
    {Root} \cup {e.block : e \in top}
    \cup {e.block : e \in UNION {Entries(t.block) : t \in {u \in top : u.dir}}}
    \cup {open[h].first : h \in {g \in Handles : IsOpen(g)}}

\* A block is free or in one chain, of one file or directory: however files grow, are
\* overwritten and deleted, no block is lost and none has two owners (OS_fdelete, OS_fopen, BlockRead)
BlocksOwned ==
    disk.defect = "none" =>
      /\ disk.free = Blocks \ UNION {ToSet(Chain(disk, b)) : b \in Heads}
      /\ \A b, c \in Heads : b # c => ToSet(Chain(disk, b)) \cap ToSet(Chain(disk, c)) = {}

\* What was written and closed is found again under its name, and nothing else is: no entry
\* is overwritten, doubled or lost (FileFind, OS_fclose)
ReadsBack ==
    disk.defect = "none" =>
      \A path \in Paths :
         LET r == FileFindRecursive(disk, path) IN
         IF path \notin DOMAIN content THEN r.rc # 0
         ELSE /\ r.rc = 0 /\ r.entry.dir = IsDirectory(path)
              /\ \/ r.entry.dir
                 \/ \E h \in Handles : open[h].path = path /\ open[h].modified
                 \/ Text(r.entry.block, r.entry.length) = content[path]

\* An open file holds what was written to it, and reads and writes go to the place fileOffset
\* says, at the edges of blocks too (OS_fwrite, OS_fread, OS_fseek)
PlaceKept ==
    disk.defect = "none" =>
      \A h \in Handles :
         IsOpen(h) /\ ~open[h].dir =>
           LET f == open[h]
               g == IF f.offset >= BlockUnits THEN NextBlock(disk, f) ELSE f
           IN /\ Text(f.first, f.length) = f.text
              /\ f.pos < f.length => disk.data[g.block][g.offset + 1] = f.text[f.pos + 1]
=============================================================================
