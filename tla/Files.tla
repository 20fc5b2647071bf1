------------------------------- MODULE Files -------------------------------
(***************************************************************************)
(* The file: scheme (schemes/file.rs) on a RedoxFS disk (fs/redoxfs), the  *)
(* listings it gives for directories (fs/vec_resource.rs), and the files   *)
(* of libstd (fs.rs) that programs use, with copy and rename.              *)
(*                                                                         *)
(* A resource keeps the whole file, and a copy of its node, in memory from *)
(* open to sync.  A system call runs with the contexts locked, so no other *)
(* comes in between; but a sync is several writes to the disk, any of      *)
(* which may fail unnoticed, and the machine may stop between them.  Copy  *)
(* and rename are many calls.                                              *)
(***************************************************************************)
EXTENDS Integers, Sequences, SequencesExt, FiniteSets

CONSTANTS Sector,   \* bytes in a sector (512)
          Extents,  \* extents of a node (16)
          BootNodes, BootDisk, BootFree, \* what is on the disk at first
          Paths,    \* names of files and directories: sequences of components
          Handles,  \* descriptors of other programs
          Data,     \* bytes written
          MaxLen,   \* longest file
          MaxOps, MaxRestarts, MaxFailures \* operations that change files; crashes; failed writes

ASSUME FilesAssumption == Sector \in Nat \ {0} /\ Extents \in Nat \ {0}

VARIABLES disk,   \* contents of the sectors
          dnodes, \* nodes on the disk, by block
          free,   \* header.free_space, in memory
          nodes,  \* FileSystem.nodes
          res,    \* the resource of each descriptor
          job,    \* the copy or rename under way
          syn,    \* the sync under way
          synced, \* history: what was last synced to the file with a node block
          ops, restarts, failures

filesVars == <<disk, dnodes, free, nodes, res, job, syn, synced, ops, restarts, failures>>

Fds == Handles \cup {"in", "out"}
NoRes == [kind |-> "none"]
NoExtent == [block |-> 0, length |-> 0]
Empty(e) == e.block = 0 \/ e.length = 0
Sectors(n) == (n + Sector - 1) \div Sector
Min2(a, b) == IF a < b THEN a ELSE b
Max2(a, b) == IF a > b THEN a ELSE b
Pad(v, n) == IF Len(v) >= n THEN v ELSE v \o [i \in 1..(n - Len(v)) |-> 0]

(* FileSystem::from_disk reads the header and the nodes in its extents. *)
from_disk == [i \in 1..Len(BootNodes) |-> dnodes[BootNodes[i].block]]

(* What open reads from the extents of a node. *)
Bytes(e) == FlattenSeq([k \in 1..Sectors(e.length) |-> disk[e.block + k - 1]])
Content(n) == FlattenSeq([i \in 1..Extents |->
                IF Empty(n.extents[i]) THEN <<>> ELSE SubSeq(Bytes(n.extents[i]), 1, n.extents[i].length)])

(* No sync is under way; else, at is the extent it has come to. *)
NoSync == [at |-> 0]

FilesInit ==
  /\ disk = BootDisk
  /\ dnodes = [b \in {BootNodes[i].block : i \in 1..Len(BootNodes)} |->
                 CHOOSE n \in Range(BootNodes) : n.block = b]
  /\ free = BootFree
  /\ nodes = BootNodes
  /\ res = [h \in Fds |-> NoRes]
  /\ job = [at |-> "none"]
  /\ syn = NoSync
  /\ synced = [b \in DOMAIN dnodes |-> [data |-> Content(dnodes[b]), old |-> <<>>, is |-> "whole", ok |-> FALSE]]
  /\ ops = 0 /\ restarts = 0 /\ failures = 0

----------------------------------------------------------------------------
(* FileSystem::node and list *)
node(path) == SelectSeq(nodes, LAMBDA n : n.name = path)
list(path) == LET below == SelectSeq(nodes, LAMBDA n : Len(n.name) > Len(path) /\ IsPrefix(path, n.name))
              IN [i \in 1..Len(below) |-> SubSeq(below[i].name, Len(path) + 1, Len(below[i].name))]

(* The lines of a directory: files, and directories once each. *)
line(file) == IF Len(file) > 1 THEN <<file[1], "/">> ELSE file
lines(children) ==
  FoldLeft(LAMBDA ls, f : IF Len(f) > 1 /\ line(f) \in Range(ls) THEN ls ELSE Append(ls, line(f)), <<>>, children)

(* FileScheme::stat *)
stat(path) ==
  IF list(path) # <<>> THEN [mode |-> "dir", size |-> Len(lines(list(path)))]
  ELSE LET n == node(path)[1]
       IN [mode |-> "file", size |-> FoldLeft(LAMBDA t, e : IF Empty(e) THEN t ELSE t + e.length, 0, n.extents)]

(* DirEntry of ReadDir, from a line *)
DirEntry(l) == [path |-> l[1], dir |-> Len(l) = 2]

----------------------------------------------------------------------------
(* Mutant: the free space stays where it is. *)
Alloc_Stay(s, i) ==
  LET n == Sectors(s.remaining)
  IN IF s.remaining > 0 /\ Empty(s.ext[i]) /\ s.free.length >= n * Sector
     THEN [s EXCEPT !.ext[i] = [block |-> s.free.block, length |-> s.remaining],
                    !.free.length = @ - n * Sector, !.dirty = TRUE]
     ELSE s

(* FileResource::sync, for one extent. An extent that is empty gets all that
   remains, if there is room; the vector is cut to what has been written. *)
Alloc(s, i) ==
  LET n == Sectors(s.remaining)
  IN IF s.remaining > 0 /\ Empty(s.ext[i]) /\ s.free.length >= n * Sector
     THEN [s EXCEPT !.ext[i] = [block |-> s.free.block, length |-> s.remaining],
                    !.free = [block |-> @.block + n, length |-> @.length - n * Sector],
                    !.dirty = TRUE]
     ELSE s

(* The first so many sectors of the write reach the disk: all, unless it fails. *)
sync_extent(s0, i, sectors) ==
  LET s == Alloc(s0, i)
      e == s.ext[i]
      max_size == Sectors(e.length) * Sector
      size == Min2(s.remaining, max_size)
      vec == Pad(s.vec, s.pos + max_size)
  IN IF Empty(e) THEN s
     ELSE [s EXCEPT
             !.ext[i].length = size,
             !.dirty = @ \/ size # e.length,
             !.disk = [b \in DOMAIN @ |-> IF b \in e.block..(e.block + Min2(sectors, Sectors(e.length)) - 1)
                         THEN SubSeq(vec, s.pos + (b - e.block) * Sector + 1, s.pos + (b - e.block + 1) * Sector)
                         ELSE @[b]],
             !.failed = @ \/ sectors < Sectors(e.length),
             !.vec = SubSeq(vec, 1, s.pos + size), !.pos = @ + size, !.remaining = @ - size]

Dirty(r) == r.kind = "file" /\ r.dirty

(* The resource is dropped, or stays. *)
Left(r, stays) == IF stays THEN r ELSE NoRes

(* sync of h begins, and is over at once when nothing changed. From here until
   it is over, the file may be old or new, or a part of each. *)
Sync(h, stays) ==
  LET r == res[h]
      b == r.node.block
  IN /\ IF Dirty(r)
        THEN /\ syn' = [at |-> 1, h |-> h, stays |-> stays, pos |-> 0, remaining |-> Len(r.vec),
                        dirty |-> FALSE, failed |-> FALSE, fresh |-> r.node \in Range(nodes)]
             /\ synced' = [c \in (DOMAIN synced \cup {b}) \ {0} |->
                             IF c # b THEN synced[c]
                             ELSE [data |-> r.vec, ok |-> FALSE,
                                   old |-> IF b \in DOMAIN synced THEN synced[b].data ELSE <<>>,
                                   is |-> IF b \in DOMAIN synced /\ synced[b].is = "whole" THEN "torn" ELSE "unknown"]]
             /\ UNCHANGED res
        ELSE /\ res' = [res EXCEPT ![h] = Left(r, stays)]
             /\ UNCHANGED <<syn, synced>>
     /\ UNCHANGED <<disk, dnodes, free, nodes, failures>>

(* One extent: its space, its data to the disk (file.rs:155), and the vector cut. *)
SyncExtent ==
  /\ syn.at \in 1..Extents
  /\ LET r == res[syn.h]
         begun == [vec |-> r.vec, ext |-> r.node.extents, free |-> free, disk |-> disk,
                   pos |-> syn.pos, remaining |-> syn.remaining, dirty |-> syn.dirty, failed |-> syn.failed]
     IN \E sectors \in 0..Sectors(MaxLen) :
          LET s == sync_extent(begun, syn.at, sectors)
          IN /\ IF s.failed /\ ~syn.failed THEN failures < MaxFailures /\ failures' = failures + 1
                ELSE sectors = Sectors(MaxLen) /\ UNCHANGED failures
             /\ disk' = s.disk /\ free' = s.free
             /\ res' = [res EXCEPT ![syn.h].vec = s.vec, ![syn.h].node.extents = s.ext]
             /\ syn' = [syn EXCEPT !.at = @ + 1, !.pos = s.pos, !.remaining = s.remaining,
                                   !.dirty = s.dirty, !.failed = s.failed]
  /\ UNCHANGED <<dnodes, nodes, job, synced, ops, restarts>>

(* The node, if it changed, to its block (file.rs:174) and to the nodes in memory.
   What the disk then holds is known if nothing failed, the node was not outdated
   and is the one on the disk, and the data has one extent. *)
NodeBytes == [k \in 1..Sector |-> -1]
SyncNode ==
  /\ syn.at = Extents + 1
  /\ LET r == res[syn.h]
         n == r.node
         saved == syn.dirty /\ n.block > 0
     IN /\ \E written \in {saved, FALSE} :
             /\ IF saved /\ ~written THEN failures < MaxFailures /\ failures' = failures + 1
                ELSE UNCHANGED failures
             /\ dnodes' = IF written /\ n.block \in DOMAIN dnodes THEN [dnodes EXCEPT ![n.block] = n] ELSE dnodes
             /\ disk' = IF written /\ n.block \in DOMAIN disk THEN [disk EXCEPT ![n.block] = NodeBytes] ELSE disk
        /\ nodes' = IF saved THEN [i \in 1..Len(nodes) |-> IF nodes[i].block = n.block THEN n ELSE nodes[i]]
                    ELSE nodes
        /\ synced' = IF n.block = 0 THEN synced
                     ELSE [synced EXCEPT
                       ![n.block].ok = syn.remaining = 0,
                       ![n.block].is = IF /\ syn.fresh /\ ~syn.failed /\ syn.remaining = 0
                                          /\ n.block \in DOMAIN dnodes => dnodes'[n.block] = n
                                          /\ Cardinality({i \in 1..Extents : ~Empty(n.extents[i])}) <= 1
                                       THEN "whole" ELSE "unknown"]
        /\ res' = [res EXCEPT ![syn.h] = Left([r EXCEPT !.dirty = FALSE], syn.stays)]
  /\ syn' = NoSync
  /\ UNCHANGED <<free, job, ops, restarts>>

Step == ops < MaxOps /\ ops' = ops + 1
BigStep == ops + 1 < MaxOps /\ ops' = ops + 2
Quiet(h) == h \in Handles /\ UNCHANGED <<job, restarts>>
NoWrite == UNCHANGED <<disk, dnodes, syn, synced, failures>>

(* fsync, and close, whose sync has no one to tell of an error. *)
Fsync(h) == Step /\ Quiet(h) /\ res[h].kind # "none" /\ Sync(h, TRUE)
CloseFd(h) == Quiet(h) /\ res[h].kind # "none" /\ Sync(h, FALSE) /\ UNCHANGED ops

VecResource(data) == [kind |-> "list", vec |-> data, seek |-> 0]
FileResource(n, vec, dirty) == [kind |-> "file", node |-> n, vec |-> vec, seek |-> 0, dirty |-> dirty]

(* FileScheme::open. A path with something below it is a directory. *)
OpenAs(h, path, creat, trunc) ==
  LET dir == list(path)
  IN \/ /\ dir # <<>>
        /\ res' = [res EXCEPT ![h] = VecResource(lines(dir))]
        /\ UNCHANGED <<nodes, free>>
     \/ /\ dir = <<>> /\ node(path) # <<>>
        /\ LET n == node(path)[1]
           IN res' = [res EXCEPT ![h] = FileResource(n, IF trunc THEN <<>> ELSE Content(n), trunc)]
        /\ UNCHANGED <<nodes, free>>
     \/ /\ dir = <<>> /\ node(path) = <<>> /\ creat
        /\ LET room == free.length >= Sector
               n == [block |-> IF room THEN free.block ELSE 0, name |-> path,
                     extents |-> [i \in 1..Extents |-> NoExtent]]
           IN /\ nodes' = Append(nodes, n)
              /\ free' = IF room THEN [block |-> free.block + 1, length |-> free.length - Sector] ELSE free
              /\ res' = [res EXCEPT ![h] = FileResource(n, <<>>, FALSE)]

(* File::open and File::create, and the flags of OpenOptions between them. *)
OpenFd(h, path) ==
  /\ Step /\ Quiet(h) /\ res[h].kind = "none"
  /\ \E creat, trunc \in BOOLEAN : OpenAs(h, path, creat, trunc)
  /\ NoWrite

Update(h, r) == /\ Step /\ Quiet(h) /\ res' = [res EXCEPT ![h] = r]
                /\ NoWrite /\ UNCHANGED <<free, nodes>>

(* dup copies the whole resource. *)
DupFd(h, g) == res[h].kind # "none" /\ res[g].kind = "none" /\ Update(g, res[h])

(* read, of one byte or line *)
ReadFd(h) == /\ res[h].kind # "none" /\ res[h].seek < Len(res[h].vec)
             /\ Update(h, [res[h] EXCEPT !.seek = @ + 1])

(* FileResource::write and VecResource::write *)
Written(r, buf) ==
  LET v == [r EXCEPT !.vec = SubSeq(@, 1, r.seek) \o buf \o SubSeq(@, r.seek + Len(buf) + 1, Len(@)),
                     !.seek = @ + Len(buf)]
  IN IF r.kind = "file" /\ buf # <<>> THEN [v EXCEPT !.dirty = TRUE] ELSE v
WriteFd(h) == \E b \in Data : /\ res[h].kind = "file" /\ res[h].seek < MaxLen
                              /\ Update(h, Written(res[h], <<b>>))

(* FileResource::seek fills the file up to the position; that is no change that
   sync would save. VecResource::seek never goes forward from where it is. *)
file_target(r, whence, offset) == CASE whence = "set" -> offset
                                    [] whence = "cur" -> Max2(0, r.seek + offset)
                                    [] whence = "end" -> Max2(0, Len(r.vec) + offset)
list_target(r, whence, offset) == CASE whence = "set" -> Min2(Len(r.vec), offset)
                                    [] whence = "cur" -> Max2(0, Min2(r.seek, r.seek + offset))
                                    [] whence = "end" -> Max2(0, Min2(r.seek, Len(r.vec) + offset))
Target(r, whence, offset) == IF r.kind = "file" THEN file_target(r, whence, offset) ELSE list_target(r, whence, offset)
SeekFd(h) ==
  /\ res[h].kind # "none"
  /\ \E whence \in {"set", "cur", "end"}, offset \in {-1, 1} :
       LET to == Target(res[h], whence, IF whence = "set" THEN Max2(0, offset) ELSE offset)
       IN /\ to <= MaxLen
          /\ Update(h, [res[h] EXCEPT !.seek = to, !.vec = IF res[h].kind = "file" THEN Pad(@, to) ELSE @])

(* truncate *)
TruncateFd(h) ==
  /\ res[h].kind = "file"
  /\ \E len \in {0, 1, MaxLen} :
       Update(h, [res[h] EXCEPT !.vec = SubSeq(Pad(@, len), 1, len), !.seek = Min2(@, len), !.dirty = TRUE])

(* FileScheme::unlink: the node goes; its blocks are not free again. *)
Unlinked(path) == nodes' = SelectSeq(nodes, LAMBDA n : n.name # path)
Unlink(path) ==
  /\ Step /\ node(path) # <<>>
  /\ Unlinked(path)
  /\ NoWrite /\ UNCHANGED <<free, res, job, restarts>>

----------------------------------------------------------------------------
(* libstd copy and rename: open, create, read and write in turn, drop the new
   file and then the old one, and for a rename remove the old name. *)
StartJob(from, to) ==
  /\ BigStep /\ job.at = "none" /\ list(from) = <<>> /\ node(from) # <<>>
  /\ OpenAs("in", from, FALSE, FALSE)
  /\ \E mv \in BOOLEAN :
       job' = [at |-> "create", from |-> from, to |-> to, mv |-> mv, whole |-> Content(node(from)[1])]
  /\ NoWrite /\ UNCHANGED restarts

JobCreate ==
  /\ job.at = "create"
  /\ OpenAs("out", job.to, TRUE, TRUE)
  /\ job' = [job EXCEPT !.at = "copy"]
  /\ NoWrite /\ UNCHANGED <<ops, restarts>>

(* io::copy, one turn *)
JobCopy ==
  /\ job.at = "copy"
  /\ LET i == res["in"]
         chunk == SubSeq(i.vec, i.seek + 1, Min2(Len(i.vec), i.seek + Sector))
     IN IF chunk = <<>> THEN job' = [job EXCEPT !.at = "drop_out"] /\ UNCHANGED res
        ELSE /\ res' = [res EXCEPT !["in"].seek = @ + Len(chunk), !["out"] = Written(@, chunk)]
             /\ UNCHANGED job
  /\ NoWrite /\ UNCHANGED <<free, nodes, ops, restarts>>

JobDropOut == /\ job.at = "drop_out" /\ Sync("out", FALSE)
              /\ job' = [job EXCEPT !.at = "drop_in"]
              /\ UNCHANGED <<ops, restarts>>
JobDropIn == /\ job.at = "drop_in" /\ Sync("in", FALSE)
             /\ job' = [job EXCEPT !.at = IF job.mv THEN "unlink" ELSE "none"]
             /\ UNCHANGED <<ops, restarts>>
JobUnlink == /\ job.at = "unlink" /\ Unlinked(job.from)
             /\ job' = [at |-> "none"]
             /\ NoWrite /\ UNCHANGED <<free, res, ops, restarts>>

(* The machine stops, between calls or between two writes of a sync, and starts
   again from the disk. Memory is lost; the header on the disk, and with it the
   free space and the list of nodes, is as before. *)
Restart ==
  /\ restarts < MaxRestarts /\ restarts' = restarts + 1
  /\ nodes' = from_disk /\ free' = BootFree
  /\ res' = [h \in Fds |-> NoRes] /\ job' = [at |-> "none"] /\ syn' = NoSync
  /\ synced' = [b \in DOMAIN synced \cap DOMAIN dnodes |-> synced[b]]
  /\ UNCHANGED <<disk, dnodes, ops, failures>>

Calls ==
  \/ \E h \in Handles : \/ Fsync(h) \/ CloseFd(h) \/ ReadFd(h) \/ WriteFd(h) \/ SeekFd(h) \/ TruncateFd(h)
                        \/ \E p \in Paths : OpenFd(h, p)
                        \/ \E g \in Handles : DupFd(h, g)
  \/ \E p \in Paths : Unlink(p) \/ \E q \in Paths : StartJob(p, q)
  \/ JobCreate \/ JobCopy \/ JobDropOut \/ JobDropIn \/ JobUnlink

FilesNext == (syn = NoSync /\ Calls) \/ SyncExtent \/ SyncNode \/ Restart

FilesSpec == FilesInit /\ [][FilesNext]_filesVars

----------------------------------------------------------------------------
(* Blocks that a node holds: its own and those of its extents. *)
Held(n) == ({n.block} \ {0}) \cup UNION {IF Empty(e) THEN {} ELSE e.block..(e.block + Sectors(e.length) - 1) :
                                           e \in Range(n.extents)}
AllNodes == Range(nodes) \cup {res[h].node : h \in {g \in Fds : res[g].kind = "file"}}

(* No block belongs to two files, whatever was created, extended, unlinked while
   open, or synced from an outdated copy of a node; and none is in the free space.
   (Until the first restart: the header is never written back.) *)
BlocksOwned ==
  restarts = 0 =>
    /\ \A m, n \in AllNodes : m.block # n.block => Held(m) \cap Held(n) = {}
    /\ \A n \in AllNodes : \A b \in Held(n) : b < free.block
    /\ free.block + free.length \div Sector = BootFree.block + BootFree.length \div Sector

(* Every byte read is of the old data or of the new, and the length is that of one. *)
At(v, k) == IF k <= Len(v) THEN v[k] ELSE 0
Mixed(c, old, new) == /\ Len(c) \in {Len(old), Len(new)}
                      /\ \A k \in 1..Len(c) : c[k] \in {At(old, k), At(new, k)}

(* The free space that a restart brings back may be in use already. *)
Low(n) == \A e \in Range(n.extents) : ~Empty(e) => e.block < BootFree.block
Reused == restarts > 1 \/ (restarts = 1 /\ free # BootFree)

(* What a sync saved through an up-to-date node, in one extent, is what the next
   open reads and stat measures: while other files grow, while their writes fail, and
   after a restart, wherever it came. A file whose own sync was cut by the restart
   has the length of the old or of the new data, and each byte from one of them. *)
SyncedIsRead ==
  \A i \in 1..Len(nodes) :
    LET n == nodes[i]
    IN n.block \in DOMAIN synced /\ synced[n.block].is # "unknown" /\ (Reused => Low(n))
       => LET s == synced[n.block] IN
          /\ IF s.is = "whole" THEN Content(n) = s.data ELSE Mixed(Content(n), s.old, s.data)
          /\ list(n.name) = <<>> => stat(n.name) = [mode |-> "file", size |-> Len(Content(n))]

(* A directory is listed with all its entries, each once, and those that have
   entries of their own as directories. *)
ListedOnce ==
  \A p \in Paths \cup {<<>>} :
    LET ls == lines(list(p))
    IN /\ Range(ls) = {line(SubSeq(n.name, Len(p) + 1, Len(n.name))) :
                         n \in {m \in Range(nodes) : Len(m.name) > Len(p) /\ IsPrefix(p, m.name)}}
       /\ IsInjective(ls)
       /\ \A i \in 1..Len(ls) : DirEntry(ls[i]).dir => stat(Append(p, DirEntry(ls[i]).path)).mode = "dir"

(* A sync that reported success has stored the data: "Flush the file data and
   metadata" (libstd/src/fs.rs). *)
SyncedIsStored ==
  \A i \in 1..Len(nodes) :
    LET n == nodes[i]
    IN /\ n.block \in DOMAIN synced /\ synced[n.block].ok
       /\ Cardinality({h \in Fds : res[h].kind = "file" /\ res[h].node.block = n.block}) <= 1
       /\ job.at = "none"
       => Content(n) = synced[n.block].data

============================================================================
