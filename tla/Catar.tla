------------------------------- MODULE Catar -------------------------------
(***************************************************************************)
(* The catar format: what tar writes (tar.go, format.go) and the order of  *)
(* the nodes that file systems deliver to it (localfs_other.go, tarfs.go). *)
(* There are no variables: an archive is a function of a list of files.    *)
(*                                                                         *)
(* A name is a number, a path a sequence of names, a file a record         *)
(* [path, kind, data, xattrs, foreign]: data are the bytes of a regular    *)
(* file, xattrs the set of its attribute keys, and foreign says that it    *)
(* lies on another device than the root.                                   *)
(***************************************************************************)
EXTENDS Integers, Sequences, FiniteSets, SequencesExt

CONSTANTS
    NameHash,   \* SipHash of a name
    MaxItems    \* largest directory for which the search tree is checked

ASSUME MaxItemsAssumption == MaxItems \in Nat

NameSize   == 1                     \* bytes of a name
TailMarker == -1                    \* CaFormatGoodbyeTailMarker, the hash of no name
Parent(p)  == SubSeq(p, 1, Len(p) - 1)

-----------------------------------------------------------------------------
(* File systems.                                                           *)

\* LocalFS.startSerializer: the walk in lexical order.  With OneFileSystem,
\* directories of other devices are left out.
Serialized(files, oneFS) ==
    SelectSeq(files, LAMBDA f : ~(oneFS /\ f.kind = "dir" /\ f.foreign))

\* Nodes that tar can encode.
Supported(f) == f.kind \in {"dir", "file", "symlink", "device"}

-----------------------------------------------------------------------------
(* Elements and their size in bytes (the Size of the header).              *)

Entry       == [type |-> "entry",    size |-> 64]
XAttr(k)    == [type |-> "xattr",    size |-> 16 + 2 * NameSize + 2, key |-> k]
Filename(n) == [type |-> "filename", size |-> 16 + NameSize + 1, name |-> n]
Symlink     == [type |-> "symlink",  size |-> 16 + NameSize + 1]
Device      == [type |-> "device",   size |-> 32]
Payload(b)  == [type |-> "payload",  size |-> 16 + Len(b), data |-> b]
Goodbye(items) == [type |-> "goodbye", size |-> 16 + 24 * Len(items), items |-> items]

\* Bytes of a sequence of elements.
Bytes(els) == FoldSeq(LAMBDA e, n : e.size + n, 0, els)

-----------------------------------------------------------------------------
(* The items of a goodbye element: a complete binary search tree in an     *)
(* array.                                                                  *)

\* The least e with n < 2^e.
Log2Plus1(n) == CHOOSE e \in 0..n : 2^e > n /\ \A d \in 0..(e - 1) : 2^d <= n

\* Which of n sorted items is the root of a tree with e levels.  Mutant: the
\* last level is taken for full.
RootOfFull(n, e) == LET p == 2^(e - 1) IN p - 1
RootOf(n, e) ==
    LET p == 2^(e - 1)
        full == p - 1 + p \div 2
    IN  IF n >= full THEN p - 1 ELSE p - 1 - (full - n)

\* bst: the pairs <<slot, item>> for the items lo .. lo + n - 1 below slot i.
Bst[lo \in Nat, n \in Nat, i \in Nat, e \in Nat] ==
    IF n = 0 THEN {}
    ELSE LET k == RootOf(n, e)
         IN  {<<i, lo + k>>} \cup Bst[lo, k, 2 * i + 1, e - 1]
                             \cup Bst[lo + k + 1, n - k - 1, 2 * i + 2, e - 1]

BstPairs(n) == Bst[0, n, 0, Log2Plus1(n)]

\* makeGoodbyeBST: sort by hash, then by offset.  A slot that bst does not
\* fill stays zero.
ItemLess(a, b) == a.hash < b.hash \/ (a.hash = b.hash /\ a.offset < b.offset)
MakeGoodbyeBST(items) ==
    LET sorted == SortSeq(items, ItemLess)
        InSlot(s) == {p \in BstPairs(Len(items)) : p[1] = s - 1}
    IN  [s \in 1..Len(items) |->
            IF InSlot(s) = {} THEN [offset |-> 0, size |-> 0, hash |-> 0]
            ELSE sorted[(CHOOSE p \in InSlot(s) : TRUE)[2] + 1]]

-----------------------------------------------------------------------------

XAttrs(f) == LET keys == SetToSortSeq(f.xattrs, <) IN [j \in 1..Len(keys) |-> XAttr(keys[j])]

\* The goodbye element of a directory with the given items, n bytes after the
\* directory's entry.  Offsets are counted backwards.
GoodbyeOf(items, n) ==
    LET back == [j \in 1..Len(items) |-> [items[j] EXCEPT !.offset = n - @]]
    IN  Goodbye(Append(MakeGoodbyeBST(back),
                       [offset |-> n, size |-> 16 + Len(items) * 24 + 24, hash |-> TailMarker]))

\* tar: T[i, 0, NoDir] encodes files[i] with, for a directory, what lies in it;
\* T[i, n, dir] is the loop over the nodes from files[i] on that lie in dir, n
\* bytes after the entry of dir.  The result: elements, the first file that was
\* not encoded (fsBufReader.Buffer puts it back), and the items of the
\* directory.
NoDir == <<0>>
Tar(files) ==
    LET Inside(i, dir) == i <= Len(files) /\ files[i].path # <<>> /\ Parent(files[i].path) = dir
        T[i \in 1..(Len(files) + 1), n \in Nat, dir \in Seq(Nat)] ==
            IF dir = NoDir
            THEN LET f == files[i]
                     head == <<Entry>> \o XAttrs(f)
                     loop == T[i + 1, Bytes(head), f.path]
                 IN  CASE ~Supported(f) -> [els |-> <<>>, next |-> i + 1]
                       [] f.kind = "dir" ->
                            [els |-> head \o loop.els
                                     \o <<GoodbyeOf(loop.items, Bytes(head \o loop.els))>>,
                             next |-> loop.next]
                       [] f.kind = "file" ->
                            [els |-> Append(head, Payload(f.data)), next |-> i + 1]
                       [] f.kind = "symlink" -> [els |-> Append(head, Symlink), next |-> i + 1]
                       [] f.kind = "device" -> [els |-> Append(head, Device), next |-> i + 1]
            ELSE IF ~Inside(i, dir) THEN [els |-> <<>>, next |-> i, items |-> <<>>]
            ELSE LET node == T[i, 0, NoDir]
                     els  == <<Filename(Last(files[i].path))>> \o node.els
                     rest == T[node.next, n + Bytes(els), dir]
                 IN  [els |-> els \o rest.els, next |-> rest.next,
                      items |-> <<[offset |-> n, size |-> Bytes(els),
                                   hash |-> NameHash[Last(files[i].path)]]>> \o rest.items]
    IN  T[1, 0, NoDir].els

-----------------------------------------------------------------------------
(* What a reader of the archive relies on.                                 *)

\* Search for a hash from slot i of an array of n items.
Finds(items, n, h) ==
    LET At[i \in Nat] ==
            /\ i <= n
            /\ \/ items[i].hash = h
               \/ h < items[i].hash /\ At[2 * i]
               \/ h > items[i].hash /\ At[2 * i + 1]
    IN  At[1]

\* Trees of n items fill the slots 0 .. n - 1, and every item is found.
SearchTree(n) ==
    LET items == [j \in 1..n |-> [hash |-> j, offset |-> n - j, size |-> 1]]
    IN  /\ {p[1] : p \in BstPairs(n)} = 0..(n - 1)
        /\ \A h \in 1..n : Finds(MakeGoodbyeBST(items), n, h)

\* Where element k starts; entries of directories; how many directories are
\* open at element k.
Start(els, k) == Bytes(SubSeq(els, 1, k - 1))
DirEntry(els, k) ==
    /\ els[k].type = "entry"
    /\ \E m \in (k + 1)..Len(els) :
          /\ els[m].type \in {"filename", "goodbye"}
          /\ \A x \in (k + 1)..(m - 1) : els[x].type = "xattr"
Depth(els, k) ==
    Cardinality({j \in 1..(k - 1) : DirEntry(els, j)})
    - Cardinality({j \in 1..(k - 1) : els[j].type = "goodbye"})

\* The filenames in the directory that goodbye element g closes, and its entry.
Names(els, g) ==
    {k \in 1..(g - 1) : /\ els[k].type = "filename" /\ Depth(els, k) = Depth(els, g)
                        /\ \A j \in k..g : Depth(els, j) >= Depth(els, g)}
DirOf(els, g) ==
    CHOOSE k \in 1..(g - 1) : /\ DirEntry(els, k) /\ Depth(els, k) = Depth(els, g) - 1
                              /\ \A j \in (k + 1)..g : Depth(els, j) >= Depth(els, g)

\* Every name of the directory is found by its hash; every item leads back to
\* the filename element and tells how long the name and its node are; and the
\* tail leads back to the directory's entry.
LeadsToItems(els, g) ==
    LET items == els[g].items
        n == Len(items) - 1
        names == Names(els, g)
        Following(k) == CHOOSE m \in names \cup {g} :
                       m > k /\ \A x \in names : x <= k \/ x >= m
    IN  /\ n = Cardinality(names)
        /\ \A k \in names :
              LET h == NameHash[els[k].name] IN
              /\ Finds(items, n, h)
              /\ \E i \in 1..n :
                    items[i] = [offset |-> Start(els, g) - Start(els, k), hash |-> h,
                                size |-> Start(els, Following(k)) - Start(els, k)]
        /\ items[n + 1] = [offset |-> Start(els, g) - Start(els, DirOf(els, g)),
                           hash |-> TailMarker, size |-> els[g].size]

=============================================================================
