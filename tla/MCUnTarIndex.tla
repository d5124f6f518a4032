---------------------------- MODULE MCUnTarIndex ----------------------------
EXTENDS UnTarIndex

Node(p, k)   == [path |-> p, kind |-> k, data |-> <<>>, xattrs |-> {}, foreign |-> FALSE]
File(p, d)   == [Node(p, "file") EXCEPT !.data = d]

\* Names 1 and 4 have the same hash.
MCNameHash == (1 :> 2) @@ (2 :> 1) @@ (3 :> 3) @@ (4 :> 2)

\* A nested directory with a file that has an attribute, a symlink, a fifo that
\* is skipped, and a device.
Mixed ==
    << Node(<<>>, "dir"), Node(<<1>>, "dir"),
       [File(<<1, 2>>, <<7, 8>>) EXCEPT !.xattrs = {5}],
       Node(<<2>>, "symlink"), Node(<<3>>, "fifo"), Node(<<4>>, "device") >>

\* Directories that end together, an empty one, and an empty file.
Deep ==
    << Node(<<>>, "dir"), Node(<<1>>, "dir"), Node(<<1, 1>>, "dir"), File(<<1, 1, 2>>, <<>>),
       Node(<<2>>, "dir"), File(<<3>>, <<9>>) >>

\* An empty mount point between two files.
Mounts == << Node(<<>>, "dir"), File(<<1>>, <<7>>),
             [Node(<<2>>, "dir") EXCEPT !.foreign = TRUE], File(<<3>>, <<8>>) >>

\* The root is a file.
Single == << File(<<>>, <<7, 8, 9>>) >>

\* What can be at the target: nothing but the directory, files where files,
\* directories and links are to be created, and directories where links are.
Clean == (<<>> :> Node(<<>>, "dir"))
Used  == Clean @@ (<<1>> :> Node(<<1>>, "dir")) @@ (<<1, 2>> :> Node(<<1, 2>>, "dir"))
               @@ (<<1, 2, 3>> :> File(<<1, 2, 3>>, <<1>>)) @@ (<<2>> :> File(<<2>>, <<1, 1>>))
InWay == Clean @@ (<<1>> :> File(<<1>>, <<1>>)) @@ (<<2>> :> Node(<<2>>, "dir"))

Job(f, x, c, t, o) == [files |-> f, oneFS |-> x, cuts |-> c, target |-> t, old |-> o]

MCJobs ==
         {Job(Single, FALSE, c, "disk", Clean @@ Used) : c \in SUBSET (1..5)}
    \cup {Job(Mixed, FALSE, {a, a + d}, "disk", o) : a \in {2, 7, 12, 15}, d \in {3, 6}, o \in {Used, InWay}}
    \cup {Job(Deep, FALSE, {a, b}, "tar", Clean) : a \in {4, 9}, b \in {14, 17}}
    \cup {Job(Mounts, TRUE, {5, 9, 12}, "disk", Clean),
          Job(Mixed, FALSE, {9, 15}, "mtree", Clean), Job(Mixed, FALSE, {12}, "tar", Clean)}
=============================================================================
