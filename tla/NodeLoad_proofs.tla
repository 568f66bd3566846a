----------------------------- MODULE NodeLoad_proofs -----------------------------
(***************************************************************************)
(* Proofs about a storage node under any load: what a client that met no   *)
(* rival is served, what a refused COPY or MOVE leaves behind, and that a  *)
(* request is all or nothing.                                              *)
(***************************************************************************)
EXTENDS NodeLoad, SequenceTheorems, FiniteSetTheorems, WellFoundedInduction, TLAPS

Busy(w) == job[w] # Idle
Fields == {"req", "pc", "status", "fd", "src", "done", "got", "size", "to", "todo", "dirs", "bad"}

\* What a worker knows while it serves a request.
JobOK(j) ==
  /\ DOMAIN j = Fields /\ j.req \in Load
  /\ {j.fd, j.src} \subseteq Inodes \cup {NoFd}
  /\ j.status \in Nat /\ j.done \in Nat /\ j.size \in Int
  /\ j.req.method \in {"COPY", "MOVE"} => j.to \in Scope(j.req)
  /\ j.todo \subseteq Below(j.req.path) /\ j.dirs \subseteq Below(j.req.path)
  /\ j.pc = "copydir" => j.todo \subseteq Listed(j.req.path)
  /\ j.pc = "copydata" => j.src # NoFd /\ j.fd # NoFd
  /\ j.pc = "send" => j.fd # NoFd
JobsOK == DOMAIN job = Procs /\ \A w \in Procs : Busy(w) => JobOK(job[w])

\* No two names are one file.
Trees0 == [Paths -> Inodes \cup {Absent, Directory}]
NoLinks(t) == \A p, q \in Paths : t[p] \in Inodes /\ t[p] = t[q] => p = q
TreeOK == entry \in Trees0 /\ NoLinks(entry) /\ data \in [Inodes -> Seq(Nat)]

NodeInv == TreeOK /\ JobsOK

Free(i) == /\ i \in Inodes /\ \A p \in Paths : entry[p] # i
           /\ \A w \in Procs : Busy(w) => i # job[w].fd /\ i # job[w].src

-------------------------------------------------------------------------------
\* Names

LEMMA NodeNumbers ==
  /\ Absent = 0 /\ Directory = -1 /\ NoFd = 0 /\ IsADir = -1 /\ Whole = -1
  /\ Absent \notin Inodes /\ Directory \notin Inodes /\ NoFd \notin Inodes /\ Inodes \subseteq Nat
BY NodeAssumption DEF Absent, Directory, NoFd, IsADir, Whole

LEMMA PathsAre ==
  ASSUME NEW p \in Paths
  PROVE  p \in Seq(STRING) /\ Len(p) \in Nat /\ Len(p) > 1
BY LoadAssumption, LenProperties

LEMMA PrefixIs ==
  ASSUME NEW a \in Seq(STRING), NEW b \in Seq(STRING)
  PROVE  IsPrefix(a, b) <=> Len(a) <= Len(b) /\ \A i \in 1..Len(a) : a[i] = b[i]
<1>1. Len(a) \in Nat /\ Len(b) \in Nat
  BY LenProperties
<1>2. SUFFICES ASSUME Len(a) <= Len(b)
               PROVE  SubSeq(a, 1, Len(a)) = SubSeq(b, 1, Len(a)) <=> \A i \in 1..Len(a) : a[i] = b[i]
  BY DEF IsPrefix
<1>3. \A i \in 1..Len(a) : a[i] \in STRING /\ b[i] \in STRING
  BY <1>1, <1>2, ElementOfSeq
<1>4. /\ SubSeq(a, 1, Len(a)) \in Seq(STRING) /\ Len(SubSeq(a, 1, Len(a))) = Len(a)
      /\ \A i \in 1..Len(a) : SubSeq(a, 1, Len(a))[i] = a[i]
  <2>1. 1 \in Int /\ Len(a) \in Int /\ \A i \in 1..Len(a) : a[i] \in STRING
    BY <1>1, <1>3
  <2>2. /\ SubSeq(a, 1, Len(a)) \in Seq(STRING)
        /\ Len(SubSeq(a, 1, Len(a))) = IF 1 <= Len(a) THEN Len(a) - 1 + 1 ELSE 0
        /\ \A i \in 1 .. Len(a) - 1 + 1 : SubSeq(a, 1, Len(a))[i] = a[1 + i - 1]
    BY <2>1, SubSeqProperties
  <2> QED BY <1>1, <2>2
<1>5. /\ SubSeq(b, 1, Len(a)) \in Seq(STRING) /\ Len(SubSeq(b, 1, Len(a))) = Len(a)
      /\ \A i \in 1..Len(a) : SubSeq(b, 1, Len(a))[i] = b[i]
  <2>1. 1 \in Int /\ Len(a) \in Int /\ \A i \in 1..Len(a) : b[i] \in STRING
    BY <1>1, <1>3
  <2>2. /\ SubSeq(b, 1, Len(a)) \in Seq(STRING)
        /\ Len(SubSeq(b, 1, Len(a))) = IF 1 <= Len(a) THEN Len(a) - 1 + 1 ELSE 0
        /\ \A i \in 1 .. Len(a) - 1 + 1 : SubSeq(b, 1, Len(a))[i] = b[1 + i - 1]
    BY <2>1, SubSeqProperties
  <2> QED BY <1>1, <2>2
<1>6. ASSUME \A i \in 1..Len(a) : a[i] = b[i]
      PROVE  SubSeq(a, 1, Len(a)) = SubSeq(b, 1, Len(a))
  <2>1. \A i \in 1..Len(SubSeq(a, 1, Len(a))) : SubSeq(a, 1, Len(a))[i] = SubSeq(b, 1, Len(a))[i]
    BY <1>4, <1>5, <1>6
  <2> QED BY <1>4, <1>5, <2>1, SeqEqual
<1> QED BY <1>4, <1>5, <1>6

LEMMA PrefixSelf ==
  ASSUME NEW p \in Paths
  PROVE  IsPrefix(p, p)
BY PathsAre, PrefixIs

LEMMA PrefixTrans ==
  ASSUME NEW a \in Paths, NEW b \in Paths, NEW c \in Paths, IsPrefix(a, b), IsPrefix(b, c)
  PROVE  IsPrefix(a, c)
<1>1. /\ Len(a) <= Len(b) /\ \A i \in 1..Len(a) : a[i] = b[i]
      /\ Len(b) <= Len(c) /\ \A i \in 1..Len(b) : b[i] = c[i]
      /\ Len(a) \in Nat /\ Len(b) \in Nat /\ Len(c) \in Nat
  BY PathsAre, PrefixIs
<1>2. \A i \in 1..Len(a) : a[i] = c[i]
  BY <1>1
<1> QED BY <1>1, <1>2, PathsAre, PrefixIs

LEMMA PrefixesComparable ==
  ASSUME NEW a \in Paths, NEW b \in Paths, NEW c \in Paths, IsPrefix(a, c), IsPrefix(b, c)
  PROVE  IsPrefix(a, b) \/ IsPrefix(b, a)
<1>1. /\ Len(a) <= Len(c) /\ \A i \in 1..Len(a) : a[i] = c[i]
      /\ Len(b) <= Len(c) /\ \A i \in 1..Len(b) : b[i] = c[i]
      /\ Len(a) \in Nat /\ Len(b) \in Nat /\ Len(c) \in Nat
  BY PathsAre, PrefixIs
<1>2. CASE Len(a) <= Len(b)
  <2>1. \A i \in 1..Len(a) : a[i] = b[i]
    BY <1>1, <1>2
  <2> QED BY <1>2, <2>1, PathsAre, PrefixIs
<1>3. CASE Len(b) <= Len(a)
  <2>1. \A i \in 1..Len(b) : b[i] = a[i]
    BY <1>1, <1>3
  <2> QED BY <1>3, <2>1, PathsAre, PrefixIs
<1> QED BY <1>1, <1>2, <1>3

LEMMA AppendIs ==
  ASSUME NEW S, NEW b \in Seq(S), NEW x \in S
  PROVE  /\ Append(b, x) \in Seq(S) /\ Len(Append(b, x)) = Len(b) + 1
         /\ \A i \in 1..Len(b) : Append(b, x)[i] = b[i]
<1>1. Append(b, x) \in Seq(S) /\ Len(Append(b, x)) = Len(b) + 1
  BY AppendProperties
<1>2. \A i \in 1..Len(b) : Append(b, x)[i] = b[i]
  BY AppendProperties
<1> QED BY <1>1, <1>2

\* What a name appended to b is below.
LEMMA PrefixAppend ==
  ASSUME NEW a \in Paths, NEW b \in Paths, NEW x \in STRING, Append(b, x) \in Paths
  PROVE  /\ IsPrefix(b, Append(b, x)) /\ Append(b, x) # b
         /\ IsPrefix(a, Append(b, x)) => IsPrefix(a, b) \/ a = Append(b, x)
<1> DEFINE c == Append(b, x)
<1>1. /\ a \in Seq(STRING) /\ b \in Seq(STRING) /\ c \in Seq(STRING) /\ Len(a) \in Nat /\ Len(b) \in Nat
      /\ Len(c) = Len(b) + 1 /\ \A i \in 1..Len(b) : c[i] = b[i]
  <2>1. a \in Seq(STRING) /\ b \in Seq(STRING) /\ Len(a) \in Nat /\ Len(b) \in Nat
    BY PathsAre
  <2>2. /\ Append(b, x) \in Seq(STRING) /\ Len(Append(b, x)) = Len(b) + 1
        /\ \A i \in 1..Len(b) : Append(b, x)[i] = b[i]
    BY <2>1, AppendIs
  <2> QED BY <2>1, <2>2
<1> HIDE DEF c
<1>2. IsPrefix(b, c) /\ c # b
  BY <1>1, PrefixIs
<1>3. ASSUME IsPrefix(a, c) PROVE IsPrefix(a, b) \/ a = c
  <2>1. Len(a) <= Len(c) /\ \A i \in 1..Len(a) : a[i] = c[i]
    BY <1>1, <1>3, PrefixIs
  <2>2. CASE Len(a) <= Len(b)
    <3>1. \A i \in 1..Len(a) : a[i] = b[i]
      BY <1>1, <2>1, <2>2
    <3> QED BY <1>1, <2>2, <3>1, PrefixIs
  <2>3. CASE Len(a) = Len(c)
    BY <1>1, <2>1, <2>3, SeqEqual
  <2> QED BY <1>1, <2>1, <2>2, <2>3
<1> QED BY <1>2, <1>3 DEF c

LEMMA LastIs ==
  ASSUME NEW p \in Paths
  PROVE  Last(p) \in STRING
BY PathsAre, ElementOfSeq DEF Last

\* The names of a request are its scope, and so is what is below them.
LEMMA RequestIs ==
  ASSUME NEW r \in Load
  PROVE  /\ r.method \in {"PUT", "GET", "HEAD", "DELETE", "MKCOL", "COPY", "MOVE"}
         /\ r.path \in Paths /\ r.to \in Paths /\ r.off \in Nat \cup {Whole} /\ r.body \in Seq(Nat)
         /\ Offset(r) \in Nat /\ NamesOf(r) \subseteq Paths
         /\ Scope(r) \subseteq Paths /\ NamesOf(r) \subseteq Scope(r) /\ r.path \in Scope(r)
         /\ Below(r.path) \subseteq Scope(r)
         /\ r.method \in {"COPY", "MOVE"} => r.to \in Scope(r)
<1>1. r \in Requests
  BY LoadAssumption
<1>2. /\ r.method \in {"PUT", "GET", "HEAD", "DELETE", "MKCOL", "COPY", "MOVE"}
      /\ r.path \in Paths /\ r.to \in Paths /\ r.off \in Nat \cup {Whole} /\ r.body \in Seq(Nat)
  BY <1>1 DEF Requests
<1>3. Offset(r) \in Nat
  BY <1>2 DEF Offset
<1>4. r.path \in NamesOf(r) /\ NamesOf(r) \subseteq Paths /\ (r.method \in {"COPY", "MOVE"} => r.to \in NamesOf(r))
  BY <1>2 DEF NamesOf
<1>5. \A n \in NamesOf(r), q \in Paths : IsPrefix(n, q) => q \in Scope(r)
  BY DEF Scope
<1>6. Scope(r) \subseteq Paths
  BY DEF Scope
<1>7. NamesOf(r) \subseteq Scope(r)
  BY <1>4, <1>5, PrefixSelf
<1>8. Below(r.path) \subseteq Scope(r)
  BY <1>4, <1>5 DEF Below
<1> QED BY <1>2, <1>3, <1>4, <1>6, <1>7, <1>8

\* Requests without a conflict have no name in common, unless they are sections of one file.
LEMMA ScopesApart ==
  ASSUME NEW r \in Load, NEW s \in Load, ~Conflict(r, s), ~(ReadOnly(r) /\ ReadOnly(s)), ~Ranged(r) \/ ~Ranged(s)
  PROVE  Scope(r) \cap Scope(s) = {}
<1> SUFFICES ASSUME NEW q \in Paths, NEW a \in NamesOf(r), NEW b \in NamesOf(s), IsPrefix(a, q), IsPrefix(b, q)
             PROVE  FALSE
  BY DEF Scope
<1>1. a \in Paths /\ b \in Paths
  BY RequestIs
<1>2. IsPrefix(a, b) \/ IsPrefix(b, a)
  BY <1>1, PrefixesComparable
<1> QED BY <1>2 DEF Conflict

\* What a COPY or MOVE makes below its destination.
LEMMA CopyNames ==
  ASSUME NEW r \in Load, r.method \in {"COPY", "MOVE"}, NEW c \in Listed(r.path) \cup {r.path}
  PROVE  /\ Append(r.to, Last(c)) \in Scope(r) /\ Append(r.to, Last(c)) # r.to
         /\ \A p \in Paths : IsPrefix(p, Append(r.to, Last(c))) => IsPrefix(p, r.to) \/ p = Append(r.to, Last(c))
<1>1. Append(r.to, Last(c)) \in Paths /\ c \in Paths /\ r.to \in Paths /\ r.to \in NamesOf(r)
  BY LoadAssumption, RequestIs DEF NamesOf, Listed
<1>2. /\ IsPrefix(r.to, Append(r.to, Last(c))) /\ Append(r.to, Last(c)) # r.to
      /\ \A p \in Paths : IsPrefix(p, Append(r.to, Last(c))) => IsPrefix(p, r.to) \/ p = Append(r.to, Last(c))
  BY <1>1, LastIs, PrefixAppend
<1> QED BY <1>1, <1>2 DEF Scope

-------------------------------------------------------------------------------
\* Files

LEMMA LeastOf ==
  ASSUME NEW S \in SUBSET Nat, S # {}
  PROVE  Min(S) \in S
<1> DEFINE Less == {ss \in Nat \X Nat : ss[1] < ss[2]}
<1>1. IsWellFoundedOn(Less, Nat)
  BY NatLessThanWellFounded DEF OpToRel
<1>2. PICK m \in S : \A y \in S : <<y, m>> \notin Less
  <2> HIDE DEF Less
  <2> QED BY <1>1, WFMin
<1>3. ASSUME NEW y \in S PROVE m <= y
  <2>1. m \in Nat /\ y \in Nat /\ (y < m => <<y, m>> \in Less)
    OBVIOUS
  <2> QED BY <1>2, <2>1
<1> QED BY <1>3 DEF Min

LEMMA LeastIs ==
  ASSUME NEW a \in Int, NEW b \in Int
  PROVE  Min({a, b}) = IF a <= b THEN a ELSE b
<1>1. \E x \in {a, b} : \A y \in {a, b} : x =< y
  OBVIOUS
<1>2. Min({a, b}) \in {a, b} /\ Min({a, b}) <= a /\ Min({a, b}) <= b
  BY <1>1 DEF Min
<1> QED BY <1>2

\* What a function of a finite set has for values.
LEMMA ValuesOf ==
  ASSUME NEW S, IsFiniteSet(S), NEW f, DOMAIN f = S, NEW T, \A y : y \in T <=> \E x \in S : f[x] = y
  PROVE  IsFiniteSet(T) /\ Cardinality(T) \in Nat /\ Cardinality(T) <= Cardinality(S)
<1> DEFINE g == [x \in S |-> f[x]]
<1>1. g \in Surjection(S, T)
  BY DEF Surjection
<1>2. IsFiniteSet(T) /\ Cardinality(T) <= Cardinality(S)
  BY <1>1, FS_Surjection
<1> QED BY <1>2, FS_CardinalityType

\* There is always a file to create.
LEMMA NewInodeIsFree ==
  ASSUME NodeInv
  PROVE  Free(NewInode)
<1> DEFINE linked == {entry[p] : p \in Paths}
           fds == [w \in Procs |-> IF Busy(w) THEN job[w].fd ELSE NoFd]
           srcs == [w \in Procs |-> IF Busy(w) THEN job[w].src ELSE NoFd]
           open == {fds[w] : w \in Procs}
           read == {srcs[w] : w \in Procs}
           frees == {i \in Inodes : /\ \A p \in Paths : entry[p] # i
                                    /\ \A w \in Procs : job[w] = Idle \/ i \notin {job[w].fd, job[w].src}}
<1>1. /\ IsFiniteSet(Paths) /\ IsFiniteSet(Procs) /\ IsFiniteSet(Inodes)
      /\ Cardinality(Inodes) > Cardinality(Paths) + 2 * Cardinality(Procs)
  BY LoadAssumption
<1>2. IsFiniteSet(linked) /\ Cardinality(linked) \in Nat /\ Cardinality(linked) <= Cardinality(Paths)
  <2>1. DOMAIN entry = Paths
    BY DEF NodeInv, TreeOK, Trees0
  <2>2. \A y : y \in linked <=> \E x \in Paths : entry[x] = y
    OBVIOUS
  <2> HIDE DEF linked
  <2> QED BY <1>1, <2>1, <2>2, ValuesOf
<1>3. IsFiniteSet(open) /\ Cardinality(open) \in Nat /\ Cardinality(open) <= Cardinality(Procs)
  <2>1. DOMAIN fds = Procs /\ \A y : y \in open <=> \E x \in Procs : fds[x] = y
    OBVIOUS
  <2> HIDE DEF open, fds
  <2> QED BY <1>1, <2>1, ValuesOf
<1>4. IsFiniteSet(read) /\ Cardinality(read) \in Nat /\ Cardinality(read) <= Cardinality(Procs)
  <2>1. DOMAIN srcs = Procs /\ \A y : y \in read <=> \E x \in Procs : srcs[x] = y
    OBVIOUS
  <2> HIDE DEF read, srcs
  <2> QED BY <1>1, <2>1, ValuesOf
<1>5. Cardinality(Paths) \in Nat /\ Cardinality(Procs) \in Nat /\ Cardinality(Inodes) \in Nat
  BY <1>1, FS_CardinalityType
<1>6. frees # {}
  <2> SUFFICES ASSUME frees = {} PROVE FALSE
    OBVIOUS
  <2>1. Inodes \subseteq (linked \cup open) \cup read
    <3> SUFFICES ASSUME NEW i \in Inodes, i \notin linked PROVE i \in open \cup read
      OBVIOUS
    <3>1. \A p \in Paths : entry[p] # i
      OBVIOUS
    <3>2. PICK w \in Procs : job[w] # Idle /\ i \in {job[w].fd, job[w].src}
      BY <3>1
    <3>3. (fds[w] = job[w].fd /\ srcs[w] = job[w].src) /\ fds[w] \in open /\ srcs[w] \in read
      BY <3>2 DEF Busy
    <3> HIDE DEF fds, srcs, open, read
    <3> QED BY <3>2, <3>3
  <2> HIDE DEF linked, open, read, frees
  <2>2. /\ IsFiniteSet(linked \cup open) /\ Cardinality(linked \cup open) \in Nat
        /\ Cardinality(linked \cup open) <= Cardinality(linked) + Cardinality(open)
    <3>1. Cardinality(linked \cap open) \in Nat
      <4>1. linked \cap open \in SUBSET linked
        OBVIOUS
      <4> QED BY <1>2, <4>1, FS_Subset, FS_CardinalityType
    <3>2. IsFiniteSet(linked \cup open) /\ Cardinality(linked \cup open) = Cardinality(linked) + Cardinality(open) - Cardinality(linked \cap open)
      BY <1>2, <1>3, FS_Union
    <3>3. Cardinality(linked \cup open) \in Nat
      BY <3>2, FS_CardinalityType
    <3> QED BY <1>2, <1>3, <3>1, <3>2, <3>3
  <2>3. /\ IsFiniteSet((linked \cup open) \cup read) /\ Cardinality((linked \cup open) \cup read) \in Nat
        /\ Cardinality((linked \cup open) \cup read) <= Cardinality(linked \cup open) + Cardinality(read)
    <3>1. Cardinality((linked \cup open) \cap read) \in Nat
      <4>1. (linked \cup open) \cap read \in SUBSET read
        OBVIOUS
      <4> QED BY <1>4, <4>1, FS_Subset, FS_CardinalityType
    <3>2. /\ IsFiniteSet((linked \cup open) \cup read)
          /\ Cardinality((linked \cup open) \cup read)
                = Cardinality(linked \cup open) + Cardinality(read) - Cardinality((linked \cup open) \cap read)
      BY <1>4, <2>2, FS_Union
    <3>3. Cardinality((linked \cup open) \cup read) \in Nat
      BY <3>2, FS_CardinalityType
    <3> QED BY <1>4, <2>2, <3>1, <3>2, <3>3
  <2>4. Cardinality(Inodes) <= Cardinality((linked \cup open) \cup read)
    BY <2>1, <2>3, FS_Subset
  <2> QED BY <1>1, <1>2, <1>3, <1>4, <1>5, <2>2, <2>3, <2>4
<1>7. NewInode \in frees
  <2>1. frees \in SUBSET Nat
    BY NodeNumbers
  <2>2. NewInode = Min(frees)
    BY DEF NewInode
  <2> HIDE DEF frees
  <2> QED BY <1>6, <2>1, <2>2, LeastOf
<1> QED BY <1>7 DEF Free, Busy

-------------------------------------------------------------------------------
\* The invariant

SeenOK == DOMAIN seen = Procs /\ \A w \in Procs : Busy(w) => DOMAIN seen[w] = {"before", "outdated", "alone"}

CacheKeys == {Hash[p] : p \in Paths}
CacheEntries == [name : Paths \cup {<<>>}, size : Int, fresh : BOOLEAN]
CacheOK == cache \in [Procs -> [CacheKeys -> CacheEntries]]

\* A request that has met no rival, but for a section of a file, which shares its name with others.
Watched(w) == Busy(w) /\ seen[w].alone /\ ~Ranged(job[w].req)

\* What it has to do with others: they have other names, and write to other files.
Reading(w, v) == ReadOnly(job[w].req) /\ ReadOnly(job[v].req)
Separate ==
  \A w, v \in Procs : Watched(w) /\ Busy(v) /\ v # w /\ ~Reading(w, v) =>
    /\ Scope(job[w].req) \cap Scope(job[v].req) = {}
    /\ ~ReadOnly(job[v].req) => \A q \in Scope(job[w].req) : entry[q] \in Inodes => entry[q] # job[v].fd

\* A COPY or MOVE has not touched its source as long as it may be refused: of a worker that does
\* j, that found the tree b when the request came, and finds it V with entries E now.
Source(r) == Below(r.path) \cup {r.path}
Early     == {"stat", "dest", "destdir"}
OfFile    == {"rename", "copy", "copydata"}
KeptOf(j, b, V, E) ==
  LET r == j.req IN
  /\ j.pc \in Early => \A q \in Scope(r) : V[q] = b[q]
  /\ j.pc \in Early \cup OfFile \cup {"copydir"} => \A q \in Source(r) : V[q] = b[q]
  /\ j.pc = "answer" /\ j.status >= 400 => \A q \in Source(r) : V[q] = b[q]
  /\ j.pc \in OfFile \cup {"dest"} => b[r.path].is = "file"
  /\ j.pc \in OfFile => j.to = Into(b, r)
  /\ j.pc \in OfFile \cup {"unlinksource"} => j.status < 400
  /\ j.pc = "copydata" => \A q \in Source(r) : E[q] \in Inodes => E[q] # j.fd
  /\ j.pc \in {"destdir", "copydir"} => b[r.path] = Collection
Moving(w) == /\ Watched(w) /\ job[w].req.method \in {"COPY", "MOVE"}
             /\ ~IntoItself(seen[w].before, job[w].req)
Kept(w) == Moving(w) => KeptOf(job[w], seen[w].before, View, entry)

TreeInv == NodeInv /\ SeenOK /\ CacheOK /\ Separate /\ \A w \in Procs : Kept(w)

\* No two names share an entry of the stat cache.
DistinctHash == \A p, q \in Paths : Hash[p] = Hash[q] => p = q

\* What is in a cache and counts is so, unless the name is known to have changed.
Truthful(w, p) ==
  LET known == cache[w][Hash[p]]
  IN  /\ known = NotCached \/ known.name = p
      /\ known.fresh => known.name = p
      /\ known.fresh /\ p \notin stale[w] => entry[p] # Absent /\ known.size = Stat(p)
CacheTrue == \A w \in Procs, p \in Paths : Truthful(w, p)

\* A GET or HEAD serves what is there.
Answers(j, now) ==
  CASE now.is = "file"      -> j.status = 200 /\ j.size = Len(now.has) /\ (j.req.method = "GET" => j.got = now.has)
    [] now.is = "directory" -> j.status = 301
    [] now.is = "absent"    -> j.status = 404
Served(w) ==
  Watched(w) /\ ReadOnly(job[w].req) =>
    LET j == job[w]
        p == j.req.path
    IN  /\ j.pc = "cache" => j.done = 0 /\ j.got = <<>>
        /\ j.pc \in {"sendopen", "send"} /\ ~seen[w].outdated =>
             /\ IsFile(p) /\ j.status = 200 /\ j.size = Len(data[entry[p]])
             /\ j.done < j.size /\ j.got = SubSeq(data[entry[p]], 1, j.done)
        /\ j.pc = "send" /\ ~seen[w].outdated => j.fd = entry[p]
        /\ j.pc = "answer" /\ ~seen[w].outdated => Answers(j, View[p])

ServeInv == TreeInv /\ CacheTrue /\ \A w \in Procs : Served(w)


-------------------------------------------------------------------------------
\* What a worker's step may do to the tree: it changes names of its request, and contents of
\* those files and of the one it has open.
Foot(w) ==
  LET S == Scope(job[w].req)
  IN  /\ TreeOK'
      /\ \A q \in Paths : q \notin S => entry'[q] = entry[q]
      /\ \A q \in S : entry'[q] \in Inodes => Free(entry'[q]) \/ \E p \in S : entry[p] = entry'[q]
      /\ \A q \in Paths : q \notin S /\ entry[q] \in Inodes /\ entry[q] # job[w].fd => data'[entry[q]] = data[entry[q]]

\* And to what it knows: it goes on with its request, and the file it has open has its name.
Works(w) ==
  /\ JobsOK' /\ Busy(w) /\ Busy(w)' /\ job'[w].req = job[w].req /\ \A v \in Procs : v # w => job'[v] = job[v]
  /\ job'[w].fd \in {NoFd, job[w].fd} \/ \E q \in Scope(job[w].req) : entry'[q] = job'[w].fd

LEMMA JobIs ==
  ASSUME NodeInv, NEW w \in Procs, Busy(w)
  PROVE  /\ JobOK(job[w]) /\ job[w].req \in Load /\ DOMAIN job[w] = Fields /\ DOMAIN job = Procs
         /\ job[w].req.path \in Scope(job[w].req) /\ job[w].req.path \in Paths /\ job[w].req.to \in Paths
         /\ Scope(job[w].req) \subseteq Paths /\ Below(job[w].req.path) \subseteq Scope(job[w].req)
<1>1. JobOK(job[w]) /\ DOMAIN job = Procs
  BY DEF NodeInv, JobsOK
<1>2. job[w].req \in Load /\ DOMAIN job[w] = Fields
  BY <1>1 DEF JobOK
<1> QED BY <1>1, <1>2, RequestIs

LEMMA TreeIs ==
  ASSUME NodeInv
  PROVE  /\ entry \in Trees0 /\ NoLinks(entry) /\ data \in [Inodes -> Seq(Nat)]
         /\ \A q \in Paths : entry[q] \in Inodes \cup {Absent, Directory}
BY DEF NodeInv, TreeOK, Trees0

LEMMA NotIdle ==
  ASSUME NEW j, JobOK(j)
  PROVE  j # Idle
<1>1. DOMAIN j = Fields /\ "req" \in Fields
  BY DEF JobOK, Fields
<1>2. DOMAIN Idle = {"pc"}
  BY DEF Idle
<1> QED BY <1>1, <1>2

LEMMA Edited ==
  ASSUME NodeInv, NEW w \in Procs, Busy(w), NEW j, job' = [job EXCEPT ![w] = j], JobOK(j), j.req = job[w].req,
         j.fd \in {NoFd, job[w].fd} \/ \E q \in Scope(job[w].req) : entry'[q] = j.fd
  PROVE  Works(w) /\ job'[w] = j
<1>1. DOMAIN job = Procs
  BY JobIs
<1>2. job'[w] = j /\ DOMAIN job' = Procs /\ \A v \in Procs : v # w => job'[v] = job[v]
  BY <1>1
<1>3. Busy(w)'
  BY <1>2, NotIdle DEF Busy
<1>4. JobsOK'
  <2> SUFFICES ASSUME NEW v \in Procs, Busy(v)' PROVE JobOK(job'[v])
    BY <1>2 DEF JobsOK, JobOK
  <2>1. CASE v = w
    BY <1>2, <2>1
  <2>2. CASE v # w
    BY <1>2, <2>2, JobIs DEF Busy
  <2> QED BY <2>1, <2>2
<1> QED BY <1>2, <1>3, <1>4 DEF Works

\* The file it opens has a name of the request.
Knows(w, j) == job' = [job EXCEPT ![w] = j]

LEMMA EditedFd ==
  ASSUME NodeInv, NEW w \in Procs, Busy(w), NEW j, Knows(w, j), JobOK(j), j.req = job[w].req,
         NEW q \in Scope(job[w].req), entry'[q] = j.fd
  PROVE  Works(w) /\ job'[w] = j
BY Edited DEF Knows

-------------------------------------------------------------------------------
\* Kinds of steps, by what they do to the tree

\* A name stays what it is.
Stays(q) == entry'[q] = entry[q] /\ (entry[q] \in Inodes => data'[entry[q]] = data[entry[q]])

LEMMA ViewStays ==
  ASSUME NodeInv, NEW q \in Paths, Stays(q)
  PROVE  View'[q] = View[q]
<1>1. entry[q] \in Inodes \cup {Absent, Directory}
  BY TreeIs
<1>2. View[q] = CASE entry[q] = Absent -> Nothing [] entry[q] = Directory -> Collection [] OTHER -> File(data[entry[q]])
  BY DEF View, ViewOf
<1>3. View'[q] = CASE entry'[q] = Absent -> Nothing [] entry'[q] = Directory -> Collection [] OTHER -> File(data'[entry'[q]])
  BY DEF View, ViewOf
<1> QED BY <1>1, <1>2, <1>3, NodeNumbers DEF Stays

LEMMA FootOfNothing ==
  ASSUME NodeInv, NEW w \in Procs, Busy(w), Unchanged
  PROVE  Foot(w) /\ \A q \in Paths : Stays(q)
BY JobIs, TreeIs DEF Unchanged, Foot, TreeOK, NodeInv, Stays

\* What stays of the tree e with contents d when nobody refers to some of its files.
LEMMA BecomesIs ==
  ASSUME NodeInv, NEW t \in Trees0, NoLinks(t), NEW d \in [Inodes -> Seq(Nat)], Becomes(t, d)
  PROVE  /\ entry' = t /\ TreeOK' /\ \A q \in Paths : t[q] \in Inodes => data'[t[q]] = d[t[q]]
         /\ \A v \in Procs : Busy(v) /\ job[v].fd \in Inodes => data'[job[v].fd] = d[job[v].fd]
<1> DEFINE kept == {t[p] : p \in Paths} \cup UNION {{job[w].fd, job[w].src} : w \in {v \in Procs : job[v] # Idle}}
<1>1. entry' = t /\ data' = [i \in Inodes |-> IF i \in kept THEN d[i] ELSE <<>>]
  BY DEF Becomes
<1>2. \A q \in Paths : t[q] \in kept
  OBVIOUS
<1>3. \A v \in Procs : Busy(v) => job[v].fd \in kept
  BY DEF Busy
<1>4. <<>> \in Seq(Nat)
  BY EmptySeq
<1> HIDE DEF kept
<1>5. data' \in [Inodes -> Seq(Nat)]
  BY <1>1, <1>4
<1> QED BY <1>1, <1>2, <1>3, <1>5 DEF TreeOK, NoLinks, Trees0

\* A name goes, or is made a directory.
LEMMA FootOfName ==
  ASSUME NodeInv, NEW w \in Procs, Busy(w), NEW t \in Scope(job[w].req), NEW x \in {Absent, Directory},
         Becomes([entry EXCEPT ![t] = x], data)
  PROVE  Foot(w) /\ entry' = [entry EXCEPT ![t] = x] /\ \A q \in Paths : q # t => Stays(q)
<1>1. PICK n : n = [entry EXCEPT ![t] = x]
  OBVIOUS
<1>2. t \in Paths /\ entry \in Trees0 /\ NoLinks(entry) /\ data \in [Inodes -> Seq(Nat)] /\ Scope(job[w].req) \subseteq Paths
  BY JobIs, TreeIs
<1>3. n \in Trees0 /\ \A q \in Paths : n[q] = IF q = t THEN x ELSE entry[q]
  BY <1>1, <1>2 DEF Trees0
<1>4. x \notin Inodes
  BY NodeNumbers
<1>5. NoLinks(n)
  BY <1>2, <1>3, <1>4 DEF NoLinks
<1>6. entry' = n /\ TreeOK' /\ \A q \in Paths : n[q] \in Inodes => data'[n[q]] = data[n[q]]
  BY <1>1, <1>2, <1>3, <1>5, BecomesIs
<1>7. \A q \in Paths : q # t => Stays(q)
  BY <1>3, <1>6 DEF Stays
<1> QED BY <1>1, <1>2, <1>3, <1>4, <1>6, <1>7 DEF Foot

\* Contents change, of files of the request or of the one that is open.
LEMMA FootOfData ==
  ASSUME NodeInv, NEW w \in Procs, Busy(w), NEW d \in [Inodes -> Seq(Nat)], Becomes(entry, d),
         \A i \in Inodes : d[i] = data[i] \/ i = job[w].fd \/ \E q \in Scope(job[w].req) : entry[q] = i
  PROVE  Foot(w) /\ entry' = entry
<1>1. entry \in Trees0 /\ NoLinks(entry) /\ Scope(job[w].req) \subseteq Paths
  BY JobIs, TreeIs
<1>2. entry' = entry /\ TreeOK' /\ \A q \in Paths : entry[q] \in Inodes => data'[entry[q]] = d[entry[q]]
  BY <1>1, BecomesIs
<1>3. ASSUME NEW q \in Paths, q \notin Scope(job[w].req), entry[q] \in Inodes, entry[q] # job[w].fd
      PROVE  data'[entry[q]] = data[entry[q]]
  <2>1. ~ \E p \in Scope(job[w].req) : entry[p] = entry[q]
    BY <1>1, <1>3 DEF NoLinks
  <2> QED BY <1>2, <1>3, <2>1
<1> QED BY <1>1, <1>2, <1>3 DEF Foot

\* A file is made or emptied under a name of the request, maybe filled.
LEMMA FootOfFile ==
  ASSUME NodeInv, NEW w \in Procs, Busy(w), NEW t \in Scope(job[w].req), NEW i \in Inodes,
         Free(i) \/ entry[t] = i, NEW s \in Seq(Nat),
         Becomes([entry EXCEPT ![t] = i], [data EXCEPT ![i] = s])
  PROVE  Foot(w) /\ entry' = [entry EXCEPT ![t] = i] /\ \A q \in Paths : q # t => Stays(q)
<1>1. PICK n : n = [entry EXCEPT ![t] = i]
  OBVIOUS
<1>2. PICK d : d = [data EXCEPT ![i] = s]
  OBVIOUS
<1>3. t \in Paths /\ entry \in Trees0 /\ NoLinks(entry) /\ data \in [Inodes -> Seq(Nat)] /\ Scope(job[w].req) \subseteq Paths
  BY JobIs, TreeIs
<1>4. n \in Trees0 /\ \A q \in Paths : n[q] = IF q = t THEN i ELSE entry[q]
  BY <1>1, <1>3 DEF Trees0
<1>5. \A q \in Paths : q # t => entry[q] # i
  BY <1>3 DEF NoLinks, Free
<1>6. NoLinks(n)
  BY <1>3, <1>4, <1>5 DEF NoLinks
<1>7. d \in [Inodes -> Seq(Nat)] /\ \A k \in Inodes : k # i => d[k] = data[k]
  BY <1>2, <1>3
<1>8. entry' = n /\ TreeOK' /\ \A q \in Paths : n[q] \in Inodes => data'[n[q]] = d[n[q]]
  BY Zenon, <1>1, <1>2, <1>4, <1>6, <1>7, BecomesIs
<1>9. \A q \in Paths : q \notin Scope(job[w].req) => n[q] = entry[q] /\ q # t
  BY <1>4
<1>10. \A q \in Scope(job[w].req) : n[q] \in Inodes => Free(n[q]) \/ \E p \in Scope(job[w].req) : entry[p] = n[q]
  BY <1>3, <1>4
<1>11. \A q \in Paths : q # t => Stays(q)
  BY <1>4, <1>5, <1>7, <1>8 DEF Stays
<1> QED BY <1>1, <1>8, <1>9, <1>10, <1>11 DEF Foot, Stays

\* The same, by name.
Named(t, x)    == Becomes([entry EXCEPT ![t] = x], data)
Filed(t, i, s) == Becomes([entry EXCEPT ![t] = i], [data EXCEPT ![i] = s])
Contents       == Seq(Nat)

LEMMA FootOfNamed ==
  ASSUME NodeInv, NEW w \in Procs, Busy(w), NEW t \in Scope(job[w].req), NEW x \in {Absent, Directory}, Named(t, x)
  PROVE  Foot(w) /\ entry' = [entry EXCEPT ![t] = x] /\ \A q \in Paths : q # t => Stays(q)
BY FootOfName DEF Named

LEMMA FootOfFiled ==
  ASSUME NodeInv, NEW w \in Procs, Busy(w), NEW t \in Scope(job[w].req), NEW i \in Inodes,
         Free(i) \/ entry[t] = i, NEW s \in Contents, Filed(t, i, s)
  PROVE  Foot(w) /\ entry' = [entry EXCEPT ![t] = i] /\ \A q \in Paths : q # t => Stays(q)
BY FootOfFile DEF Filed, Contents

\* A file gets another name of the request.
LEMMA FootOfRename ==
  ASSUME NodeInv, NEW w \in Procs, Busy(w), NEW p \in Scope(job[w].req), NEW t \in Scope(job[w].req), p # t,
         entry[p] \in Inodes, Becomes([Without(p) EXCEPT ![t] = entry[p]], data)
  PROVE  Foot(w)
<1>1. PICK n : n = [Without(p) EXCEPT ![t] = entry[p]]
  OBVIOUS
<1>2. /\ t \in Paths /\ p \in Paths /\ entry \in Trees0 /\ NoLinks(entry) /\ data \in [Inodes -> Seq(Nat)]
      /\ Scope(job[w].req) \subseteq Paths
  BY JobIs, TreeIs
<1>3. n \in Trees0 /\ \A q \in Paths : n[q] = IF q = t THEN entry[p] ELSE IF q = p THEN Absent ELSE entry[q]
  BY <1>1, <1>2 DEF Trees0, Without
<1>4. Absent \notin Inodes
  BY NodeNumbers
<1>5. NoLinks(n)
  BY <1>2, <1>3, <1>4 DEF NoLinks
<1>6. entry' = n /\ TreeOK' /\ \A q \in Paths : n[q] \in Inodes => data'[n[q]] = data[n[q]]
  BY <1>1, <1>2, <1>3, <1>5, BecomesIs
<1> QED BY <1>2, <1>3, <1>4, <1>6 DEF Foot

-------------------------------------------------------------------------------
\* What becomes of what a worker knows

\* What edits of the whole record say of it.
Same(j, k) == /\ DOMAIN j = Fields /\ j.req = k.req /\ j.status = k.status /\ j.fd = k.fd /\ j.src = k.src
              /\ j.done = k.done /\ j.got = k.got /\ j.size = k.size /\ j.to = k.to /\ j.todo = k.todo /\ j.dirs = k.dirs

LEMMA FinishIs ==
  ASSUME NodeInv, NEW w \in Procs, Busy(w), NEW s \in Nat, Finish(w, s)
  PROVE  /\ Works(w) /\ job'[w].pc = "answer" /\ job'[w].status = s
         /\ job'[w].size = job[w].size /\ job'[w].got = job[w].got
<1>1. PICK j : j = [job[w] EXCEPT !.pc = "answer", !.status = s, !.fd = NoFd, !.src = NoFd]
  OBVIOUS
<1>2. job' = [job EXCEPT ![w] = j]
  BY <1>1, JobIs DEF Finish
<1>3. /\ DOMAIN j = Fields /\ j.req = job[w].req /\ j.pc = "answer" /\ j.status = s /\ j.fd = NoFd /\ j.src = NoFd
      /\ j.done = job[w].done /\ j.got = job[w].got /\ j.size = job[w].size /\ j.to = job[w].to
      /\ j.todo = job[w].todo /\ j.dirs = job[w].dirs
  BY <1>1, JobIs DEF Fields
<1>4. JobOK(job[w])
  BY JobIs
<1>5. JobOK(j)
  BY <1>3, <1>4 DEF JobOK
<1> QED BY <1>2, <1>3, <1>5, Edited

LEMMA GotoIs ==
  ASSUME NodeInv, NEW w \in Procs, Busy(w), NEW pc, pc \notin {"copydir", "copydata", "send"}, Goto(w, pc)
  PROVE  Works(w) /\ job'[w].pc = pc /\ Same(job'[w], job[w])
<1>1. PICK j : j = [job[w] EXCEPT !.pc = pc]
  OBVIOUS
<1>2. job' = [job EXCEPT ![w] = j]
  BY <1>1, JobIs DEF Goto
<1>3. j.pc = pc /\ Same(j, job[w])
  BY <1>1, JobIs DEF Fields, Same
<1>4. JobOK(job[w])
  BY JobIs
<1>5. JobOK(j)
  BY <1>3, <1>4 DEF JobOK, Same
<1>6. j.req = job[w].req /\ j.fd \in {NoFd, job[w].fd}
  BY <1>3 DEF Same
<1> QED BY <1>2, <1>3, <1>5, <1>6, Edited

\* A worker opens a file that has its request's name, or none.
LEMMA OpenedIs ==
  ASSUME NodeInv, NEW w \in Procs, Busy(w), NEW i \in Inodes \cup {NoFd}, NEW s \in Nat, Opened(w, i, s),
         i = NoFd \/ \E q \in Scope(job[w].req) : entry'[q] = i
  PROVE  Works(w)
<1>1. PICK pc : pc = IF job[w].req.body = <<>> THEN "answer" ELSE "write"
  OBVIOUS
<1>2. PICK fd \in {NoFd, i} : fd = IF job[w].req.body = <<>> THEN NoFd ELSE i
  OBVIOUS
<1>3. PICK j : j = [job[w] EXCEPT !.pc = pc, !.status = s, !.fd = fd]
  OBVIOUS
<1>4. job' = [job EXCEPT ![w] = j]
  BY <1>1, <1>2, <1>3, JobIs DEF Opened
<1>5. /\ DOMAIN j = Fields /\ j.req = job[w].req /\ j.pc = pc /\ j.status = s /\ j.fd = fd /\ j.src = job[w].src
      /\ j.done = job[w].done /\ j.got = job[w].got /\ j.size = job[w].size /\ j.to = job[w].to
      /\ j.todo = job[w].todo /\ j.dirs = job[w].dirs
  BY <1>3, JobIs DEF Fields
<1>6. JobOK(job[w])
  BY JobIs
<1>7. JobOK(j)
  BY <1>1, <1>2, <1>5, <1>6 DEF JobOK
<1>8. j.fd \in {NoFd, job[w].fd} \/ \E q \in Scope(job[w].req) : entry'[q] = j.fd
  BY <1>2, <1>5
<1> QED BY <1>4, <1>5, <1>7, <1>8, Edited

-------------------------------------------------------------------------------
\* PUT

LEMMA OverlayTyped ==
  ASSUME NEW s \in Seq(Nat), NEW o \in Nat, NEW us \in Seq(Nat)
  PROVE  Overlay(s, o, us) \in Seq(Nat)
<1> DEFINE n == IF us = <<>> \/ Len(s) >= o + Len(us) THEN Len(s) ELSE o + Len(us)
           at(i) == IF i > o /\ i <= o + Len(us) THEN us[i - o] ELSE IF i <= Len(s) THEN s[i] ELSE 0
<1>1. n \in Nat
  BY LenProperties
<1>2. \A i \in 1..n : at(i) \in Nat
  <2> SUFFICES ASSUME NEW i \in 1..n PROVE at(i) \in Nat
    OBVIOUS
  <2>1. CASE i > o /\ i <= o + Len(us)
    BY <2>1, LenProperties, ElementOfSeq
  <2>2. CASE ~(i > o /\ i <= o + Len(us)) /\ i <= Len(s)
    BY <2>2, LenProperties, ElementOfSeq
  <2> QED BY <2>1, <2>2
<1>3. Overlay(s, o, us) = [i \in 1..n |-> at(i)]
  BY DEF Overlay
<1> HIDE DEF n, at
<1> QED BY <1>1, <1>2, <1>3

LEMMA OpenForPutWorks ==
  ASSUME NodeInv, NEW w \in Procs, OpenForPut(w)
  PROVE  Foot(w) /\ Works(w)
<1> DEFINE r == job[w].req
<1>1. Busy(w)
  BY DEF OpenForPut, At, Busy
<1>2. r.path \in Scope(r) /\ r.path \in Paths
  BY <1>1, JobIs
<1>3. CASE IsFile(r.path) /\ Opened(w, entry[r.path], 200) /\ Becomes(entry, Truncated(r))
  <2>1. entry[r.path] \in Inodes
    BY <1>3 DEF IsFile
  <2>2. PICK d : d = Truncated(r)
    OBVIOUS
  <2>3. d \in [Inodes -> Seq(Nat)] /\ \A i \in Inodes : d[i] = data[i] \/ entry[r.path] = i
    BY <2>1, <2>2, TreeIs, EmptySeq DEF Truncated
  <2>4. Foot(w) /\ entry' = entry
    BY <1>1, <1>2, <1>3, <2>2, <2>3, FootOfData
  <2>5. Works(w)
    BY <1>1, <1>2, <1>3, <2>1, <2>4, OpenedIs
  <2> QED BY <2>4, <2>5
<1>4. CASE (IF Ranged(r) THEN Finish(w, 403) ELSE Opened(w, NoFd, 201)) /\ Unchanged
  BY <1>1, <1>4, FinishIs, OpenedIs, FootOfNothing
<1>5. CASE Goto(w, "create") /\ Unchanged
  BY <1>1, <1>5, GotoIs, FootOfNothing
<1> QED BY <1>3, <1>4, <1>5 DEF OpenForPut

LEMMA CreateForPutWorks ==
  ASSUME NodeInv, NEW w \in Procs, CreateForPut(w)
  PROVE  Foot(w) /\ Works(w)
<1> DEFINE r == job[w].req
<1>1. Busy(w)
  BY DEF CreateForPut, At, Busy
<1>2. r.path \in Scope(r) /\ r.path \in Paths
  BY <1>1, JobIs
<1>3. CASE /\ Opened(w, NewInode, IF Ranged(r) THEN 200 ELSE 201)
           /\ Becomes([entry EXCEPT ![r.path] = NewInode], [data EXCEPT ![NewInode] = <<>>])
  <2>1. PICK i : i = NewInode
    OBVIOUS
  <2>2. Free(i) /\ i \in Inodes
    BY <2>1, NewInodeIsFree DEF Free
  <2>3. Foot(w) /\ entry' = [entry EXCEPT ![r.path] = i]
    BY <1>1, <1>2, <1>3, <2>1, <2>2, EmptySeq, FootOfFile
  <2>4. entry'[r.path] = i
    BY <1>2, <2>3, TreeIs DEF Trees0
  <2>5. PICK s \in Nat : s = IF Ranged(r) THEN 200 ELSE 201
    OBVIOUS
  <2>6. Works(w)
    BY <1>1, <1>2, <1>3, <2>1, <2>2, <2>4, <2>5, OpenedIs
  <2> QED BY <2>3, <2>6
<1>4. CASE Finish(w, IF Ranged(r) THEN 404 ELSE 403) /\ Unchanged
  <2>1. PICK s \in Nat : s = IF Ranged(r) THEN 404 ELSE 403
    OBVIOUS
  <2> QED BY <1>1, <1>4, <2>1, FinishIs, FootOfNothing
<1> QED BY <1>3, <1>4 DEF CreateForPut

\* Progress with a file, and no other.
LEMMA DoneIs ==
  ASSUME NodeInv, NEW w \in Procs, Busy(w), NEW n \in Nat, job' = [job EXCEPT ![w].done = @ + n]
  PROVE  Works(w)
<1>1. PICK j : j = [job[w] EXCEPT !.done = @ + n]
  OBVIOUS
<1>2. job' = [job EXCEPT ![w] = j]
  BY <1>1, JobIs
<1>3. /\ DOMAIN j = Fields /\ j.req = job[w].req /\ j.pc = job[w].pc /\ j.status = job[w].status /\ j.fd = job[w].fd
      /\ j.src = job[w].src /\ j.done = job[w].done + n /\ j.size = job[w].size /\ j.to = job[w].to
      /\ j.todo = job[w].todo /\ j.dirs = job[w].dirs
  BY <1>1, JobIs DEF Fields
<1>4. JobOK(job[w])
  BY JobIs
<1>5. JobOK(j)
  BY <1>3, <1>4 DEF JobOK
<1> QED BY <1>2, <1>3, <1>5, Edited

LEMMA WriteBodyWorks ==
  ASSUME NodeInv, NEW w \in Procs, NEW n \in 1..MaxBody, WriteBody(w, n)
  PROVE  Foot(w) /\ Works(w)
<1>1. Busy(w) /\ job[w].fd # NoFd
  BY DEF WriteBody, At, Busy
<1>2. JobOK(job[w]) /\ job[w].req \in Load
  BY <1>1, JobIs
<1>3. job[w].fd \in Inodes /\ job[w].done \in Nat /\ job[w].status \in Nat
  BY <1>1, <1>2 DEF JobOK
<1>4. job[w].req.body \in Seq(Nat) /\ Offset(job[w].req) \in Nat /\ Len(job[w].req.body) \in Nat
  BY <1>2, RequestIs, LenProperties
<1>5. n \in 1..(Len(job[w].req.body) - job[w].done)
  BY DEF WriteBody
<1>6. PICK us \in Seq(Nat) : us = SubSeq(job[w].req.body, job[w].done + 1, job[w].done + n)
  <2>1. /\ job[w].done + 1 \in Int /\ job[w].done + n \in Int
        /\ \A i \in (job[w].done + 1)..(job[w].done + n) : i \in 1..Len(job[w].req.body)
    BY SMTT(30), <1>3, <1>4, <1>5
  <2>2. \A i \in (job[w].done + 1)..(job[w].done + n) : job[w].req.body[i] \in Nat
    BY <1>4, <2>1, ElementOfSeq
  <2> QED BY <2>1, <2>2, SubSeqProperties
<1>7. PICK o \in Nat : o = Offset(job[w].req) + job[w].done
  BY <1>3, <1>4
<1>8. PICK t \in Seq(Nat) : t = Overlay(data[job[w].fd], o, us)
  BY <1>3, TreeIs, OverlayTyped
<1>9. PICK d : d = [data EXCEPT ![job[w].fd] = t]
  OBVIOUS
<1>10. d \in [Inodes -> Seq(Nat)] /\ \A i \in Inodes : d[i] = data[i] \/ i = job[w].fd
  BY <1>3, <1>9, TreeIs
<1>11. Becomes(entry, d)
  BY <1>6, <1>7, <1>8, <1>9 DEF WriteBody
<1>12. Foot(w)
  BY <1>1, <1>10, <1>11, FootOfData
<1>13. Works(w)
  <2>1. CASE Finish(w, job[w].status)
    BY <1>1, <1>3, <2>1, FinishIs
  <2>2. CASE job' = [job EXCEPT ![w].done = @ + n]
    <3>1. n \in Nat
      OBVIOUS
    <3> QED BY <1>1, <2>2, <3>1, DoneIs
  <2> QED BY <2>1, <2>2 DEF WriteBody
<1> QED BY <1>12, <1>13

LEMMA WriteFailsWorks ==
  ASSUME NodeInv, NEW w \in Procs, WriteFails(w)
  PROVE  Foot(w) /\ Works(w)
<1>1. Busy(w) /\ Unchanged /\ (Finish(w, 403) \/ Finish(w, 507))
  BY DEF WriteFails, At, Busy
<1> QED BY <1>1, FinishIs, FootOfNothing

-------------------------------------------------------------------------------
\* MKCOL and DELETE

LEMMA MakeCollectionWorks ==
  ASSUME NodeInv, NEW w \in Procs, MakeCollection(w)
  PROVE  Foot(w) /\ Works(w)
<1> DEFINE p == job[w].req.path
<1>1. Busy(w)
  BY DEF MakeCollection, At, Busy
<1>2. p \in Scope(job[w].req)
  BY <1>1, JobIs
<1>3. CASE Finish(w, 201) /\ Becomes([entry EXCEPT ![p] = Directory], data)
  BY ZenonT(60), <1>1, <1>2, <1>3, FinishIs, FootOfName
<1>4. CASE (Finish(w, 409) \/ Finish(w, 405)) /\ Unchanged
  BY <1>1, <1>4, FinishIs, FootOfNothing
<1> QED BY <1>3, <1>4 DEF MakeCollection

\* What a directory lists is below it.
LEMMA ChildrenAre ==
  ASSUME NEW p \in Paths
  PROVE  Children(p) \subseteq Below(p) /\ Children(p) \subseteq Listed(p) /\ Listed(p) \subseteq Below(p)
<1>1. Listed(p) \subseteq Below(p)
  BY PathsAre DEF Listed, Below
<1>2. Children(p) \subseteq Listed(p)
  BY DEF Children, Listed
<1> QED BY <1>1, <1>2

LEMMA ChildrenBelow ==
  ASSUME NEW p \in Paths, NEW c \in Below(p)
  PROVE  Children(c) \subseteq Below(p)
<1> SUFFICES ASSUME NEW b \in Children(c) PROVE b \in Below(p)
  OBVIOUS
<1>1. c \in Paths /\ c # p /\ IsPrefix(p, c) /\ b \in Paths /\ Len(b) = Len(c) + 1 /\ IsPrefix(c, b)
  BY DEF Below, Children
<1>2. IsPrefix(p, b)
  BY <1>1, PrefixTrans
<1>3. Len(p) <= Len(c)
  BY <1>1, PathsAre, PrefixIs
<1>4. b # p
  BY <1>1, <1>3, PathsAre
<1> QED BY <1>1, <1>2, <1>4 DEF Below

\* The list of what is still to do changes.
LEMMA ListsAre ==
  ASSUME NodeInv, NEW w \in Procs, Busy(w), NEW j, job' = [job EXCEPT ![w] = j], DOMAIN j = Fields,
         j.req = job[w].req, j.pc \notin {"copydata", "send"}, j.status = job[w].status, j.fd = job[w].fd,
         j.src = job[w].src, j.done = job[w].done, j.size = job[w].size, j.to = job[w].to,
         j.todo \subseteq Below(job[w].req.path), j.dirs \subseteq Below(job[w].req.path),
         j.pc = "copydir" => j.todo \subseteq Listed(job[w].req.path)
  PROVE  Works(w) /\ job'[w] = j
<1>1. JobOK(job[w])
  BY JobIs
<1>2. JobOK(j)
  BY <1>1 DEF JobOK
<1> QED BY <1>2, Edited

LEMMA StatForDeleteWorks ==
  ASSUME NodeInv, NEW w \in Procs, StatForDelete(w)
  PROVE  Foot(w) /\ Works(w)
<1> DEFINE p == job[w].req.path
<1>1. Busy(w) /\ Unchanged
  BY DEF StatForDelete, At, Busy
<1>2. Foot(w)
  BY <1>1, FootOfNothing
<1>3. CASE Finish(w, IF InFile(p) THEN 403 ELSE 404)
  <2>1. PICK s \in Nat : s = IF InFile(p) THEN 403 ELSE 404
    OBVIOUS
  <2> QED BY <1>1, <1>2, <1>3, <2>1, FinishIs
<1>4. CASE job' = [job EXCEPT ![w].pc = "empty", ![w].todo = Children(p)]
  <2>1. PICK j : j = [job[w] EXCEPT !.pc = "empty", !.todo = Children(p)]
    OBVIOUS
  <2>2. job' = [job EXCEPT ![w] = j]
    BY <1>1, <1>4, <2>1, JobIs
  <2>3. /\ DOMAIN j = Fields /\ j.req = job[w].req /\ j.pc = "empty" /\ j.status = job[w].status /\ j.fd = job[w].fd
        /\ j.src = job[w].src /\ j.done = job[w].done /\ j.size = job[w].size /\ j.to = job[w].to
        /\ j.todo = Children(p) /\ j.dirs = job[w].dirs
    BY <1>1, <2>1, JobIs DEF Fields
  <2>4. JobOK(job[w]) /\ Children(p) \subseteq Below(p)
    BY <1>1, JobIs, ChildrenAre
  <2> QED BY <1>1, <1>2, <2>2, <2>3, <2>4, ListsAre DEF JobOK
<1>5. CASE Goto(w, "unlink")
  BY <1>1, <1>2, <1>5, GotoIs
<1> QED BY <1>3, <1>4, <1>5 DEF StatForDelete

LEMMA UnlinkWorks ==
  ASSUME NodeInv, NEW w \in Procs, Unlink(w)
  PROVE  Foot(w) /\ Works(w)
<1> DEFINE p == job[w].req.path
<1>1. Busy(w) /\ p \in Scope(job[w].req)
  BY JobIs DEF Unlink, At, Busy
<1>2. CASE Finish(w, 204) /\ Becomes(Without(p), data)
  BY ZenonT(60), <1>1, <1>2, FinishIs, FootOfName DEF Without
<1>3. CASE (Finish(w, 404) \/ Finish(w, 501)) /\ Unchanged
  BY <1>1, <1>3, FinishIs, FootOfNothing
<1> QED BY <1>2, <1>3 DEF Unlink

LEMMA DeleteChildWorks ==
  ASSUME NodeInv, NEW w \in Procs, NEW c \in Paths, DeleteChild(w, c)
  PROVE  Foot(w) /\ Works(w) /\ job'[w].pc = "empty"
<1> DEFINE p == job[w].req.path
<1>1. Busy(w) /\ c \in job[w].todo /\ job[w].pc = "empty"
  BY DEF DeleteChild, At, Busy
<1>2. JobOK(job[w]) /\ p \in Paths /\ Below(p) \subseteq Scope(job[w].req)
  BY <1>1, JobIs
<1>3. c \in Below(p) /\ c \in Scope(job[w].req)
  BY <1>1, <1>2 DEF JobOK
<1>4. PICK td \in SUBSET Below(p), ds \in SUBSET Below(p), bad \in {FALSE, job[w].bad} :
        /\ job' = [job EXCEPT ![w].todo = td, ![w].dirs = ds, ![w].bad = bad]
        /\ Unchanged \/ Becomes(Without(c), data)
  <2>1. CASE job' = [job EXCEPT ![w].todo = @ \ {c}, ![w].bad = FALSE] /\ Becomes(Without(c), data)
    <3>1. job' = [job EXCEPT ![w].todo = job[w].todo \ {c}, ![w].dirs = job[w].dirs, ![w].bad = FALSE]
      BY <1>1, <2>1, JobIs DEF Fields
    <3>2. job[w].todo \ {c} \in SUBSET Below(p) /\ job[w].dirs \in SUBSET Below(p)
      BY <1>2 DEF JobOK
    <3> QED BY Zenon, <2>1, <3>1, <3>2
  <2>2. CASE job' = [job EXCEPT ![w].todo = (@ \ {c}) \cup Children(c), ![w].dirs = @ \cup {c}] /\ Unchanged
    <3>1. job' = [job EXCEPT ![w].todo = (job[w].todo \ {c}) \cup Children(c), ![w].dirs = job[w].dirs \cup {c},
                             ![w].bad = job[w].bad]
      BY <1>1, <2>2, JobIs DEF Fields
    <3>2. Children(c) \subseteq Below(p)
      BY <1>2, <1>3, ChildrenBelow
    <3>3. (job[w].todo \ {c}) \cup Children(c) \in SUBSET Below(p) /\ job[w].dirs \cup {c} \in SUBSET Below(p)
      BY <1>2, <1>3, <3>2 DEF JobOK
    <3> QED BY Zenon, <2>2, <3>1, <3>3
  <2>3. CASE job' = [job EXCEPT ![w].todo = @ \ {c}] /\ Unchanged
    <3>1. job' = [job EXCEPT ![w].todo = job[w].todo \ {c}, ![w].dirs = job[w].dirs, ![w].bad = job[w].bad]
      BY <1>1, <2>3, JobIs DEF Fields
    <3>2. job[w].todo \ {c} \in SUBSET Below(p) /\ job[w].dirs \in SUBSET Below(p)
      BY <1>2 DEF JobOK
    <3> QED BY Zenon, <2>3, <3>1, <3>2
  <2> QED BY Zenon, <2>1, <2>2, <2>3 DEF DeleteChild
<1>5. PICK j : j = [job[w] EXCEPT !.todo = td, !.dirs = ds, !.bad = bad]
  OBVIOUS
<1>6. job' = [job EXCEPT ![w] = j]
  BY <1>1, <1>4, <1>5, JobIs
<1>7. /\ DOMAIN j = Fields /\ j.req = job[w].req /\ j.pc = "empty" /\ j.status = job[w].status /\ j.fd = job[w].fd
      /\ j.src = job[w].src /\ j.done = job[w].done /\ j.size = job[w].size /\ j.to = job[w].to
      /\ j.todo = td /\ j.dirs = ds
  BY <1>1, <1>5, JobIs DEF Fields
<1>8. Works(w) /\ job'[w] = j
  BY <1>1, <1>4, <1>6, <1>7, ListsAre
<1>9. Foot(w)
  BY <1>1, <1>3, <1>4, FootOfName, FootOfNothing DEF Without
<1> QED BY <1>7, <1>8, <1>9

LEMMA RemoveInnerWorks ==
  ASSUME NodeInv, NEW w \in Procs, NEW c \in Paths, RemoveInner(w, c)
  PROVE  Foot(w) /\ Works(w) /\ job'[w].pc = "empty"
<1> DEFINE p == job[w].req.path
<1>1. Busy(w) /\ c \in job[w].dirs /\ job[w].pc = "empty"
  BY DEF RemoveInner, At, Busy
<1>2. JobOK(job[w]) /\ p \in Paths /\ Below(p) \subseteq Scope(job[w].req)
  BY <1>1, JobIs
<1>3. c \in Scope(job[w].req)
  BY <1>1, <1>2 DEF JobOK
<1>4. PICK bad : job' = [job EXCEPT ![w].dirs = job[w].dirs \ {c}, ![w].bad = bad] /\ (Unchanged \/ Becomes(Without(c), data))
  <2>1. CASE job' = [job EXCEPT ![w].dirs = @ \ {c}] /\ Becomes(Without(c), data)
    <3>1. job' = [job EXCEPT ![w].dirs = job[w].dirs \ {c}, ![w].bad = job[w].bad]
      BY <1>1, <2>1, JobIs DEF Fields
    <3> QED BY <2>1, <3>1
  <2>2. CASE job' = [job EXCEPT ![w].dirs = @ \ {c}, ![w].bad = TRUE] /\ Unchanged
    BY <2>2
  <2> QED BY <2>1, <2>2 DEF RemoveInner
<1>5. PICK j : j = [job[w] EXCEPT !.dirs = job[w].dirs \ {c}, !.bad = bad]
  OBVIOUS
<1>6. job' = [job EXCEPT ![w] = j]
  BY <1>1, <1>4, <1>5, JobIs
<1>7. /\ DOMAIN j = Fields /\ j.req = job[w].req /\ j.pc = "empty" /\ j.status = job[w].status /\ j.fd = job[w].fd
      /\ j.src = job[w].src /\ j.done = job[w].done /\ j.size = job[w].size /\ j.to = job[w].to
      /\ j.todo = job[w].todo /\ j.dirs = job[w].dirs \ {c}
  BY <1>1, <1>5, JobIs DEF Fields
<1>8. j.todo \subseteq Below(p) /\ j.dirs \subseteq Below(p)
  BY <1>2, <1>7 DEF JobOK
<1>9. Works(w) /\ job'[w] = j
  BY <1>1, <1>6, <1>7, <1>8, ListsAre
<1>10. Foot(w)
  BY <1>1, <1>3, <1>4, FootOfName, FootOfNothing DEF Without
<1> QED BY <1>7, <1>9, <1>10

LEMMA RemoveOuterWorks ==
  ASSUME NodeInv, NEW w \in Procs, RemoveOuter(w)
  PROVE  Foot(w) /\ Works(w) /\ job'[w].pc = "answer" /\ (job[w].req.method = "MOVE" => job'[w].status = 201)
<1> DEFINE p == job[w].req.path
<1>1. Busy(w) /\ p \in Scope(job[w].req)
  BY JobIs DEF RemoveOuter, At, Busy
<1>2. PICK s \in Nat : Finish(w, s) /\ (job[w].req.method = "MOVE" => s = 201)
  BY DEF RemoveOuter
<1>3. Unchanged \/ Becomes(Without(p), data)
  BY DEF RemoveOuter
<1>4. Foot(w)
  BY <1>1, <1>3, FootOfName, FootOfNothing DEF Without
<1> QED BY <1>1, <1>2, <1>4, FinishIs

-------------------------------------------------------------------------------
\* COPY and MOVE

LEMMA IsDirIs ==
  ASSUME NEW p \in Paths
  PROVE  IsDir(p) <=> entry[p] = Directory
<1>1. PICK n : n = Len(p)
  OBVIOUS
<1>2. n \in Nat /\ n > 1
  BY <1>1, PathsAre
<1>3. n # 1
  BY <1>2
<1> QED BY <1>1, <1>3 DEF IsDir

\* A worker at a COPY or MOVE, and where it may write.
LEMMA CopyingIs ==
  ASSUME NodeInv, NEW w \in Procs, NEW pc, NEW methods \in SUBSET {"COPY", "MOVE"}, At(w, pc, methods)
  PROVE  /\ Busy(w) /\ job[w].pc = pc /\ job[w].req.method \in {"COPY", "MOVE"} /\ JobOK(job[w]) /\ job[w].req \in Load
         /\ DOMAIN job[w] = Fields /\ DOMAIN job = Procs
         /\ job[w].req.path \in Paths /\ job[w].req.path \in Scope(job[w].req)
         /\ job[w].req.to \in Paths /\ job[w].req.to \in Scope(job[w].req)
         /\ job[w].to \in Scope(job[w].req) /\ Scope(job[w].req) \subseteq Paths
<1>1. Busy(w) /\ job[w].pc = pc /\ job[w].req.method \in {"COPY", "MOVE"}
  BY DEF At, Busy
<1>2. JobOK(job[w]) /\ job[w].req \in Load
  BY <1>1, JobIs
<1>3. job[w].to \in Scope(job[w].req)
  BY <1>1, <1>2 DEF JobOK
<1> QED BY <1>1, <1>2, <1>3, JobIs, RequestIs

LEMMA StatSourceWorks ==
  ASSUME NodeInv, NEW w \in Procs, StatSource(w)
  PROVE  /\ Foot(w) /\ Works(w) /\ Unchanged
         /\ \/ job'[w].pc = "answer"
            \/ job'[w].pc = "destdir" /\ entry[job[w].req.path] = Directory
            \/ job'[w].pc = "dest" /\ IsFile(job[w].req.path)
<1> DEFINE p == job[w].req.path
<1>1. Busy(w) /\ p \in Paths
  BY CopyingIs DEF StatSource
<1>2. Unchanged /\ Foot(w)
  BY <1>1, FootOfNothing DEF StatSource
<1>3. CASE Finish(w, IF InFile(p) THEN 403 ELSE 404)
  <2>1. PICK s \in Nat : s = IF InFile(p) THEN 403 ELSE 404
    OBVIOUS
  <2> QED BY <1>1, <1>2, <1>3, <2>1, FinishIs
<1>4. CASE IsDir(p) /\ Goto(w, "destdir")
  BY <1>1, <1>2, <1>4, GotoIs, IsDirIs
<1>5. CASE entry[p] # Absent /\ ~IsDir(p) /\ Goto(w, "dest")
  <2>1. IsFile(p)
    BY <1>1, <1>5, IsDirIs, TreeIs DEF IsFile
  <2> QED BY <1>1, <1>2, <1>5, <2>1, GotoIs
<1> QED BY <1>3, <1>4, <1>5 DEF StatSource

LEMMA TargetIs ==
  ASSUME NEW w \in Procs, job[w].req \in Load, job[w].req.method \in {"COPY", "MOVE"}
  PROVE  Target(w) \in Scope(job[w].req)
BY CopyNames, RequestIs DEF Target

LEMMA StatDestinationWorks ==
  ASSUME NodeInv, NEW w \in Procs, StatDestination(w)
  PROVE  /\ Foot(w) /\ Works(w) /\ Unchanged
         /\ \/ job'[w].pc = "answer"
            \/ job'[w].pc \in {"rename", "copy"} /\ job'[w].to = Target(w) /\ job'[w].status < 400
<1> DEFINE r == job[w].req
<1>1. At(w, "dest", {"COPY", "MOVE"})
  BY DEF StatDestination
<1>2. Busy(w) /\ r \in Load /\ r.method \in {"COPY", "MOVE"} /\ JobOK(job[w])
  BY <1>1, CopyingIs
<1>3. Unchanged /\ Foot(w)
  BY <1>2, FootOfNothing DEF StatDestination
<1>4. CASE Finish(w, 409) \/ Finish(w, 412)
  BY <1>2, <1>3, <1>4, FinishIs
<1>5. CASE job' = [job EXCEPT ![w].pc = IF r.method = "MOVE" THEN "rename" ELSE "copy",
                              ![w].to = Target(w),
                              ![w].status = IF entry[Target(w)] = Absent THEN 201 ELSE 204]
  <2>1. PICK s \in {201, 204} : s = IF entry[Target(w)] = Absent THEN 201 ELSE 204
    OBVIOUS
  <2>2. PICK pc \in {"rename", "copy"} : pc = IF r.method = "MOVE" THEN "rename" ELSE "copy"
    OBVIOUS
  <2>3. PICK t : t = Target(w)
    OBVIOUS
  <2>4. PICK j : j = [job[w] EXCEPT !.pc = pc, !.to = t, !.status = s]
    OBVIOUS
  <2>5. job' = [job EXCEPT ![w] = j]
    BY ZenonT(60), <1>2, <1>5, <2>1, <2>2, <2>3, <2>4, JobIs
  <2>6. /\ DOMAIN j = Fields /\ j.req = r /\ j.pc = pc /\ j.status = s /\ j.fd = job[w].fd
        /\ j.src = job[w].src /\ j.done = job[w].done /\ j.size = job[w].size /\ j.to = t
        /\ j.todo = job[w].todo /\ j.dirs = job[w].dirs
    BY <1>2, <2>4, JobIs DEF Fields
  <2>7. t \in Scope(r)
    BY <1>2, <2>3, TargetIs
  <2>8. JobOK(j)
    BY <1>2, <2>1, <2>2, <2>6, <2>7 DEF JobOK
  <2>9. Works(w) /\ job'[w] = j
    <3>1. Busy(w) /\ j.req = job[w].req /\ j.fd \in {NoFd, job[w].fd}
      BY <1>2, <2>6
    <3> QED BY ZenonT(60), <2>5, <2>8, <3>1, Edited
  <2> QED BY <1>3, <2>1, <2>2, <2>3, <2>6, <2>9
<1> QED BY <1>4, <1>5 DEF StatDestination

LEMMA RenameWorks ==
  ASSUME NodeInv, NEW w \in Procs, Rename(w)
  PROVE  /\ Foot(w) /\ Works(w)
         /\ \/ job'[w].pc = "answer" /\ job'[w].status = job[w].status
            \/ job'[w].pc = "copy" /\ job'[w].to = job[w].to /\ job'[w].status = job[w].status /\ Unchanged
<1> DEFINE p == job[w].req.path
           t == job[w].to
<1>1. At(w, "rename", {"MOVE"})
  BY DEF Rename
<1>2. Busy(w) /\ p \in Scope(job[w].req) /\ t \in Scope(job[w].req) /\ JobOK(job[w])
  BY <1>1, CopyingIs
<1>3. CASE Goto(w, "copy") /\ Unchanged
  BY <1>2, <1>3, GotoIs, FootOfNothing DEF Same
<1>4. CASE /\ Finish(w, job[w].status) /\ IsFile(p)
           /\ Becomes(IF p = t THEN entry ELSE [Without(p) EXCEPT ![t] = entry[p]], data)
  <2>1. Works(w) /\ job'[w].pc = "answer" /\ job'[w].status = job[w].status
    BY <1>2, <1>4, FinishIs DEF JobOK
  <2>2. CASE p = t
    BY <1>2, <1>4, <2>1, <2>2, TreeIs, FootOfData
  <2>3. CASE p # t
    BY <1>2, <1>4, <2>1, <2>3, FootOfRename DEF IsFile
  <2> QED BY <2>2, <2>3
<1> QED BY <1>3, <1>4 DEF Rename

LEMMA RefusalIs ==
  ASSUME NEW p \in Paths, NEW t \in Paths, NEW o
  PROVE  /\ Refusal(p, t, o) \in {0, 403, 409, 412}
         /\ Refusal(p, t, o) = 0 => IsFile(p) /\ entry[t] # Directory
BY IsDirIs DEF Refusal

\* The file a copy goes to.
LEMMA CopyTo ==
  ASSUME NodeInv, NEW t \in Paths, NEW i, i = IF IsFile(t) THEN entry[t] ELSE NewInode
  PROVE  i \in Inodes /\ (Free(i) \/ entry[t] = i)
BY NewInodeIsFree DEF Free, IsFile

LEMMA OpenForCopyWorks ==
  ASSUME NodeInv, NEW w \in Procs, OpenForCopy(w)
  PROVE  /\ Foot(w) /\ Works(w)
         /\ \/ job'[w].pc = "answer" /\ Unchanged
            \/ /\ job'[w].pc = "copydata" /\ job'[w].to = job[w].to /\ job'[w].status = job[w].status
               /\ job'[w].fd \in Inodes /\ entry'[job[w].to] = job'[w].fd
               /\ \A q \in Paths : q # job[w].to => Stays(q)
<1> DEFINE r == job[w].req
           t == job[w].to
<1>1. At(w, "copy", {"COPY", "MOVE"})
  BY DEF OpenForCopy
<1>2. Busy(w) /\ r.path \in Paths /\ t \in Scope(r) /\ t \in Paths /\ JobOK(job[w])
  BY <1>1, CopyingIs
<1>3. PICK no \in {0, 403, 409, 412} : no = Refusal(r.path, t, r.overwrite) /\ (no = 0 => IsFile(r.path))
  BY <1>2, RefusalIs
<1>4. CASE no # 0
  <2>1. Finish(w, no) /\ Unchanged
    BY <1>3, <1>4 DEF OpenForCopy
  <2> QED BY <1>2, <1>4, <2>1, FinishIs, FootOfNothing
<1>5. CASE no = 0
  <2>1. PICK i : i = IF IsFile(t) THEN entry[t] ELSE NewInode
    OBVIOUS
  <2>2. i \in Inodes /\ (Free(i) \/ entry[t] = i)
    BY <1>2, <2>1, CopyTo
  <2>3. PICK src \in Inodes : src = entry[r.path]
    BY <1>3, <1>5 DEF IsFile
  <2>4. PICK n \in Nat : n = Len(data[src])
    BY <2>3, TreeIs, LenProperties
  <2>5. job' = [job EXCEPT ![w].pc = "copydata", ![w].src = src, ![w].fd = i, ![w].size = n]
    BY <1>3, <1>5, <2>1, <2>3, <2>4 DEF OpenForCopy
  <2>6. Foot(w) /\ entry' = [entry EXCEPT ![t] = i] /\ \A q \in Paths : q # t => Stays(q)
    <3>1. PICK s \in Contents : s = <<>>
      BY EmptySeq DEF Contents
    <3>2. Filed(t, i, s)
      BY <1>3, <1>5, <2>1, <3>1 DEF OpenForCopy, Filed
    <3>3. Busy(w) /\ t \in Scope(job[w].req)
      BY <1>2
    <3> QED BY SMTT(30), <2>2, <3>2, <3>3, FootOfFiled
  <2>7. entry'[t] = i
    BY <1>2, <2>6, TreeIs DEF Trees0
  <2>8. PICK j : j = [job[w] EXCEPT !.pc = "copydata", !.src = src, !.fd = i, !.size = n]
    OBVIOUS
  <2>9. job' = [job EXCEPT ![w] = j]
    <3>1. DOMAIN job = Procs /\ DOMAIN job[w] = Fields
      BY <1>2, JobIs
    <3> QED BY <2>5, <2>8, <3>1 DEF Fields
  <2>10. /\ DOMAIN j = Fields /\ j.req = r /\ j.pc = "copydata" /\ j.status = job[w].status /\ j.fd = i
         /\ j.src = src /\ j.done = job[w].done /\ j.size = n /\ j.to = t
         /\ j.todo = job[w].todo /\ j.dirs = job[w].dirs
    BY <1>2, <2>8, JobIs DEF Fields
  <2>11. i # NoFd /\ src # NoFd
    BY <2>2, NodeNumbers
  <2>12. JobOK(j)
    BY <1>2, <2>2, <2>10, <2>11 DEF JobOK
  <2>13. Works(w) /\ job'[w] = j
    <3>1. PICK q \in Scope(job[w].req) : entry'[q] = j.fd
      BY <1>2, <2>7, <2>10
    <3>2. Busy(w) /\ j.req = job[w].req /\ Knows(w, j)
      BY <1>2, <2>9, <2>10 DEF Knows
    <3> QED BY <2>12, <3>1, <3>2, EditedFd
  <2> QED BY <2>2, <2>6, <2>7, <2>10, <2>13
<1> QED BY <1>4, <1>5

LEMMA WriteCopyWorks ==
  ASSUME NodeInv, NEW w \in Procs, NEW n, WriteCopy(w, n)
  PROVE  Foot(w) /\ Works(w) /\ job'[w].pc \in {"answer", "unlinksource"} /\ job'[w].status = job[w].status
<1>1. At(w, "copydata", {"COPY", "MOVE"})
  BY DEF WriteCopy
<1>2. Busy(w) /\ JobOK(job[w]) /\ job[w].pc = "copydata"
  BY <1>1, CopyingIs
<1>3. job[w].fd \in Inodes /\ job[w].src \in Inodes /\ job[w].size \in Int /\ job[w].status \in Nat
  BY <1>2 DEF JobOK
<1>4. data[job[w].src] \in Seq(Nat) /\ data[job[w].fd] \in Seq(Nat) /\ Len(data[job[w].src]) \in Nat
  BY <1>3, TreeIs, LenProperties
<1>5. n \in Nat /\ n <= Len(data[job[w].src])
  <2>1. Readable(job[w]) = IF job[w].size <= Len(data[job[w].src]) THEN job[w].size ELSE Len(data[job[w].src])
    BY SMTT(30), <1>3, <1>4, LeastIs DEF Readable
  <2>2. n \in 1..Readable(job[w])
    BY DEF WriteCopy
  <2> QED BY <1>3, <1>4, <2>1, <2>2
<1>6. PICK us \in Seq(Nat) : us = SubSeq(data[job[w].src], 1, n)
  <2>1. \A i \in 1..n : data[job[w].src][i] \in Nat
    BY SMTT(30), <1>4, <1>5, ElementOfSeq
  <2>2. 1 \in Int /\ n \in Int
    BY <1>5
  <2> QED BY <2>1, <2>2, SubSeqProperties
<1>7. PICK s \in Seq(Nat) : s = Overlay(data[job[w].fd], 0, us)
  <2>1. 0 \in Nat
    OBVIOUS
  <2> QED BY <1>4, <1>6, <2>1, OverlayTyped
<1>8. PICK d : d = [data EXCEPT ![job[w].fd] = s]
  OBVIOUS
<1>9. d \in [Inodes -> Seq(Nat)] /\ \A i \in Inodes : d[i] = data[i] \/ i = job[w].fd
  BY <1>3, <1>8, TreeIs
<1>10. Becomes(entry, d)
  BY <1>6, <1>7, <1>8 DEF WriteCopy
<1>11. Foot(w)
  BY <1>2, <1>9, <1>10, FootOfData
<1>12. CASE Finish(w, job[w].status)
  BY <1>2, <1>3, <1>11, <1>12, FinishIs
<1>13. CASE job' = [job EXCEPT ![w].pc = "unlinksource", ![w].fd = NoFd, ![w].src = NoFd]
  <2>1. PICK j : j = [job[w] EXCEPT !.pc = "unlinksource", !.fd = NoFd, !.src = NoFd]
    OBVIOUS
  <2>2. job' = [job EXCEPT ![w] = j]
    BY <1>2, <1>13, <2>1, JobIs
  <2>3. /\ DOMAIN j = Fields /\ j.req = job[w].req /\ j.pc = "unlinksource" /\ j.status = job[w].status /\ j.fd = NoFd
        /\ j.src = NoFd /\ j.done = job[w].done /\ j.size = job[w].size /\ j.to = job[w].to
        /\ j.todo = job[w].todo /\ j.dirs = job[w].dirs
    BY <1>2, <2>1, JobIs DEF Fields
  <2>4. JobOK(j)
    BY <1>2, <2>3 DEF JobOK
  <2>5. Works(w) /\ job'[w] = j
    BY <1>2, <2>2, <2>3, <2>4, Edited
  <2> QED BY <1>11, <2>3, <2>5
<1> QED BY <1>12, <1>13 DEF WriteCopy

LEMMA CopyFailsWorks ==
  ASSUME NodeInv, NEW w \in Procs, CopyFails(w)
  PROVE  Foot(w) /\ Works(w) /\ Unchanged /\ job'[w].pc = "answer"
<1>1. At(w, "copydata", {"COPY", "MOVE"}) /\ Unchanged
  BY DEF CopyFails
<1>2. PICK s \in Nat : Finish(w, s)
  BY DEF CopyFails, GiveUpCopy
<1>3. Busy(w)
  BY <1>1, CopyingIs
<1> QED BY <1>1, <1>2, <1>3, FinishIs, FootOfNothing

LEMMA UnlinkSourceWorks ==
  ASSUME NodeInv, NEW w \in Procs, UnlinkSource(w)
  PROVE  Foot(w) /\ Works(w) /\ job'[w].pc = "answer" /\ job'[w].status = job[w].status
<1> DEFINE p == job[w].req.path
<1>1. At(w, "unlinksource", {"MOVE"}) /\ Finish(w, job[w].status) /\ (Unchanged \/ Becomes(Without(p), data))
  BY DEF UnlinkSource
<1>2. Busy(w) /\ JobOK(job[w]) /\ p \in Scope(job[w].req)
  BY <1>1, CopyingIs
<1>3. Foot(w)
  BY <1>1, <1>2, FootOfName, FootOfNothing DEF Without
<1> QED BY <1>1, <1>2, <1>3, FinishIs DEF JobOK

LEMMA MakeDestinationWorks ==
  ASSUME NodeInv, NEW w \in Procs, MakeDestination(w)
  PROVE  /\ Foot(w) /\ Works(w)
         /\ \/ job'[w].pc = "answer" /\ Unchanged
            \/ job'[w].pc = "copydir" /\ \A q \in Paths : q # job[w].req.to => Stays(q)
<1> DEFINE r == job[w].req
<1>1. At(w, "destdir", {"COPY", "MOVE"})
  BY DEF MakeDestination
<1>2. Busy(w) /\ JobOK(job[w]) /\ r.to \in Scope(r) /\ r.path \in Paths
  BY <1>1, CopyingIs
<1>3. CASE (Finish(w, 409) \/ Finish(w, 403)) /\ Unchanged
  BY <1>2, <1>3, FinishIs, FootOfNothing
<1>4. CASE /\ job' = [job EXCEPT ![w].pc = "copydir", ![w].todo = Children(r.path)]
           /\ Unchanged \/ Becomes([entry EXCEPT ![r.to] = Directory], data)
  <2>1. PICK j : j = [job[w] EXCEPT !.pc = "copydir", !.todo = Children(r.path)]
    OBVIOUS
  <2>2. job' = [job EXCEPT ![w] = j]
    BY <1>2, <1>4, <2>1, JobIs
  <2>3. /\ DOMAIN j = Fields /\ j.req = job[w].req /\ j.pc = "copydir" /\ j.status = job[w].status /\ j.fd = job[w].fd
        /\ j.src = job[w].src /\ j.done = job[w].done /\ j.size = job[w].size /\ j.to = job[w].to
        /\ j.todo = Children(r.path) /\ j.dirs = job[w].dirs
    BY <1>2, <2>1, JobIs DEF Fields
  <2>4. Works(w) /\ job'[w] = j
    <3>1. j.todo \subseteq Below(r.path) /\ j.dirs \subseteq Below(r.path) /\ j.todo \subseteq Listed(r.path)
      BY <1>2, <2>3, ChildrenAre DEF JobOK
    <3> QED BY <1>2, <2>2, <2>3, <3>1, ListsAre
  <2>5. Foot(w) /\ \A q \in Paths : q # r.to => Stays(q)
    BY <1>2, <1>4, FootOfName, FootOfNothing
  <2> QED BY <2>3, <2>4, <2>5
<1> QED BY <1>3, <1>4 DEF MakeDestination

\* What remains of a directory's list when one name of it is done.
LEMMA NextOfList ==
  ASSUME NodeInv, NEW w \in Procs, Busy(w), NEW c, job[w].pc = "copydir",
         job' = [job EXCEPT ![w].todo = @ \ {c}]
  PROVE  Works(w) /\ job'[w].pc = "copydir"
<1>1. JobOK(job[w]) /\ DOMAIN job = Procs
  BY JobIs
<1>2. PICK j : j = [job[w] EXCEPT !.todo = @ \ {c}]
  OBVIOUS
<1>3. job' = [job EXCEPT ![w] = j]
  BY <1>1, <1>2, JobIs
<1>4. /\ DOMAIN j = Fields /\ j.req = job[w].req /\ j.pc = "copydir" /\ j.status = job[w].status /\ j.fd = job[w].fd
      /\ j.src = job[w].src /\ j.done = job[w].done /\ j.size = job[w].size /\ j.to = job[w].to
      /\ j.todo = job[w].todo \ {c} /\ j.dirs = job[w].dirs
  BY <1>2, JobIs DEF Fields
<1> QED BY <1>1, <1>3, <1>4, ListsAre DEF JobOK

LEMMA CopyChildWorks ==
  ASSUME NodeInv, NEW w \in Procs, NEW c \in Paths, CopyChild(w, c)
  PROVE  /\ Foot(w) /\ Works(w) /\ job'[w].pc \in {"copydir", "answer"} /\ c \in Listed(job[w].req.path)
         /\ \A q \in Paths : q # Append(job[w].req.to, Last(c)) => Stays(q)
         /\ entry[Append(job[w].req.to, Last(c))] = Directory => Unchanged
<1> DEFINE r == job[w].req
<1>1. At(w, "copydir", {"COPY", "MOVE"}) /\ c \in job[w].todo
  BY DEF CopyChild
<1>2. Busy(w) /\ JobOK(job[w]) /\ r \in Load /\ r.method \in {"COPY", "MOVE"} /\ job[w].pc = "copydir" /\ Scope(r) \subseteq Paths
  BY <1>1, CopyingIs
<1>3. c \in Listed(r.path)
  BY <1>1, <1>2 DEF JobOK
<1>4. PICK t \in Scope(r) : t = Append(r.to, Last(c))
  BY <1>2, <1>3, CopyNames
<1>5. t \in Paths
  BY <1>2
<1>6. PICK no \in {0, 403, 409, 412} : no = Refusal(c, t, r.overwrite) /\ (no = 0 => IsFile(c) /\ entry[t] # Directory)
  BY <1>5, RefusalIs
<1>7. PICK i : i = IF IsFile(t) THEN entry[t] ELSE NewInode
  OBVIOUS
<1>8. i \in Inodes /\ (Free(i) \/ entry[t] = i)
  BY <1>5, <1>7, CopyTo
<1> DEFINE goes == job' = [job EXCEPT ![w].todo = @ \ {c}]
<1>9. CASE goes /\ Unchanged
  BY ZenonT(60), <1>2, <1>3, <1>4, <1>9, NextOfList, FootOfNothing
<1>10. CASE goes /\ entry[t] = Absent /\ Becomes([entry EXCEPT ![t] = Directory], data)
  <2>1. entry[t] # Directory
    BY <1>10, NodeNumbers
  <2>2. Foot(w) /\ \A q \in Paths : q # t => Stays(q)
    <3>1. Named(t, Directory)
      BY <1>10 DEF Named
    <3>2. Busy(w) /\ t \in Scope(job[w].req)
      BY <1>2
    <3> QED BY <3>1, <3>2, FootOfNamed
  <2>3. Works(w) /\ job'[w].pc = "copydir"
    BY Zenon, <1>2, <1>10, NextOfList
  <2> QED BY <1>3, <1>4, <2>1, <2>2, <2>3
<1>11. CASE no # 0 /\ Finish(w, no) /\ Unchanged
  BY <1>2, <1>3, <1>4, <1>11, FinishIs, FootOfNothing
<1>12. CASE no = 0 /\ t = c /\ Finish(w, 403) /\ Becomes(entry, [data EXCEPT ![i] = <<>>])
  <2>1. entry[t] = i
    BY <1>6, <1>7, <1>12
  <2>2. entry = [entry EXCEPT ![t] = i]
    BY <2>1, TreeIs DEF Trees0
  <2>3. Foot(w) /\ \A q \in Paths : q # t => Stays(q)
    <3>1. PICK s \in Contents : s = <<>>
      BY EmptySeq DEF Contents
    <3>2. Filed(t, i, s)
      BY <1>12, <2>2, <3>1 DEF Filed
    <3>3. Busy(w) /\ t \in Scope(job[w].req)
      BY <1>2
    <3> QED BY <1>8, <3>2, <3>3, FootOfFiled
  <2> QED BY <1>2, <1>3, <1>4, <1>6, <1>12, <2>3, FinishIs
<1>13. CASE /\ no = 0 /\ goes
            /\ Becomes([entry EXCEPT ![t] = i], [data EXCEPT ![i] = data[entry[c]]])
  <2>1. PICK s \in Contents : s = data[entry[c]]
    BY <1>6, <1>13, TreeIs DEF IsFile, Contents
  <2>2. Foot(w) /\ \A q \in Paths : q # t => Stays(q)
    <3>1. Filed(t, i, s)
      BY SMTT(30), <1>13, <2>1 DEF Filed
    <3>2. Busy(w) /\ t \in Scope(job[w].req)
      BY <1>2
    <3> QED BY <1>8, <3>1, <3>2, FootOfFiled
  <2> QED BY <1>2, <1>3, <1>4, <1>6, <1>13, <2>2, NextOfList
<1> HIDE DEF goes
<1>14. \/ goes /\ Unchanged
       \/ goes /\ entry[t] = Absent /\ Becomes([entry EXCEPT ![t] = Directory], data)
       \/ no # 0 /\ Finish(w, no) /\ Unchanged
       \/ no = 0 /\ t = c /\ Finish(w, 403) /\ Becomes(entry, [data EXCEPT ![i] = <<>>])
       \/ /\ no = 0 /\ goes
          /\ Becomes([entry EXCEPT ![t] = i], [data EXCEPT ![i] = data[entry[c]]])
  BY <1>4, <1>6, <1>7 DEF CopyChild, goes
<1> QED BY <1>9, <1>10, <1>11, <1>12, <1>13, <1>14

LEMMA CopiedDirWorks ==
  ASSUME NodeInv, NEW w \in Procs, CopiedDir(w)
  PROVE  /\ Foot(w) /\ Works(w) /\ Unchanged
         /\ \/ job'[w].pc = "answer" /\ job'[w].status = 201
            \/ job'[w].pc = "empty"
<1> DEFINE p == job[w].req.path
<1>1. At(w, "copydir", {"COPY", "MOVE"}) /\ Unchanged
  BY DEF CopiedDir
<1>2. Busy(w) /\ JobOK(job[w]) /\ p \in Paths
  BY <1>1, CopyingIs
<1>3. Foot(w)
  BY <1>1, <1>2, FootOfNothing
<1>4. CASE Finish(w, 201)
  BY <1>1, <1>2, <1>3, <1>4, FinishIs
<1>5. CASE job' = [job EXCEPT ![w].pc = "empty", ![w].todo = Children(p)]
  <2>1. PICK j : j = [job[w] EXCEPT !.pc = "empty", !.todo = Children(p)]
    OBVIOUS
  <2>2. job' = [job EXCEPT ![w] = j]
    BY <1>2, <1>5, <2>1, JobIs
  <2>3. /\ DOMAIN j = Fields /\ j.req = job[w].req /\ j.pc = "empty" /\ j.status = job[w].status /\ j.fd = job[w].fd
        /\ j.src = job[w].src /\ j.done = job[w].done /\ j.size = job[w].size /\ j.to = job[w].to
        /\ j.todo = Children(p) /\ j.dirs = job[w].dirs
    BY <1>2, <2>1, JobIs DEF Fields
  <2>4. Works(w) /\ job'[w] = j
    <3>1. j.todo \subseteq Below(p) /\ j.dirs \subseteq Below(p)
      BY <1>2, <2>3, ChildrenAre DEF JobOK
    <3> QED BY <1>2, <2>2, <2>3, <3>1, ListsAre
  <2> QED BY <1>1, <1>3, <2>3, <2>4
<1> QED BY <1>4, <1>5 DEF CopiedDir

-------------------------------------------------------------------------------
\* GET and HEAD

LEMMA StatIs ==
  ASSUME NodeInv, NEW p \in Paths, entry[p] # Absent
  PROVE  /\ Stat(p) \in Int
         /\ \/ entry[p] = Directory /\ Stat(p) = IsADir
            \/ IsFile(p) /\ entry[p] # Directory /\ Stat(p) = Len(data[entry[p]]) /\ Stat(p) \in Nat
<1>1. CASE entry[p] = Directory
  <2>1. IsDir(p)
    BY <1>1, IsDirIs
  <2>2. Stat(p) = IsADir /\ IsADir \in Int
    BY <2>1, NodeNumbers DEF Stat
  <2> QED BY <1>1, <2>2
<1>2. CASE entry[p] # Directory
  <2>1. IsFile(p) /\ ~IsDir(p)
    BY <1>2, TreeIs, IsDirIs DEF IsFile
  <2>2. data[entry[p]] \in Seq(Nat)
    BY <2>1, TreeIs DEF IsFile
  <2>3. Stat(p) = Len(data[entry[p]])
    BY <2>1 DEF Stat
  <2> QED BY <1>2, <2>1, <2>2, <2>3, LenProperties
<1> QED BY <1>1, <1>2

LEMMA CacheIs ==
  ASSUME CacheOK, NEW w \in Procs, NEW p \in Paths
  PROVE  /\ Hash[p] \in CacheKeys /\ cache[w][Hash[p]] \in CacheEntries /\ cache[w][Hash[p]].size \in Int
         /\ DOMAIN cache = Procs /\ DOMAIN cache[w] = CacheKeys
<1>1. Hash[p] \in CacheKeys /\ cache \in [Procs -> [CacheKeys -> CacheEntries]]
  BY DEF CacheOK, CacheKeys
<1>2. cache[w] \in [CacheKeys -> CacheEntries]
  BY <1>1
<1>3. cache[w][Hash[p]] \in CacheEntries
  BY <1>1, <1>2
<1> QED BY <1>1, <1>2, <1>3 DEF CacheEntries

\* What the cache or the disk says of the name of a request.
Found(w) == LET p == job[w].req.path IN IF Hit(w, p) THEN cache[w][Hash[p]].size ELSE Stat(p)

LEMMA StatCachedWorks ==
  ASSUME NodeInv, CacheOK, NEW w \in Procs, StatCached(w)
  PROVE  LET r == job[w].req
             j == job'[w]
         IN  /\ Foot(w) /\ Works(w) /\ Unchanged /\ job[w].pc = "cache" /\ ReadOnly(r)
             /\ \/ /\ ~Hit(w, r.path) /\ entry[r.path] = Absent
                   /\ j.pc = "answer" /\ j.status = 404 /\ UNCHANGED cache
                \/ /\ Hit(w, r.path) \/ entry[r.path] # Absent
                   /\ j.pc = IF r.method = "GET" /\ Found(w) > 0 THEN "sendopen" ELSE "answer"
                   /\ j.status = IF Found(w) = IsADir THEN 301 ELSE 200
                   /\ j.size = Found(w) /\ j.done = job[w].done /\ j.got = job[w].got
                   /\ IF Hit(w, r.path) THEN UNCHANGED cache
                      ELSE cache' = [cache EXCEPT ![w][Hash[r.path]] = Entered(w, r.path)]
<1> DEFINE r == job[w].req
<1>1. Busy(w) /\ job[w].pc = "cache" /\ ReadOnly(r) /\ Unchanged
  BY DEF StatCached, At, Busy, ReadOnly
<1>2. Foot(w) /\ JobOK(job[w]) /\ r.path \in Paths
  BY <1>1, FootOfNothing, JobIs
<1>3. CASE ~Hit(w, r.path) /\ entry[r.path] = Absent
  <2>1. Finish(w, 404) /\ UNCHANGED cache
    BY <1>3 DEF StatCached
  <2> QED BY <1>1, <1>2, <1>3, <2>1, FinishIs
<1>4. CASE Hit(w, r.path) \/ entry[r.path] # Absent
  <2>1. PICK size : size = Found(w)
    OBVIOUS
  <2>2. size \in Int
    BY <1>2, <1>4, <2>1, CacheIs, StatIs DEF Found
  <2>3. PICK pc \in {"sendopen", "answer"} : pc = IF r.method = "GET" /\ size > 0 THEN "sendopen" ELSE "answer"
    OBVIOUS
  <2>4. PICK s \in {200, 301} : s = IF size = IsADir THEN 301 ELSE 200
    OBVIOUS
  <2>5. job' = [job EXCEPT ![w].pc = pc, ![w].status = s, ![w].size = size]
    <3>1. job' = [job EXCEPT ![w].pc = IF r.method = "GET" /\ Found(w) > 0 THEN "sendopen" ELSE "answer",
                             ![w].status = IF Found(w) = IsADir THEN 301 ELSE 200,
                             ![w].size = Found(w)]
      BY Zenon, <1>4 DEF StatCached, Found
    <3> QED BY SMTT(30), <2>1, <2>3, <2>4, <3>1
  <2>6. PICK j : j = [job[w] EXCEPT !.pc = pc, !.status = s, !.size = size]
    OBVIOUS
  <2>7. job' = [job EXCEPT ![w] = j]
    <3>1. DOMAIN job = Procs /\ DOMAIN job[w] = Fields
      BY <1>1, JobIs
    <3> QED BY <2>5, <2>6, <3>1 DEF Fields
  <2>8. /\ DOMAIN j = Fields /\ j.req = r /\ j.pc = pc /\ j.status = s /\ j.fd = job[w].fd
        /\ j.src = job[w].src /\ j.done = job[w].done /\ j.got = job[w].got /\ j.size = size /\ j.to = job[w].to
        /\ j.todo = job[w].todo /\ j.dirs = job[w].dirs
    BY <1>1, <2>6, JobIs DEF Fields
  <2>9. JobOK(j)
    BY <1>2, <2>2, <2>3, <2>4, <2>8 DEF JobOK
  <2>10. Works(w) /\ job'[w] = j
    BY ZenonT(60), <1>1, <2>7, <2>8, <2>9, Edited
  <2>11. IF Hit(w, r.path) THEN UNCHANGED cache ELSE cache' = [cache EXCEPT ![w][Hash[r.path]] = Entered(w, r.path)]
    BY Zenon, <1>4 DEF StatCached
  <2> QED BY <1>1, <1>2, <1>4, <2>1, <2>3, <2>4, <2>8, <2>10, <2>11
<1> QED BY SMTT(30), <1>3, <1>4

LEMMA OpenToSendWorks ==
  ASSUME NodeInv, NEW w \in Procs, OpenToSend(w)
  PROVE  LET j == job'[w]
             p == job[w].req.path
         IN  /\ Foot(w) /\ Works(w) /\ Unchanged /\ job[w].pc = "sendopen" /\ ReadOnly(job[w].req)
             /\ \/ ~IsFile(p) /\ j.pc = "answer"
                \/ /\ IsFile(p) /\ j.pc = "send" /\ j.fd = entry[p] /\ j.status = job[w].status
                   /\ j.size = job[w].size /\ j.done = job[w].done /\ j.got = job[w].got
<1> DEFINE p == job[w].req.path
<1>1. Busy(w) /\ job[w].pc = "sendopen" /\ ReadOnly(job[w].req) /\ Unchanged
  BY DEF OpenToSend, At, Busy, ReadOnly
<1>2. Foot(w) /\ JobOK(job[w]) /\ p \in Paths /\ p \in Scope(job[w].req)
  BY <1>1, FootOfNothing, JobIs
<1>3. CASE ~IsFile(p)
  <2>1. Finish(w, 0)
    BY <1>3 DEF OpenToSend, Cut
  <2> QED BY <1>1, <1>2, <1>3, <2>1, FinishIs
<1>4. CASE IsFile(p)
  <2>1. PICK i \in Inodes : i = entry[p]
    BY <1>4 DEF IsFile
  <2>2. job' = [job EXCEPT ![w].pc = "send", ![w].fd = i]
    BY <1>4, <2>1 DEF OpenToSend
  <2>3. PICK j : j = [job[w] EXCEPT !.pc = "send", !.fd = i]
    OBVIOUS
  <2>4. job' = [job EXCEPT ![w] = j]
    BY <1>1, <2>2, <2>3, JobIs
  <2>5. /\ DOMAIN j = Fields /\ j.req = job[w].req /\ j.pc = "send" /\ j.status = job[w].status /\ j.fd = i
        /\ j.src = job[w].src /\ j.done = job[w].done /\ j.got = job[w].got /\ j.size = job[w].size
        /\ j.to = job[w].to /\ j.todo = job[w].todo /\ j.dirs = job[w].dirs
    BY <1>1, <2>3, JobIs DEF Fields
  <2>6. JobOK(j)
    BY <1>2, <2>5, NodeNumbers DEF JobOK
  <2>7. entry'[p] = j.fd
    BY <1>1, <2>1, <2>5 DEF Unchanged
  <2>8. Works(w) /\ job'[w] = j
    BY ZenonT(60), <1>1, <1>2, <2>4, <2>5, <2>6, <2>7, Edited
  <2> QED BY <1>1, <1>2, <1>4, <2>1, <2>5, <2>8
<1> QED BY <1>3, <1>4

LEMMA SendBodyWorks ==
  ASSUME NodeInv, NEW w \in Procs, NEW n, SendBody(w, n)
  PROVE  LET j == job'[w]
             k == job[w]
         IN  /\ Foot(w) /\ Works(w) /\ Unchanged /\ k.pc = "send" /\ ReadOnly(k.req)
             /\ k.fd \in Inodes /\ k.size \in Int /\ k.done \in Nat /\ j.pc \in {"answer", "send"}
             /\ \/ k.size <= k.done \/ Len(data[k.fd]) <= k.done
                \/ /\ n \in Nat /\ n > 0 /\ k.done + n <= k.size /\ k.done + n <= Len(data[k.fd])
                   /\ j.got = k.got \o SubSeq(data[k.fd], k.done + 1, k.done + n) /\ j.done = k.done + n
                   /\ j.size = k.size /\ j.status = k.status
                   /\ \/ k.done + n = k.size /\ j.pc = "answer"
                      \/ k.done + n # k.size /\ j.pc = "send" /\ j.fd = k.fd
<1>1. Busy(w) /\ job[w].pc = "send" /\ ReadOnly(job[w].req) /\ Unchanged
  BY DEF SendBody, At, Busy, ReadOnly
<1>2. Foot(w) /\ JobOK(job[w])
  BY <1>1, FootOfNothing, JobIs
<1>3. job[w].fd \in Inodes /\ job[w].size \in Int /\ job[w].done \in Nat
  BY <1>1, <1>2 DEF JobOK
<1>4. PICK len \in Nat : len = Len(data[job[w].fd])
  BY <1>3, TreeIs, LenProperties
<1>5. PICK m \in Int : m = Min({job[w].size, len}) /\ m = IF job[w].size <= len THEN job[w].size ELSE len
  BY <1>3, LeastIs
<1>6. CASE m - job[w].done <= 0 /\ Cut(w)
  <2>1. Finish(w, 0)
    BY <1>6 DEF Cut
  <2>2. job[w].size <= job[w].done \/ len <= job[w].done
    BY SMTT(30), <1>3, <1>5, <1>6
  <2>3. Works(w) /\ job'[w].pc = "answer"
    BY <1>1, <2>1, FinishIs
  <2> QED BY <1>1, <1>2, <1>3, <1>4, <2>2, <2>3
<1>7. CASE /\ n \in 1..(m - job[w].done)
           /\ job' = [job EXCEPT ![w].got = @ \o SubSeq(data[job[w].fd], job[w].done + 1, job[w].done + n),
                                 ![w].done = @ + n,
                                 ![w].pc = IF job[w].done + n = job[w].size THEN "answer" ELSE @,
                                 ![w].fd = IF job[w].done + n = job[w].size THEN NoFd ELSE @]
  <2>1. n \in Nat /\ n > 0 /\ job[w].done + n <= job[w].size /\ job[w].done + n <= len
    <3>1. n \in 1..(m - job[w].done)
      BY <1>7
    <3>2. PICK k \in Nat : k = job[w].done
      BY <1>3
    <3>3. n \in Nat /\ n > 0 /\ k + n <= m
      BY <3>1, <3>2
    <3>4. m <= job[w].size /\ m <= len
      BY <1>3, <1>5
    <3> QED BY <1>3, <3>2, <3>3, <3>4
  <2>2. PICK got : got = job[w].got \o SubSeq(data[job[w].fd], job[w].done + 1, job[w].done + n)
    OBVIOUS
  <2>3. PICK done \in Nat : done = job[w].done + n
    BY <1>3, <2>1
  <2>4. PICK pc \in {"answer", "send"} : pc = IF done = job[w].size THEN "answer" ELSE job[w].pc
    BY <1>1
  <2>5. PICK fd \in {NoFd, job[w].fd} : fd = IF done = job[w].size THEN NoFd ELSE job[w].fd
    OBVIOUS
  <2>6. job' = [job EXCEPT ![w].got = got, ![w].done = done, ![w].pc = pc, ![w].fd = fd]
    BY <1>7, <2>2, <2>3, <2>4, <2>5
  <2>7. PICK j : j = [job[w] EXCEPT !.got = got, !.done = done, !.pc = pc, !.fd = fd]
    OBVIOUS
  <2>8. job' = [job EXCEPT ![w] = j]
    BY <1>1, <2>6, <2>7, JobIs
  <2>9. /\ DOMAIN j = Fields /\ j.req = job[w].req /\ j.pc = pc /\ j.status = job[w].status /\ j.fd = fd
        /\ j.src = job[w].src /\ j.done = done /\ j.got = got /\ j.size = job[w].size
        /\ j.to = job[w].to /\ j.todo = job[w].todo /\ j.dirs = job[w].dirs
    BY <1>1, <2>7, JobIs DEF Fields
  <2>10. JobOK(j)
    BY <1>2, <1>3, <2>4, <2>5, <2>9, NodeNumbers DEF JobOK
  <2>11. Works(w) /\ job'[w] = j
    BY <1>1, <2>5, <2>8, <2>9, <2>10, Edited
  <2> QED BY <1>1, <1>2, <1>3, <1>4, <2>1, <2>2, <2>3, <2>4, <2>5, <2>9, <2>11
<1> QED BY Zenon, <1>4, <1>5, <1>6, <1>7 DEF SendBody

-------------------------------------------------------------------------------
\* What is remembered of a step

LEMMA SeenIs ==
  ASSUME SeenOK, Remember, NEW w \in Procs, Busy(w), Busy(w)'
  PROVE  /\ DOMAIN seen'[w] = {"before", "outdated", "alone"} /\ seen'[w].before = seen[w].before
         /\ seen'[w].alone => seen[w].alone /\ \A v \in Procs : Starts(v) => ~Conflict(job'[v].req, job[w].req)
         /\ ~seen'[w].outdated => ~seen[w].outdated /\ ~(job[w].pc = "cache" /\ job[w].req.path \in stale[w])
<1> DEFINE apart == \A v \in Procs : Starts(v) => ~Conflict(job'[v].req, job[w].req)
           used == job[w].pc = "cache" /\ job[w].req.path \in stale[w]
<1>1. ~Starts(w)
  BY DEF Starts, Busy
<1>2. seen'[w] = [seen[w] EXCEPT !.alone = @ /\ apart, !.outdated = @ \/ used]
  BY Zenon, <1>1 DEF Remember, Busy
<1>3. DOMAIN seen[w] = {"before", "outdated", "alone"}
  BY DEF SeenOK
<1> HIDE DEF apart, used
<1>4. /\ DOMAIN seen'[w] = {"before", "outdated", "alone"} /\ seen'[w].before = seen[w].before
      /\ seen'[w].alone = (seen[w].alone /\ apart) /\ seen'[w].outdated = (seen[w].outdated \/ used)
  BY <1>2, <1>3
<1>5. seen'[w].alone => seen[w].alone /\ apart
  BY <1>4
<1>6. ~seen'[w].outdated => ~seen[w].outdated /\ ~used
  BY <1>4
<1> QED BY <1>4, <1>5, <1>6 DEF apart, used

LEMMA SeenNew ==
  ASSUME Remember, NEW w \in Procs, ~Busy(w), Busy(w)'
  PROVE  /\ DOMAIN seen'[w] = {"before", "outdated", "alone"} /\ seen'[w].before = View /\ ~seen'[w].outdated
         /\ seen'[w].alone => \A v \in Procs : ~Rival(v, job'[w].req)
<1> DEFINE apart == \A v \in Procs : ~Rival(v, job'[w].req)
<1>1. Starts(w)
  BY DEF Starts, Busy
<1>2. seen'[w] = [before |-> View, outdated |-> FALSE, alone |-> apart]
  BY Zenon, <1>1 DEF Remember, Busy
<1> HIDE DEF apart
<1>3. DOMAIN seen'[w] = {"before", "outdated", "alone"} /\ seen'[w].before = View /\ ~seen'[w].outdated /\ seen'[w].alone = apart
  BY <1>2
<1> QED BY <1>3 DEF apart

LEMMA SeenStays ==
  ASSUME SeenOK, Remember
  PROVE  SeenOK'
<1>1. DOMAIN seen' = Procs
  BY Zenon DEF Remember
<1>2. ASSUME NEW w \in Procs, Busy(w)' PROVE DOMAIN seen'[w] = {"before", "outdated", "alone"}
  BY <1>2, SeenIs, SeenNew
<1> QED BY <1>1, <1>2 DEF SeenOK

-------------------------------------------------------------------------------
\* Steps that leave the tree and the requests as they are: answers, deaths and clocks

Rests == /\ \A w \in Procs : Busy(w)' => Busy(w) /\ job'[w] = job[w]
         /\ \A q \in Paths : Stays(q)

LEMMA IdleIs ==
  ASSUME NodeInv, NEW w \in Procs, job' = [job EXCEPT ![w] = Idle]
  PROVE  JobsOK' /\ ~Busy(w)' /\ \A v \in Procs : v # w => job'[v] = job[v]
<1>1. DOMAIN job = Procs /\ \A v \in Procs : Busy(v) => JobOK(job[v])
  BY DEF NodeInv, JobsOK
<1>2. DOMAIN job' = Procs /\ job'[w] = Idle /\ \A v \in Procs : v # w => job'[v] = job[v]
  BY <1>1
<1>3. ~Busy(w)'
  BY <1>2 DEF Busy
<1>4. ASSUME NEW v \in Procs, Busy(v)' PROVE JobOK(job'[v])
  BY <1>1, <1>2, <1>3, <1>4 DEF Busy
<1> QED BY <1>2, <1>3, <1>4 DEF JobsOK, JobOK

LEMMA AnswerRests ==
  ASSUME NodeInv, NEW w \in Procs, Answer(w)
  PROVE  Rests /\ NodeInv' /\ UNCHANGED cache
<1>1. job' = [job EXCEPT ![w] = Idle] /\ Becomes(entry, data) /\ UNCHANGED cache
  BY DEF Answer
<1>2. JobsOK' /\ ~Busy(w)' /\ \A v \in Procs : v # w => job'[v] = job[v]
  BY <1>1, IdleIs
<1>3. entry' = entry /\ TreeOK' /\ \A q \in Paths : entry[q] \in Inodes => data'[entry[q]] = data[entry[q]]
  BY <1>1, TreeIs, BecomesIs
<1> QED BY <1>1, <1>2, <1>3 DEF Rests, Stays, NodeInv, Busy

LEMMA DiesRests ==
  ASSUME NodeInv, NEW w \in Procs, Dies(w)
  PROVE  Rests /\ NodeInv' /\ Unchanged
<1>1. job' = [job EXCEPT ![w] = Idle] /\ Unchanged
  BY DEF Dies
<1>2. JobsOK' /\ ~Busy(w)' /\ \A v \in Procs : v # w => job'[v] = job[v]
  BY <1>1, IdleIs
<1> QED BY <1>1, <1>2 DEF Rests, Stays, NodeInv, Busy, TreeOK, Unchanged

LEMMA ClockRests ==
  ASSUME NodeInv, NEW w \in Procs, Clock(w)
  PROVE  Rests /\ NodeInv' /\ Unchanged /\ job' = job
<1>1. Unchanged /\ job' = job
  BY DEF Clock, Second, Cleanup, Unchanged
<1> QED BY <1>1 DEF Rests, Stays, NodeInv, Busy, TreeOK, Unchanged, JobsOK, JobOK

-------------------------------------------------------------------------------
\* A request comes

LEMMA TakeIs ==
  ASSUME NodeInv, NEW w \in Procs, NEW r \in Load, Take(w, r)
  PROVE  /\ NodeInv' /\ Unchanged /\ (\A q \in Paths : Stays(q)) /\ UNCHANGED cache
         /\ ~Busy(w) /\ Busy(w)' /\ (\A v \in Procs : v # w => job'[v] = job[v])
         /\ job'[w].req = r /\ job'[w].pc = FirstCall(r) /\ job'[w].fd = NoFd
         /\ job'[w].done = 0 /\ job'[w].got = <<>>
<1>1. PICK j : j = [req |-> r, pc |-> FirstCall(r), status |-> 0, fd |-> NoFd, src |-> NoFd, done |-> 0,
                    got |-> <<>>, size |-> 0, to |-> r.to, todo |-> {}, dirs |-> {}, bad |-> FALSE]
  OBVIOUS
<1>2. ~Busy(w) /\ job' = [job EXCEPT ![w] = j] /\ Unchanged /\ UNCHANGED cache
  BY <1>1 DEF Take, Busy
<1>3. /\ DOMAIN j = Fields /\ j.req = r /\ j.pc = FirstCall(r) /\ j.status = 0 /\ j.fd = NoFd /\ j.src = NoFd /\ j.done = 0
      /\ j.got = <<>> /\ j.size = 0 /\ j.to = r.to /\ j.todo = {} /\ j.dirs = {}
  BY <1>1 DEF Fields
<1>4. FirstCall(r) \in {"open", "mkdir", "cache", "stat"}
  BY DEF FirstCall
<1>5. JobOK(j)
  BY <1>3, <1>4, RequestIs DEF JobOK
<1>6. DOMAIN job = Procs /\ \A v \in Procs : Busy(v) => JobOK(job[v])
  BY DEF NodeInv, JobsOK
<1>7. DOMAIN job' = Procs /\ job'[w] = j /\ \A v \in Procs : v # w => job'[v] = job[v]
  BY <1>2, <1>6
<1>8. Busy(w)'
  BY <1>5, <1>7, NotIdle DEF Busy
<1>9. ASSUME NEW v \in Procs, Busy(v)' PROVE JobOK(job'[v])
  BY <1>5, <1>6, <1>7, <1>9 DEF Busy
<1>10. JobsOK'
  BY <1>7, <1>9 DEF JobsOK, JobOK
<1>11. TreeOK' /\ \A q \in Paths : Stays(q)
  BY <1>2 DEF NodeInv, TreeOK, Unchanged, Stays
<1> QED BY <1>2, <1>3, <1>7, <1>8, <1>10, <1>11 DEF NodeInv

-------------------------------------------------------------------------------
\* A worker's step

LEMMA Changes ==
  ASSUME NEW w \in Procs, NEW pc, NEW methods, At(w, pc, methods), methods \cap {"GET", "HEAD"} = {}
  PROVE  ~ReadOnly(job[w].req)
BY DEF At, ReadOnly

Reads(w) == StatCached(w) \/ OpenToSend(w) \/ \E n \in 0..MaxBody : SendBody(w, n)

LEMMA WorkerStepWorks ==
  ASSUME NodeInv, CacheOK, NEW w \in Procs, WorkerStep(w)
  PROVE  /\ Foot(w) /\ Works(w) /\ (ReadOnly(job[w].req) => Unchanged)
         /\ ReadOnly(job[w].req) => Reads(w)
<1>1. CASE OpenForPut(w)
  <2>1. At(w, "open", {"PUT"})
    BY <1>1 DEF OpenForPut
  <2> QED BY <1>1, <2>1, OpenForPutWorks, Changes
<1>2. CASE CreateForPut(w)
  <2>1. At(w, "create", {"PUT"})
    BY <1>2 DEF CreateForPut
  <2> QED BY <1>2, <2>1, CreateForPutWorks, Changes
<1>3. CASE \E n \in 1..MaxBody : WriteBody(w, n)
  <2>1. At(w, "write", {"PUT"})
    BY <1>3 DEF WriteBody
  <2> QED BY <1>3, <2>1, WriteBodyWorks, Changes
<1>4. CASE WriteFails(w)
  <2>1. At(w, "write", {"PUT"})
    BY <1>4 DEF WriteFails
  <2> QED BY <1>4, <2>1, WriteFailsWorks, Changes
<1>5. CASE MakeCollection(w)
  <2>1. At(w, "mkdir", {"MKCOL"})
    BY <1>5 DEF MakeCollection
  <2> QED BY <1>5, <2>1, MakeCollectionWorks, Changes
<1>6. CASE StatForDelete(w)
  <2>1. At(w, "stat", {"DELETE"})
    BY <1>6 DEF StatForDelete
  <2> QED BY <1>6, <2>1, StatForDeleteWorks, Changes
<1>7. CASE Unlink(w)
  <2>1. At(w, "unlink", {"DELETE"})
    BY <1>7 DEF Unlink
  <2> QED BY <1>7, <2>1, UnlinkWorks, Changes
<1>8. CASE \E c \in Paths : DeleteChild(w, c)
  <2>1. At(w, "empty", {"DELETE", "MOVE"})
    BY <1>8 DEF DeleteChild
  <2> QED BY <1>8, <2>1, DeleteChildWorks, Changes
<1>9. CASE \E c \in Paths : RemoveInner(w, c)
  <2>1. At(w, "empty", {"DELETE", "MOVE"})
    BY <1>9 DEF RemoveInner
  <2> QED BY <1>9, <2>1, RemoveInnerWorks, Changes
<1>10. CASE RemoveOuter(w)
  <2>1. At(w, "empty", {"DELETE", "MOVE"})
    BY <1>10 DEF RemoveOuter
  <2> QED BY <1>10, <2>1, RemoveOuterWorks, Changes
<1>11. CASE StatSource(w) \/ StatDestination(w) \/ CopiedDir(w)
  <2>1. At(w, "stat", {"COPY", "MOVE"}) \/ At(w, "dest", {"COPY", "MOVE"}) \/ At(w, "copydir", {"COPY", "MOVE"})
    BY <1>11 DEF StatSource, StatDestination, CopiedDir
  <2> QED BY <1>11, <2>1, StatSourceWorks, StatDestinationWorks, CopiedDirWorks, Changes
<1>12. CASE Rename(w)
  <2>1. At(w, "rename", {"MOVE"})
    BY <1>12 DEF Rename
  <2> QED BY <1>12, <2>1, RenameWorks, Changes
<1>13. CASE OpenForCopy(w)
  <2>1. At(w, "copy", {"COPY", "MOVE"})
    BY <1>13 DEF OpenForCopy
  <2> QED BY <1>13, <2>1, OpenForCopyWorks, Changes
<1>14. CASE (\E n \in 1..MaxBody : WriteCopy(w, n)) \/ CopyFails(w)
  <2>1. At(w, "copydata", {"COPY", "MOVE"})
    BY <1>14 DEF WriteCopy, CopyFails
  <2> QED BY <1>14, <2>1, WriteCopyWorks, CopyFailsWorks, Changes
<1>15. CASE UnlinkSource(w)
  <2>1. At(w, "unlinksource", {"MOVE"})
    BY <1>15 DEF UnlinkSource
  <2> QED BY <1>15, <2>1, UnlinkSourceWorks, Changes
<1>16. CASE MakeDestination(w)
  <2>1. At(w, "destdir", {"COPY", "MOVE"})
    BY <1>16 DEF MakeDestination
  <2> QED BY <1>16, <2>1, MakeDestinationWorks, Changes
<1>17. CASE \E c \in Paths : CopyChild(w, c)
  <2>1. At(w, "copydir", {"COPY", "MOVE"})
    BY <1>17 DEF CopyChild
  <2> QED BY SMTT(30), <1>17, <2>1, CopyChildWorks, Changes
<1>18. CASE StatCached(w)
  BY <1>18, StatCachedWorks DEF Reads
<1>19. CASE OpenToSend(w)
  BY <1>19, OpenToSendWorks DEF Reads
<1>20. CASE \E n \in 0..MaxBody : SendBody(w, n)
  BY <1>20, SendBodyWorks DEF Reads
<1> QED BY <1>1, <1>2, <1>3, <1>4, <1>5, <1>6, <1>7, <1>8, <1>9, <1>10, <1>11, <1>12, <1>13, <1>14, <1>15, <1>16,
           <1>17, <1>18, <1>19, <1>20 DEF WorkerStep

\* The steps of the node.
LEMMA NextKinds ==
  ASSUME TreeNext
  PROVE  /\ Remember
         /\ \/ \E w \in Procs : WorkerStep(w)
            \/ \E w \in Procs : Answer(w) \/ Clock(w) \/ Dies(w)
            \/ \E w \in Procs, r \in Load : Take(w, r)
BY DEF TreeNext, Request, Serve

-------------------------------------------------------------------------------
\* The stat cache's type

LEMMA CacheKinds ==
  ASSUME TreeNext
  PROVE  UNCHANGED cache \/ \E w \in Procs : StatCached(w) \/ Dies(w) \/ Clock(w)
<1>1. ASSUME NEW w \in Procs, WorkerStep(w), ~StatCached(w) PROVE UNCHANGED cache
  BY Zenon, <1>1 DEF WorkerStep, OpenForPut, CreateForPut, WriteBody, WriteFails, MakeCollection, StatForDelete, Unlink,
     DeleteChild, RemoveInner, RemoveOuter, StatSource, StatDestination, Rename, OpenForCopy, WriteCopy, CopyFails,
     UnlinkSource, MakeDestination, CopyChild, CopiedDir, OpenToSend, SendBody
<1>2. ASSUME NEW w \in Procs, NEW r \in Load, Take(w, r) PROVE UNCHANGED cache
  BY <1>2 DEF Take
<1>3. ASSUME NEW w \in Procs, Answer(w) PROVE UNCHANGED cache
  BY <1>3 DEF Answer
<1> QED BY SMTT(30), <1>1, <1>2, <1>3, NextKinds

LEMMA CacheStays ==
  ASSUME NodeInv, CacheOK, TreeNext
  PROVE  CacheOK'
<1>1. UNCHANGED cache => CacheOK'
  BY DEF CacheOK
<1>2. ASSUME NEW w \in Procs, StatCached(w) PROVE CacheOK'
  <2>1. CASE UNCHANGED cache
    BY <1>1, <2>1
  <2>2. CASE ~UNCHANGED cache
    <3> DEFINE p == job[w].req.path
               x == Entered(w, p)
    <3>1. /\ entry[p] # Absent /\ cache' = [cache EXCEPT ![w][Hash[p]] = Entered(w, p)] /\ p \in Paths
      BY <1>2, <2>2, StatCachedWorks, JobIs DEF Works
    <3>2. Hash[p] \in CacheKeys /\ cache[w][Hash[p]] \in CacheEntries
      BY <3>1, CacheIs
    <3>3. Stat(p) \in Int
      BY SMTT(30), <3>1, StatIs
    <3>4. x \in CacheEntries
      BY <3>1, <3>2, <3>3 DEF Entered, CacheEntries
    <3> HIDE DEF x, p
    <3>5. cache' = [cache EXCEPT ![w][Hash[p]] = x]
      BY <3>1 DEF x, p
    <3> QED BY <3>2, <3>4, <3>5 DEF CacheOK
  <2> QED BY <2>1, <2>2
<1>3. NotCached \in CacheEntries
  BY DEF NotCached, CacheEntries
<1>4. ASSUME NEW w \in Procs, NEW f \in [CacheKeys -> CacheEntries], cache' = [cache EXCEPT ![w] = f] PROVE CacheOK'
  BY <1>4 DEF CacheOK
<1>5. \A w \in Procs : cache[w] \in [CacheKeys -> CacheEntries] /\ DOMAIN cache[w] = CacheKeys /\ w \in DOMAIN cache
  BY DEF CacheOK
<1>6. ASSUME NEW w \in Procs, Dies(w) PROVE CacheOK'
  <2>1. cache' = [cache EXCEPT ![w] = [k \in CacheKeys |-> NotCached]]
    BY <1>5, <1>6 DEF Dies
  <2>2. [k \in CacheKeys |-> NotCached] \in [CacheKeys -> CacheEntries]
    BY <1>3
  <2> QED BY <1>4, <2>1, <2>2
<1>7. ASSUME NEW w \in Procs, Second(w) PROVE CacheOK'
  <2> DEFINE f == [k \in CacheKeys |-> [cache[w][k] EXCEPT !.fresh = FALSE]]
  <2>1. cache' = [cache EXCEPT ![w] = f]
    BY <1>5, <1>7 DEF Second
  <2>2. \A k \in CacheKeys : [cache[w][k] EXCEPT !.fresh = FALSE] \in CacheEntries
    BY <1>5 DEF CacheEntries
  <2>3. f \in [CacheKeys -> CacheEntries]
    BY <2>2
  <2> QED BY <1>4, <2>1, <2>3
<1>8. ASSUME NEW w \in Procs, NEW k \in CacheKeys, Cleanup(w, k) PROVE CacheOK'
  <2>1. cache' = [cache EXCEPT ![w] = [cache[w] EXCEPT ![k] = NotCached]]
    BY <1>5, <1>8 DEF Cleanup
  <2>2. [cache[w] EXCEPT ![k] = NotCached] \in [CacheKeys -> CacheEntries]
    BY <1>3, <1>5
  <2> QED BY <1>4, <2>1, <2>2
<1> QED BY <1>1, <1>2, <1>5, <1>6, <1>7, <1>8, CacheKinds DEF Clock

LEMMA NodeInvStays ==
  ASSUME NodeInv, CacheOK, TreeNext
  PROVE  NodeInv'
<1>1. ASSUME NEW w \in Procs, WorkerStep(w) PROVE NodeInv'
  BY <1>1, WorkerStepWorks DEF Foot, Works, NodeInv
<1> QED BY <1>1, NextKinds, AnswerRests, ClockRests, DiesRests, TakeIs

\* A step of the others' leaves the names of a watched request alone.
LEMMA Quiet ==
  ASSUME NodeInv, Separate, NEW w \in Procs, NEW v \in Procs, Watched(w), Busy(v), v # w, Foot(v),
         ReadOnly(job[v].req) => Unchanged
  PROVE  \A q \in Scope(job[w].req) : Stays(q)
<1>1. Busy(w) /\ Scope(job[w].req) \subseteq Paths
  BY JobIs DEF Watched
<1>2. CASE ReadOnly(job[v].req)
  BY <1>1, <1>2, FootOfNothing
<1>3. CASE ~ReadOnly(job[v].req)
  <2>1. /\ Scope(job[w].req) \cap Scope(job[v].req) = {}
        /\ \A q \in Scope(job[w].req) : entry[q] \in Inodes => entry[q] # job[v].fd
    BY <1>3 DEF Separate, Reading
  <2> SUFFICES ASSUME NEW q \in Scope(job[w].req) PROVE Stays(q)
    OBVIOUS
  <2>2. q \in Paths /\ q \notin Scope(job[v].req)
    BY <1>1, <2>1
  <2> QED BY <2>1, <2>2 DEF Foot, Stays
<1> QED BY <1>2, <1>3

-------------------------------------------------------------------------------
\* Requests that are watched stay separate from others

LEMMA SeparateStep ==
  ASSUME NodeInv, CacheOK, SeenOK, Separate, Remember, NEW u \in Procs, WorkerStep(u)
  PROVE  Separate'
<1>1. Foot(u) /\ Works(u) /\ (ReadOnly(job[u].req) => Unchanged)
  BY WorkerStepWorks
<1>2. \A v \in Procs : (Busy(v)' <=> Busy(v)) /\ job'[v].req = job[v].req /\ (v # u => job'[v] = job[v])
  BY <1>1 DEF Works, Busy
<1>3. \A v \in Procs : Watched(v)' => Watched(v)
  BY <1>2, SeenIs DEF Watched
<1> SUFFICES ASSUME NEW w \in Procs, NEW v \in Procs, Watched(w), Busy(v), v # w, ~Reading(w, v)
             PROVE  /\ Scope(job[w].req) \cap Scope(job[v].req) = {}
                    /\ ~ReadOnly(job[v].req) =>
                         \A q \in Scope(job[w].req) : entry'[q] \in Inodes => entry'[q] # job'[v].fd
  BY <1>2, <1>3 DEF Separate, Reading, ReadOnly, Scope, NamesOf
<1>4. Scope(job[w].req) \cap Scope(job[v].req) = {}
  BY DEF Separate
<1>5. Busy(w) /\ Scope(job[w].req) \subseteq Paths /\ Scope(job[v].req) \subseteq Paths
  BY JobIs DEF Watched
<1> SUFFICES ASSUME ~ReadOnly(job[v].req), NEW q \in Scope(job[w].req), entry'[q] \in Inodes
             PROVE  entry'[q] # job'[v].fd
  BY <1>4
<1>6. \A p \in Scope(job[w].req) : entry[p] \in Inodes => entry[p] # job[v].fd
  BY DEF Separate
<1>7. CASE u # w /\ u # v
  <2>1. Stays(q)
    BY <1>1, <1>7, Quiet DEF Works
  <2> QED BY <1>2, <1>6, <1>7, <2>1 DEF Stays
<1>8. CASE u = v
  <2>1. Stays(q)
    BY <1>1, <1>8, Quiet
  <2>2. job'[v].fd \in {NoFd, job[v].fd} \/ \E p \in Scope(job[v].req) : entry'[p] = job'[v].fd
    BY <1>1, <1>8 DEF Works
  <2>3. NoLinks(entry')
    BY <1>1 DEF Foot, TreeOK
  <2>4. NoFd \notin Inodes
    BY NodeNumbers
  <2>5. CASE job'[v].fd \in {NoFd, job[v].fd}
    BY <1>6, <2>1, <2>4, <2>5 DEF Stays
  <2>6. CASE \E p \in Scope(job[v].req) : entry'[p] = job'[v].fd
    BY <1>4, <1>5, <2>3, <2>6 DEF NoLinks
  <2> QED BY <2>2, <2>5, <2>6
<1>9. CASE u = w
  <2>1. job'[v] = job[v]
    BY <1>2, <1>9
  <2>2. Free(entry'[q]) \/ \E p \in Scope(job[w].req) : entry[p] = entry'[q]
    BY <1>1, <1>9 DEF Foot
  <2>3. CASE Free(entry'[q])
    BY <2>1, <2>3 DEF Free
  <2>4. CASE \E p \in Scope(job[w].req) : entry[p] = entry'[q]
    BY <1>6, <2>1, <2>4
  <2> QED BY <2>2, <2>3, <2>4
<1> QED BY <1>7, <1>8, <1>9

LEMMA SeparateRests ==
  ASSUME NodeInv, SeenOK, Separate, Remember, Rests
  PROVE  Separate'
<1>1. \A v \in Procs : Busy(v)' => Busy(v) /\ job'[v] = job[v]
  BY DEF Rests
<1>2. \A v \in Procs : Watched(v)' => Watched(v)
  BY <1>1, SeenIs DEF Watched
<1>3. \A q \in Paths : entry'[q] = entry[q]
  BY DEF Rests, Stays
<1> SUFFICES ASSUME NEW w \in Procs, NEW v \in Procs, Watched(w), Busy(v), v # w, ~Reading(w, v)
             PROVE  /\ Scope(job[w].req) \cap Scope(job[v].req) = {}
                    /\ ~ReadOnly(job[v].req) =>
                         \A q \in Scope(job[w].req) : entry'[q] \in Inodes => entry'[q] # job[v].fd
  <2> SUFFICES ASSUME NEW w \in Procs, NEW v \in Procs, Watched(w)', Busy(v)', v # w, ~Reading(w, v)'
               PROVE  /\ Scope(job'[w].req) \cap Scope(job'[v].req) = {}
                      /\ ~ReadOnly(job'[v].req) =>
                           \A q \in Scope(job'[w].req) : entry'[q] \in Inodes => entry'[q] # job'[v].fd
    BY DEF Separate, ReadOnly, Scope, NamesOf
  <2>1. Busy(w)'
    BY DEF Watched
  <2>2. job'[w] = job[w] /\ job'[v] = job[v] /\ Busy(v) /\ Watched(w)
    BY <1>1, <1>2, <2>1
  <2>3. ~Reading(w, v)
    BY <2>2 DEF Reading, ReadOnly
  <2> QED BY <2>2, <2>3
<1>4. Scope(job[w].req) \subseteq Paths
  BY JobIs DEF Watched
<1> QED BY <1>3, <1>4 DEF Separate

LEMMA SeparateTake ==
  ASSUME NodeInv, SeenOK, Separate, Remember, NEW u \in Procs, NEW r \in Load, Take(u, r)
  PROVE  Separate'
<1>1. /\ entry' = entry /\ ~Busy(u) /\ Busy(u)' /\ (\A v \in Procs : v # u => job'[v] = job[v])
      /\ job'[u].req = r /\ job'[u].fd = NoFd
  BY TakeIs DEF Unchanged
<1>2. \A v \in Procs : v # u => (Busy(v)' <=> Busy(v)) /\ (Watched(v)' => Watched(v))
  BY <1>1, SeenIs DEF Watched, Busy
<1> SUFFICES ASSUME NEW w \in Procs, NEW v \in Procs, Watched(w)', Busy(v)', v # w, ~Reading(w, v)'
             PROVE  /\ Scope(job'[w].req) \cap Scope(job'[v].req) = {}
                    /\ ~ReadOnly(job'[v].req) =>
                         \A q \in Scope(job'[w].req) : entry[q] \in Inodes => entry[q] # job'[v].fd
  BY <1>1 DEF Separate, ReadOnly, Scope, NamesOf
<1>3. ~(ReadOnly(job'[w].req) /\ ReadOnly(job'[v].req)) /\ ~Ranged(job'[w].req) /\ Busy(w)'
  BY DEF Reading, ReadOnly, Watched
<1>4. ~Ranged(job'[w].req)
  BY <1>3 DEF Ranged
<1>5. CASE u = w
  <2>1. job'[v] = job[v] /\ Busy(v)
    BY <1>1, <1>2, <1>5
  <2>2. seen'[w].alone
    BY DEF Watched
  <2>3. ~Rival(v, r)
    BY <1>1, <1>5, <2>2, SeenNew
  <2>4. ~Conflict(r, job[v].req) /\ ~WritesTo(v, r)
    BY <2>1, <2>3 DEF Rival, Busy
  <2>5. job[v].req \in Load /\ job'[w].req = r
    BY <1>1, <1>5, <2>1, JobIs
  <2>6. Scope(r) \cap Scope(job[v].req) = {}
    BY <1>3, <1>4, <2>1, <2>4, <2>5, ScopesApart
  <2>7. ~ReadOnly(job[v].req) => \A q \in Scope(r) : entry[q] \in Inodes => entry[q] # job[v].fd
    BY <2>4, <2>6 DEF WritesTo, IsFile
  <2> QED BY <2>1, <2>5, <2>6, <2>7
<1>6. CASE u = v
  <2>1. job'[w] = job[w] /\ Busy(w) /\ job'[v].req = r
    BY <1>1, <1>2, <1>3, <1>6
  <2>2. Starts(v) /\ seen'[w].alone
    BY <1>1, <1>6 DEF Starts, Busy, Watched
  <2>3. ~Conflict(r, job[w].req)
    BY <1>3, <2>1, <2>2, SeenIs
  <2>4. job[w].req \in Load
    BY <2>1, JobIs
  <2>5. Scope(r) \cap Scope(job[w].req) = {}
    BY <1>3, <1>4, <2>1, <2>3, <2>4, ScopesApart
  <2>6. NoFd \notin Inodes
    BY NodeNumbers
  <2> QED BY <1>1, <1>6, <2>1, <2>5, <2>6
<1>7. CASE u # w /\ u # v
  <2>1. job'[w] = job[w] /\ job'[v] = job[v] /\ Busy(v) /\ Watched(w)
    BY <1>1, <1>2, <1>7
  <2>2. ~Reading(w, v)
    BY <1>3, <2>1 DEF Reading
  <2> QED BY <2>1, <2>2 DEF Separate
<1> QED BY <1>5, <1>6, <1>7

LEMMA SeparateStays ==
  ASSUME NodeInv, CacheOK, SeenOK, Separate, TreeNext
  PROVE  Separate'
BY NextKinds, SeparateStep, SeparateRests, SeparateTake, AnswerRests, ClockRests, DiesRests

-------------------------------------------------------------------------------
\* What a COPY or MOVE leaves of its source

\* What can be seen of a name says what it is.
LEMMA ViewIs ==
  ASSUME NodeInv, NEW q \in Paths
  PROVE  /\ View[q] = Collection <=> entry[q] = Directory
         /\ View[q].is = "file" <=> entry[q] \in Inodes
         /\ View[q].is = "directory" <=> entry[q] = Directory
         /\ View[q].is = "absent" <=> entry[q] = Absent
         /\ View[q].is \in {"file", "directory", "absent"}
         /\ entry[q] \in Inodes => View[q].has = data[entry[q]]
<1>1. entry[q] \in Inodes \cup {Absent, Directory}
  BY TreeIs
<1>2. View[q] = CASE entry[q] = Absent -> Nothing [] entry[q] = Directory -> Collection [] OTHER -> File(data[entry[q]])
  BY DEF View, ViewOf
<1>3. /\ Nothing.is = "absent" /\ Collection.is = "directory"
      /\ \A s : File(s).is = "file" /\ File(s).has = s
  BY DEF Nothing, Collection, File
<1>4. CASE entry[q] = Absent
  BY <1>2, <1>3, <1>4, NodeNumbers
<1>5. CASE entry[q] = Directory
  BY <1>2, <1>3, <1>5, NodeNumbers
<1>6. CASE entry[q] \in Inodes
  BY <1>2, <1>3, <1>6, NodeNumbers
<1> QED BY <1>1, <1>4, <1>5, <1>6

LEMMA SourceIs ==
  ASSUME NEW r \in Load
  PROVE  Source(r) \subseteq Scope(r) /\ r.path \in Source(r)
BY RequestIs DEF Source

\* It depends on nothing but the names of the request.
LEMMA KeptAs ==
  ASSUME NEW j, j.req \in Load, NEW b, NEW V, NEW E, NEW V1, NEW E1, KeptOf(j, b, V, E),
         \A q \in Scope(j.req) : V1[q] = V[q] /\ E1[q] = E[q]
  PROVE  KeptOf(j, b, V1, E1)
<1>1. Source(j.req) \subseteq Scope(j.req)
  BY SourceIs
<1> QED BY <1>1 DEF KeptOf

LEMMA KeptStays ==
  ASSUME NodeInv, SeenOK, Remember, NEW w \in Procs, Kept(w), Busy(w), Busy(w)', job'[w] = job[w],
         Watched(w) => \A q \in Scope(job[w].req) : Stays(q)
  PROVE  Kept(w)'
<1> SUFFICES ASSUME Moving(w)' PROVE KeptOf(job'[w], seen'[w].before, View', entry')
  BY DEF Kept, KeptOf, Source, Below, Scope, NamesOf, Into
<1>1. seen'[w].before = seen[w].before /\ (seen'[w].alone => seen[w].alone)
  BY SeenIs
<1>2. Moving(w)
  BY <1>1 DEF Moving, Watched, IntoItself, Into, Below
<1>3. KeptOf(job[w], seen[w].before, View, entry)
  BY <1>2 DEF Kept
<1>4. \A q \in Scope(job[w].req) : View'[q] = View[q] /\ entry'[q] = entry[q]
  BY <1>2, JobIs, ViewStays DEF Moving, Stays
<1>5. job[w].req \in Load
  BY JobIs
<1> QED BY <1>1, <1>3, <1>4, <1>5, KeptAs

\* A request that only looks at the tree, or changes it elsewhere, keeps its source.
LEMMA SourceStays ==
  ASSUME NodeInv, NEW r \in Load, NEW b, \A q \in Source(r) : View[q] = b[q], \A q \in Source(r) : Stays(q)
  PROVE  \A q \in Source(r) : View'[q] = b[q]
BY SourceIs, RequestIs, ViewStays

\* What a copy makes is not in its source.
LEMMA IntoApart ==
  ASSUME NEW r \in Load, NEW b, r.method \in {"COPY", "MOVE"}, ~IntoItself(b, r), b[r.path].is = "file"
  PROVE  Into(b, r) \notin Source(r)
<1>1. Into(b, r) # r.path /\ r.to \notin Below(r.path)
  BY DEF IntoItself
<1>2. CASE Into(b, r) = r.to
  BY <1>1, <1>2 DEF Source
<1>3. CASE Into(b, r) = Append(r.to, Last(r.path))
  <2>1. /\ Append(r.to, Last(r.path)) \in Scope(r) /\ r.path \in Paths /\ r.to \in Paths
        /\ \A p \in Paths : IsPrefix(p, Append(r.to, Last(r.path))) => IsPrefix(p, r.to) \/ p = Append(r.to, Last(r.path))
    BY CopyNames, RequestIs
  <2>2. ASSUME Into(b, r) \in Below(r.path) PROVE FALSE
    <3>1. IsPrefix(r.path, r.to)
      BY <1>1, <1>3, <2>1, <2>2 DEF Below
    <3>2. r.to = r.path
      BY <1>1, <2>1, <3>1 DEF Below
    <3>3. b[r.to] # Collection
      BY <3>2 DEF Collection
    <3> QED BY <1>1, <3>2, <3>3 DEF Into
  <2> QED BY <1>1, <2>2 DEF Source
<1> QED BY <1>2, <1>3 DEF Into

LEMMA IntoApartOfDir ==
  ASSUME NEW r \in Load, NEW b, r.method \in {"COPY", "MOVE"}, ~IntoItself(b, r), b[r.path] = Collection
  PROVE  /\ r.to \notin Source(r)
         /\ \A c \in Listed(r.path) : Append(r.to, Last(c)) \in Source(r) => Append(r.to, Last(c)) = r.path
<1>1. b[r.path].is # "file"
  BY DEF Collection
<1>2. r.to # r.path /\ r.to \notin Below(r.path)
  BY <1>1 DEF IntoItself, Into
<1> SUFFICES ASSUME NEW c \in Listed(r.path), Append(r.to, Last(c)) \in Below(r.path) PROVE FALSE
  BY <1>2 DEF Source
<1>3. /\ Append(r.to, Last(c)) \in Paths /\ r.path \in Paths /\ r.to \in Paths
      /\ \A p \in Paths : IsPrefix(p, Append(r.to, Last(c))) => IsPrefix(p, r.to) \/ p = Append(r.to, Last(c))
  BY CopyNames, RequestIs
<1>4. IsPrefix(r.path, r.to)
  BY <1>3 DEF Below
<1> QED BY <1>2, <1>3, <1>4 DEF Below

\* Of a worker that has a COPY or MOVE that has met no rival so far: what its next step keeps.
Moves(w, b) == /\ job[w].req \in Load /\ job[w].req.method \in {"COPY", "MOVE"} /\ ~IntoItself(b, job[w].req)
               /\ KeptOf(job[w], b, View, entry)
KeptThen(w, b) == KeptOf(job'[w], b, View', entry')

\* It has an answer, and its source; or an answer that is no refusal.
LEMMA KeptAnswer ==
  ASSUME NEW w \in Procs, NEW b, job'[w].pc = "answer",
         job'[w].status >= 400 => \A q \in Source(job'[w].req) : View'[q] = b[q]
  PROVE  KeptThen(w, b)
BY DEF KeptThen, KeptOf, Early, OfFile

LEMMA AllStay ==
  ASSUME NodeInv, NEW w \in Procs, Busy(w), NEW b, Unchanged
  PROVE  /\ \A q \in Paths : View'[q] = View[q] /\ entry'[q] = entry[q]
         /\ (\A q \in Source(job[w].req) : View[q] = b[q]) => \A q \in Source(job[w].req) : View'[q] = b[q]
         /\ (\A q \in Scope(job[w].req) : View[q] = b[q]) => \A q \in Scope(job[w].req) : View'[q] = b[q]
<1>1. \A q \in Paths : Stays(q)
  BY FootOfNothing
<1>2. \A q \in Paths : View'[q] = View[q] /\ entry'[q] = entry[q]
  BY <1>1, ViewStays DEF Stays
<1>3. Source(job[w].req) \subseteq Paths /\ Scope(job[w].req) \subseteq Paths
  BY JobIs, SourceIs
<1> QED BY <1>2, <1>3

LEMMA StatSourceKeeps ==
  ASSUME NodeInv, NEW w \in Procs, StatSource(w), NEW b, Moves(w, b)
  PROVE  KeptThen(w, b)
<1>1. /\ Works(w) /\ Unchanged
      /\ \/ job'[w].pc = "answer"
         \/ job'[w].pc = "destdir" /\ entry[job[w].req.path] = Directory
         \/ job'[w].pc = "dest" /\ IsFile(job[w].req.path)
  BY StatSourceWorks
<1>2. Busy(w) /\ job'[w].req = job[w].req /\ job[w].pc = "stat"
  BY <1>1 DEF Works, StatSource, At
<1>3. /\ \A q \in Scope(job[w].req) : View[q] = b[q]
      /\ \A q \in Source(job[w].req) : View[q] = b[q]
  BY <1>2 DEF Moves, KeptOf, Early
<1>4. /\ \A q \in Scope(job[w].req) : View'[q] = b[q]
      /\ \A q \in Source(job[w].req) : View'[q] = b[q]
  BY <1>1, <1>2, <1>3, AllStay
<1>5. /\ job[w].req.path \in Paths /\ View[job[w].req.path] = b[job[w].req.path]
  BY <1>2, <1>3, JobIs
<1>6. CASE job'[w].pc = "answer"
  BY <1>2, <1>4, <1>6, KeptAnswer
<1>7. CASE job'[w].pc = "destdir" /\ entry[job[w].req.path] = Directory
  <2>1. b[job[w].req.path] = Collection
    BY <1>5, <1>7, ViewIs
  <2> QED BY <1>2, <1>4, <1>7, <2>1 DEF KeptThen, KeptOf, Early, OfFile
<1>8. CASE job'[w].pc = "dest" /\ IsFile(job[w].req.path)
  <2>1. b[job[w].req.path].is = "file"
    BY <1>5, <1>8, ViewIs DEF IsFile
  <2> QED BY <1>2, <1>4, <1>8, <2>1 DEF KeptThen, KeptOf, Early, OfFile
<1> QED BY <1>1, <1>6, <1>7, <1>8

LEMMA StatDestinationKeeps ==
  ASSUME NodeInv, NEW w \in Procs, StatDestination(w), NEW b, Moves(w, b)
  PROVE  KeptThen(w, b)
<1>1. /\ Works(w) /\ Unchanged
      /\ \/ job'[w].pc = "answer"
         \/ job'[w].pc \in {"rename", "copy"} /\ job'[w].to = Target(w) /\ job'[w].status < 400
  BY StatDestinationWorks
<1>2. Busy(w) /\ job'[w].req = job[w].req /\ job[w].pc = "dest"
  BY <1>1 DEF Works, StatDestination, At
<1>3. /\ \A q \in Scope(job[w].req) : View[q] = b[q]
      /\ \A q \in Source(job[w].req) : View[q] = b[q]
      /\ b[job[w].req.path].is = "file"
  BY <1>2 DEF Moves, KeptOf, Early
<1>4. \A q \in Source(job[w].req) : View'[q] = b[q]
  BY <1>1, <1>2, <1>3, AllStay
<1>5. CASE job'[w].pc = "answer"
  BY <1>2, <1>4, <1>5, KeptAnswer
<1>6. CASE job'[w].pc \in {"rename", "copy"} /\ job'[w].to = Target(w) /\ job'[w].status < 400
  <2>1. job[w].req.to \in Scope(job[w].req) /\ job[w].req.to \in Paths
    BY RequestIs DEF Moves
  <2>2. IsDir(job[w].req.to) <=> b[job[w].req.to] = Collection
    BY <1>3, <2>1, IsDirIs, ViewIs
  <2>3. Target(w) = Into(b, job[w].req)
    BY <1>3, <2>2 DEF Target, Into
  <2> QED BY <1>2, <1>3, <1>4, <1>6, <2>3 DEF KeptThen, KeptOf, Early, OfFile
<1> QED BY <1>1, <1>5, <1>6

LEMMA RenameKeeps ==
  ASSUME NodeInv, NEW w \in Procs, Rename(w), NEW b, Moves(w, b)
  PROVE  KeptThen(w, b)
<1>1. /\ Works(w)
      /\ \/ job'[w].pc = "answer" /\ job'[w].status = job[w].status
         \/ job'[w].pc = "copy" /\ job'[w].to = job[w].to /\ job'[w].status = job[w].status /\ Unchanged
  BY RenameWorks
<1>2. Busy(w) /\ job'[w].req = job[w].req /\ job[w].pc = "rename" /\ job[w].status \in Nat
  BY <1>1, JobIs DEF Works, Rename, At, JobOK
<1>3. /\ \A q \in Source(job[w].req) : View[q] = b[q]
      /\ b[job[w].req.path].is = "file" /\ job[w].to = Into(b, job[w].req) /\ job[w].status < 400
  BY <1>2 DEF Moves, KeptOf, Early, OfFile
<1>4. CASE job'[w].pc = "answer" /\ job'[w].status = job[w].status
  <2>1. ~(job'[w].status >= 400)
    BY <1>2, <1>3, <1>4
  <2> QED BY <1>4, <2>1, KeptAnswer
<1>5. CASE job'[w].pc = "copy" /\ job'[w].to = job[w].to /\ job'[w].status = job[w].status /\ Unchanged
  <2>1. \A q \in Source(job[w].req) : View'[q] = b[q]
    BY <1>2, <1>3, <1>5, AllStay
  <2> QED BY <1>2, <1>3, <1>5, <2>1 DEF KeptThen, KeptOf, Early, OfFile
<1> QED BY <1>1, <1>4, <1>5

LEMMA OpenForCopyKeeps ==
  ASSUME NodeInv, NEW w \in Procs, OpenForCopy(w), NEW b, Moves(w, b)
  PROVE  KeptThen(w, b)
<1>1. /\ Foot(w) /\ Works(w)
      /\ \/ job'[w].pc = "answer" /\ Unchanged
         \/ /\ job'[w].pc = "copydata" /\ job'[w].to = job[w].to /\ job'[w].status = job[w].status
            /\ job'[w].fd \in Inodes /\ entry'[job[w].to] = job'[w].fd
            /\ \A q \in Paths : q # job[w].to => Stays(q)
  BY OpenForCopyWorks
<1>2. Busy(w) /\ job'[w].req = job[w].req /\ job[w].pc = "copy" /\ job[w].req \in Load /\ Source(job[w].req) \subseteq Paths
  BY <1>1, SourceIs, RequestIs DEF Works, OpenForCopy, At, Moves
<1>3. /\ \A q \in Source(job[w].req) : View[q] = b[q]
      /\ b[job[w].req.path].is = "file" /\ job[w].to = Into(b, job[w].req) /\ job[w].status < 400
  BY <1>2 DEF Moves, KeptOf, Early, OfFile
<1>4. CASE job'[w].pc = "answer" /\ Unchanged
  <2>1. \A q \in Source(job[w].req) : View'[q] = b[q]
    BY <1>2, <1>3, <1>4, AllStay
  <2> QED BY <1>2, <1>4, <2>1, KeptAnswer
<1>5. CASE /\ job'[w].pc = "copydata" /\ job'[w].to = job[w].to /\ job'[w].status = job[w].status
           /\ job'[w].fd \in Inodes /\ entry'[job[w].to] = job'[w].fd
           /\ \A q \in Paths : q # job[w].to => Stays(q)
  <2>1. job[w].to \notin Source(job[w].req)
    BY <1>3, IntoApart DEF Moves
  <2>2. \A q \in Source(job[w].req) : Stays(q)
    BY <1>2, <1>5, <2>1
  <2>3. \A q \in Source(job[w].req) : View'[q] = b[q]
    BY <1>2, <1>3, <2>2, SourceStays
  <2>4. NoLinks(entry') /\ job[w].to \in Paths
    <3>1. job[w].to \in Scope(job[w].req) /\ Scope(job[w].req) \subseteq Paths
      BY <1>2, JobIs DEF JobOK, Moves
    <3> QED BY <1>1, <3>1 DEF Foot, TreeOK
  <2>5. \A q \in Source(job[w].req) : entry'[q] \in Inodes => entry'[q] # job'[w].fd
    BY <1>2, <1>5, <2>1, <2>4 DEF NoLinks
  <2> QED BY <1>2, <1>3, <1>5, <2>3, <2>5 DEF KeptThen, KeptOf, Early, OfFile
<1> QED BY <1>1, <1>4, <1>5

\* When the copy is made, no refusal is left.
LEMMA WriteCopyKeeps ==
  ASSUME NodeInv, NEW w \in Procs, NEW n, WriteCopy(w, n), NEW b, Moves(w, b)
  PROVE  KeptThen(w, b)
<1>1. Works(w) /\ job'[w].pc \in {"answer", "unlinksource"} /\ job'[w].status = job[w].status
  BY WriteCopyWorks
<1>2. job[w].pc = "copydata" /\ job[w].status \in Nat
  BY <1>1, JobIs DEF WriteCopy, At, Works, JobOK
<1>3. job[w].status < 400 /\ ~(job[w].status >= 400)
  BY <1>2 DEF Moves, KeptOf, OfFile
<1> QED BY <1>1, <1>3 DEF KeptThen, KeptOf, Early, OfFile

LEMMA CopyFailsKeeps ==
  ASSUME NodeInv, NEW w \in Procs, CopyFails(w), NEW b, Moves(w, b)
  PROVE  KeptThen(w, b)
<1>1. Works(w) /\ Unchanged /\ job'[w].pc = "answer" /\ job[w].pc = "copydata"
  BY CopyFailsWorks DEF CopyFails, At
<1>2. Busy(w) /\ job'[w].req = job[w].req
  BY <1>1 DEF Works
<1>3. \A q \in Source(job[w].req) : View[q] = b[q]
  BY <1>1 DEF Moves, KeptOf, OfFile
<1>4. \A q \in Source(job[w].req) : View'[q] = b[q]
  BY <1>1, <1>2, <1>3, AllStay
<1> QED BY <1>1, <1>2, <1>4, KeptAnswer

LEMMA UnlinkSourceKeeps ==
  ASSUME NodeInv, NEW w \in Procs, UnlinkSource(w), NEW b, Moves(w, b)
  PROVE  KeptThen(w, b)
<1>1. Works(w) /\ job'[w].pc = "answer" /\ job'[w].status = job[w].status
  BY UnlinkSourceWorks
<1>2. job[w].pc = "unlinksource" /\ job[w].status \in Nat
  BY <1>1, JobIs DEF UnlinkSource, At, Works, JobOK
<1>3. ~(job'[w].status >= 400)
  BY <1>1, <1>2 DEF Moves, KeptOf, OfFile
<1> QED BY <1>1, <1>3, KeptAnswer

LEMMA MakeDestinationKeeps ==
  ASSUME NodeInv, NEW w \in Procs, MakeDestination(w), NEW b, Moves(w, b)
  PROVE  KeptThen(w, b)
<1>1. /\ Works(w)
      /\ \/ job'[w].pc = "answer" /\ Unchanged
         \/ job'[w].pc = "copydir" /\ \A q \in Paths : q # job[w].req.to => Stays(q)
  BY MakeDestinationWorks
<1>2. /\ Busy(w) /\ job'[w].req = job[w].req /\ job[w].pc = "destdir" /\ job[w].req \in Load
      /\ Source(job[w].req) \subseteq Paths
  BY <1>1, SourceIs, RequestIs DEF Works, MakeDestination, At, Moves
<1>3. (\A q \in Source(job[w].req) : View[q] = b[q]) /\ b[job[w].req.path] = Collection
  BY <1>2 DEF Moves, KeptOf, Early
<1>4. CASE job'[w].pc = "answer" /\ Unchanged
  <2>1. \A q \in Source(job[w].req) : View'[q] = b[q]
    BY <1>2, <1>3, <1>4, AllStay
  <2> QED BY <1>2, <1>4, <2>1, KeptAnswer
<1>5. CASE job'[w].pc = "copydir" /\ \A q \in Paths : q # job[w].req.to => Stays(q)
  <2>1. job[w].req.to \notin Source(job[w].req)
    BY <1>3, IntoApartOfDir DEF Moves
  <2>2. \A q \in Source(job[w].req) : Stays(q)
    BY <1>2, <1>5, <2>1
  <2>3. \A q \in Source(job[w].req) : View'[q] = b[q]
    BY <1>2, <1>3, <2>2, SourceStays
  <2> QED BY <1>2, <1>3, <1>5, <2>3 DEF KeptThen, KeptOf, Early, OfFile
<1> QED BY <1>1, <1>4, <1>5

LEMMA CopyChildKeeps ==
  ASSUME NodeInv, NEW w \in Procs, NEW c \in Paths, CopyChild(w, c), NEW b, Moves(w, b)
  PROVE  KeptThen(w, b)
<1>1. /\ Works(w) /\ job'[w].pc \in {"copydir", "answer"} /\ c \in Listed(job[w].req.path)
      /\ \A q \in Paths : q # Append(job[w].req.to, Last(c)) => Stays(q)
      /\ entry[Append(job[w].req.to, Last(c))] = Directory => Unchanged
  BY SMTT(30), CopyChildWorks
<1>2. /\ Busy(w) /\ job'[w].req = job[w].req /\ job[w].pc = "copydir" /\ job[w].req \in Load
      /\ Source(job[w].req) \subseteq Paths /\ job[w].req.path \in Source(job[w].req)
  BY <1>1, SourceIs, RequestIs DEF Works, CopyChild, At, Moves
<1>3. (\A q \in Source(job[w].req) : View[q] = b[q]) /\ b[job[w].req.path] = Collection
  BY <1>2 DEF Moves, KeptOf, Early
<1>4. ASSUME NEW q \in Source(job[w].req) PROVE Stays(q)
  <2>1. q \in Paths
    BY <1>2
  <2>2. CASE q # Append(job[w].req.to, Last(c))
    BY <1>1, <2>1, <2>2
  <2>3. CASE q = Append(job[w].req.to, Last(c))
    <3>1. q = job[w].req.path
      BY SMTT(30), <1>1, <1>3, <2>3, IntoApartOfDir DEF Moves
    <3>2. entry[q] = Directory
      BY <1>2, <1>3, <2>1, <3>1, ViewIs
    <3> QED BY <1>1, <1>2, <2>1, <2>3, <3>2, FootOfNothing
  <2> QED BY <2>2, <2>3
<1>5. \A q \in Source(job[w].req) : View'[q] = b[q]
  BY <1>2, <1>3, <1>4, SourceStays
<1> QED BY <1>1, <1>2, <1>3, <1>5 DEF KeptThen, KeptOf, Early, OfFile

LEMMA CopiedDirKeeps ==
  ASSUME NodeInv, NEW w \in Procs, CopiedDir(w), NEW b, Moves(w, b)
  PROVE  KeptThen(w, b)
<1>1. \/ job'[w].pc = "answer" /\ job'[w].status = 201
      \/ job'[w].pc = "empty"
  BY CopiedDirWorks
<1> QED BY <1>1 DEF KeptThen, KeptOf, Early, OfFile

LEMMA EmptyingKeeps ==
  ASSUME NodeInv, NEW w \in Procs, NEW b, Moves(w, b),
         (\E c \in Paths : DeleteChild(w, c) \/ RemoveInner(w, c)) \/ RemoveOuter(w)
  PROVE  KeptThen(w, b)
<1>1. CASE \E c \in Paths : DeleteChild(w, c) \/ RemoveInner(w, c)
  <2>1. job'[w].pc = "empty"
    BY <1>1, DeleteChildWorks, RemoveInnerWorks
  <2> QED BY <2>1 DEF KeptThen, KeptOf, Early, OfFile
<1>2. CASE RemoveOuter(w)
  <2>1. At(w, "empty", {"DELETE", "MOVE"})
    BY <1>2 DEF RemoveOuter
  <2>2. job[w].req.method = "MOVE"
    BY <2>1 DEF At, Moves
  <2>3. job'[w].pc = "answer" /\ job'[w].status = 201
    BY <1>2, <2>2, RemoveOuterWorks
  <2> QED BY <2>3, KeptAnswer
<1> QED BY <1>1, <1>2

\* Its next step, whatever it is.
LEMMA StepKeeps ==
  ASSUME NodeInv, CacheOK, NEW w \in Procs, WorkerStep(w), NEW b, Moves(w, b)
  PROVE  KeptThen(w, b)
<1>1. \A pc, methods : At(w, pc, methods) /\ methods \cap {"COPY", "MOVE"} = {} => FALSE
  BY DEF Moves, At
<1>2. ASSUME OpenForPut(w) \/ CreateForPut(w) \/ (\E n \in 1..MaxBody : WriteBody(w, n)) \/ WriteFails(w)
      PROVE  FALSE
  <2>1. \E pc : At(w, pc, {"PUT"})
    BY <1>2 DEF OpenForPut, CreateForPut, WriteBody, WriteFails
  <2> QED BY <1>1, <2>1
<1>3. ASSUME MakeCollection(w) PROVE FALSE
  <2>1. At(w, "mkdir", {"MKCOL"})
    BY <1>3 DEF MakeCollection
  <2> QED BY <1>1, <2>1
<1>4. ASSUME StatForDelete(w) \/ Unlink(w) PROVE FALSE
  <2>1. \E pc : At(w, pc, {"DELETE"})
    BY <1>4 DEF StatForDelete, Unlink
  <2> QED BY <1>1, <2>1
<1>5. ASSUME StatCached(w) \/ OpenToSend(w) \/ (\E n \in 0..MaxBody : SendBody(w, n)) PROVE FALSE
  <2>1. \E pc : At(w, pc, {"GET", "HEAD"}) \/ At(w, pc, {"GET"})
    BY Zenon, <1>5 DEF StatCached, OpenToSend, SendBody
  <2> QED BY SMTT(30), <1>1, <2>1
<1> QED BY <1>2, <1>3, <1>4, <1>5, EmptyingKeeps, StatSourceKeeps, StatDestinationKeeps, RenameKeeps, OpenForCopyKeeps,
           WriteCopyKeeps, CopyFailsKeeps, UnlinkSourceKeeps, MakeDestinationKeeps, CopyChildKeeps, CopiedDirKeeps
        DEF WorkerStep

LEMMA KeptStep ==
  ASSUME NodeInv, CacheOK, SeenOK, Separate, Remember, NEW w \in Procs, Kept(w), NEW u \in Procs, WorkerStep(u)
  PROVE  Kept(w)'
<1>1. Foot(u) /\ Works(u) /\ (ReadOnly(job[u].req) => Unchanged)
  BY WorkerStepWorks
<1>2. Busy(w)' => Busy(w) /\ job'[w].req = job[w].req
  BY <1>1 DEF Works, Busy
<1>3. CASE ~Busy(w)'
  <2>1. ~Moving(w)'
    BY <1>3 DEF Moving, Watched
  <2> QED BY <2>1 DEF Kept
<1>4. CASE Busy(w)' /\ u # w
  <2>1. Busy(w) /\ job'[w] = job[w]
    BY <1>1, <1>2, <1>4 DEF Works
  <2>2. Watched(w) => \A q \in Scope(job[w].req) : Stays(q)
    BY <1>1, <1>4, Quiet DEF Works
  <2> QED BY <1>4, <2>1, <2>2, KeptStays
<1>5. CASE Busy(w)' /\ u = w
  <2> SUFFICES ASSUME Moving(w)' PROVE KeptOf(job'[w], seen'[w].before, View', entry')
    BY DEF Kept, KeptOf, Source, Below, Scope, NamesOf, Into
  <2>1. seen'[w].before = seen[w].before /\ (seen'[w].alone => seen[w].alone)
    BY <1>2, <1>5, SeenIs
  <2>2. Moving(w)
    BY <1>2, <1>5, <2>1 DEF Moving, Watched, IntoItself, Into, Below
  <2>3. Moves(w, seen[w].before)
    BY <1>2, <1>5, <2>2, JobIs DEF Moves, Kept, Moving
  <2> QED BY <1>5, <2>1, <2>3, StepKeeps DEF KeptThen
<1> QED BY <1>3, <1>4, <1>5

LEMMA KeptRests ==
  ASSUME NodeInv, SeenOK, Remember, Rests, NEW w \in Procs, Kept(w)
  PROVE  Kept(w)'
<1>1. CASE ~Busy(w)'
  <2>1. ~Moving(w)'
    BY <1>1 DEF Moving, Watched
  <2> QED BY <2>1 DEF Kept
<1>2. CASE Busy(w)'
  <2>1. Busy(w) /\ job'[w] = job[w] /\ \A q \in Paths : Stays(q)
    BY <1>2 DEF Rests
  <2>2. \A q \in Scope(job[w].req) : Stays(q)
    BY <2>1, JobIs
  <2> QED BY <1>2, <2>1, <2>2, KeptStays
<1> QED BY <1>1, <1>2

LEMMA KeptTake ==
  ASSUME NodeInv, SeenOK, Remember, NEW u \in Procs, NEW r \in Load, Take(u, r), NEW w \in Procs, Kept(w)
  PROVE  Kept(w)'
<1>1. /\ (\A q \in Paths : Stays(q)) /\ ~Busy(u) /\ Busy(u)' /\ (\A v \in Procs : v # u => job'[v] = job[v])
      /\ job'[u].req = r /\ job'[u].pc = FirstCall(r)
  BY TakeIs
<1>2. CASE w = u
  <2> SUFFICES ASSUME Moving(u)' PROVE KeptOf(job'[u], seen'[u].before, View', entry')
    BY <1>2 DEF Kept, KeptOf, Source, Below, Scope, NamesOf, Into
  <2>1. r.method \in {"COPY", "MOVE"}
    BY <1>1 DEF Moving
  <2>2. job'[u].pc = "stat"
    BY <1>1, <2>1 DEF FirstCall, ReadOnly
  <2>3. seen'[u].before = View
    BY <1>1, SeenNew
  <2>4. Scope(r) \subseteq Paths /\ Source(r) \subseteq Scope(r)
    BY RequestIs, SourceIs
  <2>5. \A q \in Scope(r) : View'[q] = seen'[u].before[q]
    BY <1>1, <2>3, <2>4, ViewStays
  <2> QED BY <1>1, <2>2, <2>4, <2>5 DEF KeptOf, Early, OfFile
<1>3. CASE w # u /\ Busy(w)'
  <2>1. job'[w] = job[w] /\ Busy(w)
    BY <1>1, <1>3 DEF Busy
  <2>2. \A q \in Scope(job[w].req) : Stays(q)
    BY <1>1, <2>1, JobIs
  <2> QED BY <1>3, <2>1, <2>2, KeptStays
<1>4. CASE ~Busy(w)'
  <2>1. ~Moving(w)'
    BY <1>4 DEF Moving, Watched
  <2> QED BY <2>1 DEF Kept
<1> QED BY <1>2, <1>3, <1>4, <1>1

LEMMA KeptAll ==
  ASSUME NodeInv, CacheOK, SeenOK, Separate, TreeNext, \A w \in Procs : Kept(w)
  PROVE  \A w \in Procs : Kept(w)'
BY NextKinds, KeptStep, KeptRests, KeptTake, AnswerRests, ClockRests, DiesRests

-------------------------------------------------------------------------------
\* The invariant

LEMMA TreeInvInit ==
  ASSUME TreeInit
  PROVE  TreeInv
<1>1. \A w \in Procs : ~Busy(w)
  BY DEF TreeInit, NodeInit, Busy
<1>2. JobsOK /\ SeenOK
  BY <1>1 DEF TreeInit, NodeInit, JobsOK, JobOK, SeenOK
<1>3. CacheOK
  BY DEF TreeInit, NodeInit, CacheOK, CacheEntries, CacheKeys, NotCached
<1>4. Separate /\ \A w \in Procs : Kept(w)
  BY <1>1 DEF Separate, Watched, Kept, Moving
<1>5. entry \in Trees0 /\ NoLinks(entry)
  BY LoadAssumption DEF TreeInit, Trees0, NoLinks
<1>6. data \in [Inodes -> Seq(Nat)]
  <2>1. ASSUME NEW i \in Inodes PROVE [u \in 1..MaxBody |-> i] \in Seq(Nat)
    BY NodeAssumption, SeqDef
  <2>2. <<>> \in Seq(Nat)
    BY EmptySeq
  <2> QED BY <2>1, <2>2 DEF TreeInit
<1> QED BY <1>2, <1>3, <1>4, <1>5, <1>6 DEF TreeInv, NodeInv, TreeOK

LEMMA TreeInvNext ==
  ASSUME TreeInv, TreeNext
  PROVE  TreeInv'
<1>1. NodeInv /\ SeenOK /\ CacheOK /\ Separate /\ \A w \in Procs : Kept(w)
  BY DEF TreeInv
<1>2. SeenOK'
  BY <1>1, NextKinds, SeenStays
<1>3. NodeInv' /\ CacheOK' /\ Separate'
  BY <1>1, NodeInvStays, CacheStays, SeparateStays
<1>4. \A w \in Procs : Kept(w)'
  BY <1>1, KeptAll
<1> QED BY <1>2, <1>3, <1>4 DEF TreeInv

LEMMA TreeInvStutters ==
  ASSUME TreeInv, UNCHANGED vars
  PROVE  TreeInv'
<1>1. UNCHANGED <<entry, data, job, cache, seen>>
  BY DEF vars, nodeVars
<1>2. NodeInv' /\ SeenOK' /\ CacheOK'
  BY <1>1 DEF TreeInv, NodeInv, TreeOK, JobsOK, JobOK, SeenOK, CacheOK, Busy
<1>3. Separate'
  BY <1>1 DEF TreeInv, Separate, Watched, Busy, Reading, ReadOnly, Scope, NamesOf
<1>4. ASSUME NEW w \in Procs PROVE Kept(w)'
  <2>1. View' = View
    BY <1>1 DEF View, ViewOf
  <2>2. Kept(w)
    BY DEF TreeInv
  <2>3. Moving(w)' => Moving(w)
    BY <1>1 DEF Moving, Watched, Busy, IntoItself, Into, Below
  <2> QED BY <1>1, <2>1, <2>2, <2>3 DEF Kept, KeptOf, Source, Below, Scope, NamesOf, Into
<1> QED BY <1>2, <1>3, <1>4 DEF TreeInv

\* The disks, the workers and what they know are as they should be at any time; a request that
\* met no rival has its names to itself; and a COPY or MOVE keeps its source while it may fail.
THEOREM NodeInvariant == TreeSpec => []TreeInv
<1>1. TreeInv /\ [TreeNext]_vars => TreeInv'
  BY TreeInvNext, TreeInvStutters
<1> QED BY <1>1, TreeInvInit, PTL DEF TreeSpec

\* A COPY or MOVE that is refused leaves its source as it was, however many system calls it and
\* the other workers made before, unless it was of a name onto or into itself, or met a request
\* that changes what it uses.  (mod_webdav.c 1926-2010: the source goes after the copy is made.)
THEOREM RefusedSourceKept == TreeSpec => []RefusedKeepsSource
<1>1. TreeInv => RefusedKeepsSource
  <2> SUFFICES ASSUME TreeInv, NEW w \in Procs, Undisturbed(w), job[w].req.method \in {"COPY", "MOVE"},
                      job[w].status >= 400, ~IntoItself(seen[w].before, job[w].req)
               PROVE  \A q \in Below(job[w].req.path) \cup {job[w].req.path} : View[q] = seen[w].before[q]
    BY DEF RefusedKeepsSource
  <2>1. Moving(w) /\ job[w].pc = "answer"
    BY DEF Undisturbed, Moving, Watched, Busy, Ranged
  <2>2. KeptOf(job[w], seen[w].before, View, entry)
    BY <2>1 DEF TreeInv, Kept
  <2> QED BY <2>1, <2>2 DEF KeptOf, Source
<1> QED BY <1>1, NodeInvariant, PTL

-------------------------------------------------------------------------------
\* What is cached is true

LEMMA ViewOfIs ==
  ASSUME NEW e \in Trees0, NEW d, NEW q \in Paths
  PROVE  \/ e[q] = Absent /\ ViewOf(e, d)[q] = Nothing
         \/ e[q] = Directory /\ ViewOf(e, d)[q] = Collection
         \/ e[q] \in Inodes /\ e[q] # Directory /\ e[q] # Absent /\ ViewOf(e, d)[q] = File(d[e[q]])
<1>1. e[q] \in Inodes \cup {Absent, Directory}
  BY DEF Trees0
<1>2. ViewOf(e, d)[q] = CASE e[q] = Absent -> Nothing [] e[q] = Directory -> Collection [] OTHER -> File(d[e[q]])
  BY DEF ViewOf
<1> QED BY <1>1, <1>2, NodeNumbers

LEMMA LongName ==
  ASSUME NEW p \in Paths
  PROVE  Len(p) # 1
<1>1. PICK n : n = Len(p)
  OBVIOUS
<1>2. n \in Nat /\ n > 1
  BY <1>1, PathsAre
<1>3. n # 1
  BY <1>2
<1> QED BY <1>1, <1>3

\* The size of what looks the same is the same.
LEMMA StatStays ==
  ASSUME NodeInv, NodeInv', NEW p \in Paths, View'[p] = View[p], entry[p] # Absent
  PROVE  entry'[p] # Absent /\ Stat(p)' = Stat(p)
<1>1. entry \in Trees0 /\ entry' \in Trees0
  BY DEF NodeInv, TreeOK
<1>2. View = ViewOf(entry, data) /\ View' = ViewOf(entry', data')
  BY DEF View
<1>3. Len(p) # 1
  BY LongName
<1>4. /\ Stat(p) = IF entry[p] = Directory THEN IsADir ELSE Len(data[entry[p]])
      /\ Stat(p)' = IF entry'[p] = Directory THEN IsADir ELSE Len(data'[entry'[p]])
  BY <1>3 DEF Stat, IsDir
<1>5. /\ Nothing.is = "absent" /\ Collection.is = "directory"
      /\ \A s : File(s).is = "file" /\ File(s).has = s
  BY DEF Nothing, Collection, File
<1>6. CASE entry[p] = Directory
  BY <1>1, <1>2, <1>4, <1>5, <1>6, ViewOfIs, NodeNumbers
<1>7. CASE entry[p] # Directory
  <2>1. entry[p] \in Inodes /\ View[p] = File(data[entry[p]])
    BY <1>1, <1>2, <1>7, ViewOfIs
  <2>2. entry'[p] \in Inodes /\ View'[p] = File(data'[entry'[p]])
    BY <1>1, <1>2, <1>5, <2>1, ViewOfIs
  <2>3. data[entry[p]] = data'[entry'[p]]
    BY <1>5, <2>1, <2>2
  <2> QED BY <1>4, <2>1, <2>2, <2>3, NodeNumbers
<1> QED BY <1>6, <1>7

\* What becomes of an entry of the cache.
LEMMA KnownIs ==
  ASSUME NodeInv, CacheOK, TreeNext, NEW w \in Procs, NEW k \in CacheKeys
  PROVE  \/ cache'[w][k] \in {cache[w][k], NotCached}
         \/ cache'[w][k] = [cache[w][k] EXCEPT !.fresh = FALSE]
         \/ /\ Busy(w) /\ Hash[job[w].req.path] = k /\ entry[job[w].req.path] # Absent /\ Unchanged
            /\ cache'[w][k] = Entered(w, job[w].req.path)
<1>1. \A v \in Procs : DOMAIN cache[v] = CacheKeys /\ v \in DOMAIN cache
  BY DEF CacheOK
<1>2. ASSUME NEW v \in Procs, NEW f, cache' = [cache EXCEPT ![v] = f]
      PROVE  cache'[w] = IF v = w THEN f ELSE cache[w]
  BY <1>1, <1>2
<1>3. ASSUME NEW v \in Procs, StatCached(v)
      PROVE  \/ cache'[w][k] = cache[w][k]
             \/ /\ Busy(w) /\ Hash[job[w].req.path] = k /\ entry[job[w].req.path] # Absent /\ Unchanged
                /\ cache'[w][k] = Entered(w, job[w].req.path)
  <2> DEFINE p == job[v].req.path
             x == Entered(v, p)
  <2>1. CASE UNCHANGED cache
    BY <2>1
  <2>2. CASE ~UNCHANGED cache
    <3>1. /\ entry[p] # Absent /\ cache' = [cache EXCEPT ![v][Hash[p]] = Entered(v, p)] /\ p \in Paths /\ Unchanged /\ Busy(v)
      BY <1>3, <2>2, StatCachedWorks, JobIs DEF Works
    <3>2. Hash[p] \in CacheKeys
      BY <3>1, CacheIs
    <3> HIDE DEF x, p
    <3>3. cache' = [cache EXCEPT ![v] = [cache[v] EXCEPT ![Hash[p]] = x]]
      BY <3>1 DEF x, p
    <3>4. cache'[w] = IF v = w THEN [cache[w] EXCEPT ![Hash[p]] = x] ELSE cache[w]
      BY <1>2, <3>3
    <3>5. CASE v = w /\ Hash[p] = k
      <4>1. cache'[w][k] = x
        BY <1>1, <3>4, <3>5
      <4> QED BY <3>1, <3>5, <4>1 DEF x, p
    <3>6. CASE v # w \/ Hash[p] # k
      BY <1>1, <3>4, <3>6
    <3> QED BY <3>5, <3>6
  <2> QED BY <2>1, <2>2
<1>4. ASSUME NEW v \in Procs, Dies(v) PROVE cache'[w][k] \in {cache[w][k], NotCached}
  <2>1. cache' = [cache EXCEPT ![v] = [l \in CacheKeys |-> NotCached]]
    BY <1>1, <1>4 DEF Dies
  <2> QED BY <1>2, <2>1
<1>5. ASSUME NEW v \in Procs, Second(v)
      PROVE  cache'[w][k] \in {cache[w][k], [cache[w][k] EXCEPT !.fresh = FALSE]}
  <2>1. cache' = [cache EXCEPT ![v] = [l \in CacheKeys |-> [cache[v][l] EXCEPT !.fresh = FALSE]]]
    BY <1>1, <1>5 DEF Second
  <2>2. cache'[w] = IF v = w THEN [l \in CacheKeys |-> [cache[v][l] EXCEPT !.fresh = FALSE]] ELSE cache[w]
    BY <1>2, <2>1
  <2>3. CASE v = w
    <3>1. cache'[w] = [l \in CacheKeys |-> [cache[w][l] EXCEPT !.fresh = FALSE]]
      BY <2>2, <2>3
    <3> QED BY <3>1
  <2> QED BY <2>2, <2>3
<1>6. ASSUME NEW v \in Procs, NEW l \in CacheKeys, Cleanup(v, l) PROVE cache'[w][k] \in {cache[w][k], NotCached}
  <2>1. cache' = [cache EXCEPT ![v] = [cache[v] EXCEPT ![l] = NotCached]]
    BY <1>1, <1>6 DEF Cleanup
  <2>2. cache'[w] = IF v = w THEN [cache[w] EXCEPT ![l] = NotCached] ELSE cache[w]
    BY <1>2, <2>1
  <2> QED BY <1>1, <2>2
<1> QED BY <1>1, <1>3, <1>4, <1>5, <1>6, CacheKinds DEF Clock

LEMMA StaleIs ==
  ASSUME Remember, NEW w \in Procs, NEW p \in Paths, cache'[w][Hash[p]].fresh, p \notin stale'[w]
  PROVE  p \notin stale[w] /\ View'[p] = View[p]
BY Zenon DEF Remember

LEMMA CacheTrueStays ==
  ASSUME DistinctHash, NodeInv, NodeInv', CacheOK, TreeNext, CacheTrue
  PROVE  CacheTrue'
<1> SUFFICES ASSUME NEW w \in Procs, NEW p \in Paths PROVE Truthful(w, p)'
  BY DEF CacheTrue
<1> DEFINE known == cache[w][Hash[p]]
           then == cache'[w][Hash[p]]
<1>1. Hash[p] \in CacheKeys /\ known \in CacheEntries
  BY CacheIs
<1>2. Truthful(w, p)
  BY DEF CacheTrue
<1>3. /\ known = NotCached \/ known.name = p
      /\ known.fresh => known.name = p
      /\ known.fresh /\ p \notin stale[w] => entry[p] # Absent /\ known.size = Stat(p)
  BY <1>2 DEF Truthful
<1>4. SUFFICES /\ then = NotCached \/ then.name = p
               /\ then.fresh => then.name = p
               /\ then.fresh /\ p \notin stale'[w] => entry'[p] # Absent /\ then.size = Stat(p)'
  BY DEF Truthful
<1>5. Remember
  BY NextKinds
<1>6. NotCached.fresh = FALSE /\ NotCached.name = <<>>
  BY DEF NotCached
<1>7. then.fresh /\ p \notin stale'[w] => p \notin stale[w] /\ View'[p] = View[p]
  BY <1>5, StaleIs
<1>8. CASE then = known
  BY <1>3, <1>7, <1>8, StatStays
<1>9. CASE then = NotCached
  BY <1>6, <1>9
<1>10. CASE then = [known EXCEPT !.fresh = FALSE]
  <2>1. then.fresh = FALSE /\ then.name = known.name
    BY <1>1, <1>10 DEF CacheEntries
  <2>2. known = NotCached => then = NotCached
    <3>1. ASSUME NEW e, known = [name |-> e, size |-> 0, fresh |-> FALSE]
          PROVE  then = [name |-> e, size |-> 0, fresh |-> FALSE]
      <4>1. known.fresh = FALSE /\ known = [f \in {"name", "size", "fresh"} |-> known[f]]
        BY <3>1
      <4> QED BY <1>10, <3>1, <4>1
    <3> QED BY <3>1 DEF NotCached
  <2> QED BY <1>3, <2>1, <2>2
<1>11. CASE /\ Busy(w) /\ Hash[job[w].req.path] = Hash[p] /\ entry[job[w].req.path] # Absent /\ Unchanged
            /\ then = Entered(w, job[w].req.path)
  <2>1. job[w].req.path = p
    BY <1>11, JobIs DEF DistinctHash
  <2>2. then.name = p /\ then.size = Stat(p) /\ entry[p] # Absent
    BY <1>3, <1>11, <2>1 DEF Entered
  <2>3. View' = View
    BY <1>11 DEF Unchanged, View, ViewOf
  <2> QED BY <2>2, <2>3, StatStays
<1> QED BY <1>1, <1>8, <1>9, <1>10, <1>11, KnownIs

-------------------------------------------------------------------------------
\* What is served is there

\* How far a GET or HEAD for p is, that does j; of what the tree has now.
ServedOf(j, p) ==
  /\ j.pc \in {"sendopen", "send"} =>
       /\ IsFile(p) /\ j.status = 200 /\ j.size = Len(data[entry[p]])
       /\ j.done < j.size /\ j.got = SubSeq(data[entry[p]], 1, j.done)
  /\ j.pc = "send" => j.fd = entry[p]
  /\ j.pc = "answer" => Answers(j, View[p])

LEMMA ServedIs ==
  ASSUME NEW w \in Procs
  PROVE  Served(w) <=>
           (Watched(w) /\ ReadOnly(job[w].req) =>
              /\ job[w].pc = "cache" => job[w].done = 0 /\ job[w].got = <<>>
              /\ ~seen[w].outdated => ServedOf(job[w], job[w].req.path))
BY DEF Served, ServedOf


LEMMA ServedStays ==
  ASSUME NodeInv, SeenOK, Remember, NEW w \in Procs, Served(w), Busy(w), Busy(w)', job'[w] = job[w],
         Watched(w) => \A q \in Scope(job[w].req) : Stays(q)
  PROVE  Served(w)'
<1> SUFFICES ASSUME Watched(w)', ReadOnly(job'[w].req)
             PROVE  /\ job'[w].pc = "cache" => job'[w].done = 0 /\ job'[w].got = <<>>
                    /\ ~seen'[w].outdated => ServedOf(job[w], job[w].req.path)'
  BY DEF Served, ServedOf, ReadOnly, IsFile
<1>1. Watched(w) /\ (~seen'[w].outdated => ~seen[w].outdated)
  BY SeenIs DEF Watched
<1>2. /\ job[w].pc = "cache" => job[w].done = 0 /\ job[w].got = <<>>
      /\ ~seen[w].outdated => ServedOf(job[w], job[w].req.path)
  BY <1>1, ServedIs
<1>3. job[w].req.path \in Paths /\ Stays(job[w].req.path)
  BY <1>1, JobIs
<1>4. View'[job[w].req.path] = View[job[w].req.path]
  BY <1>3, ViewStays
<1>5. ASSUME ServedOf(job[w], job[w].req.path) PROVE ServedOf(job[w], job[w].req.path)'
  <2> DEFINE p == job[w].req.path
             j == job[w]
  <2>1. /\ job'[w] = j /\ job'[w].req.path = p /\ entry'[p] = entry[p] /\ View'[p] = View[p]
        /\ entry[p] \in Inodes => data'[entry'[p]] = data[entry[p]]
    BY <1>3, <1>4 DEF Stays
  <2>2. /\ j.pc \in {"sendopen", "send"} =>
             /\ entry[p] \in Inodes /\ j.status = 200 /\ j.size = Len(data[entry[p]])
             /\ j.done < j.size /\ j.got = SubSeq(data[entry[p]], 1, j.done)
        /\ j.pc = "send" => j.fd = entry[p]
        /\ j.pc = "answer" => Answers(j, View[p])
    BY <1>5 DEF ServedOf, IsFile
  <2> HIDE DEF p, j
  <2>3. /\ j.pc \in {"sendopen", "send"} =>
             /\ entry'[p] \in Inodes /\ j.status = 200 /\ j.size = Len(data'[entry'[p]])
             /\ j.done < j.size /\ j.got = SubSeq(data'[entry'[p]], 1, j.done)
        /\ j.pc = "send" => j.fd = entry'[p]
        /\ j.pc = "answer" => Answers(j, View'[p])
    BY <2>1, <2>2
  <2> QED BY Zenon, <2>1, <2>3 DEF ServedOf, IsFile, p, Answers
<1> QED BY <1>1, <1>2, <1>5

\* The first look: in the cache, or at the disk.
LEMMA StatCachedServes ==
  ASSUME NodeInv, CacheOK, CacheTrue, NEW w \in Procs, StatCached(w), job[w].req.path \notin stale[w],
         job[w].done = 0, job[w].got = <<>>
  PROVE  ServedOf(job[w], job[w].req.path)'
<1> DEFINE p == job[w].req.path
           j == job'[w]
<1>1. /\ Works(w) /\ Unchanged
      /\ \/ /\ ~Hit(w, p) /\ entry[p] = Absent
            /\ j.pc = "answer" /\ j.status = 404
         \/ /\ Hit(w, p) \/ entry[p] # Absent
            /\ j.pc = IF job[w].req.method = "GET" /\ Found(w) > 0 THEN "sendopen" ELSE "answer"
            /\ j.status = IF Found(w) = IsADir THEN 301 ELSE 200
            /\ j.size = Found(w) /\ j.done = job[w].done /\ j.got = job[w].got
  BY StatCachedWorks
<1>2. p \in Paths /\ j.req = job[w].req /\ entry' = entry /\ data' = data
  BY <1>1, JobIs DEF Works, Unchanged
<1>3. View' = View
  BY <1>2 DEF View, ViewOf
<1>4. SUFFICES /\ j.pc \in {"sendopen", "send"} =>
                    /\ IsFile(p) /\ j.status = 200 /\ j.size = Len(data[entry[p]])
                    /\ j.done < j.size /\ j.got = SubSeq(data[entry[p]], 1, j.done)
               /\ j.pc = "send" => j.fd = entry[p]
               /\ j.pc = "answer" => Answers(j, View[p])
  BY <1>2, <1>3 DEF ServedOf, IsFile
<1>5. CASE ~Hit(w, p) /\ entry[p] = Absent /\ j.pc = "answer" /\ j.status = 404
  <2>1. View[p].is = "absent"
    BY <1>2, <1>5, ViewIs
  <2> QED BY <1>5, <2>1 DEF Answers
<1>6. CASE /\ Hit(w, p) \/ entry[p] # Absent
           /\ j.pc = IF job[w].req.method = "GET" /\ Found(w) > 0 THEN "sendopen" ELSE "answer"
           /\ j.status = IF Found(w) = IsADir THEN 301 ELSE 200
           /\ j.size = Found(w) /\ j.done = job[w].done /\ j.got = job[w].got
  <2>1. entry[p] # Absent /\ Found(w) = Stat(p)
    <3>1. CASE Hit(w, p)
      <4>1. Truthful(w, p)
        BY <1>2 DEF CacheTrue
      <4> QED BY <3>1, <4>1 DEF Truthful, Hit, Found
    <3>2. CASE ~Hit(w, p)
      BY <1>6, <3>2 DEF Found
    <3> QED BY <3>1, <3>2
  <2>2. PICK size \in Int : size = Stat(p)
    BY <1>2, <2>1, StatIs
  <2>3. /\ j.pc = IF job[w].req.method = "GET" /\ size > 0 THEN "sendopen" ELSE "answer"
        /\ j.status = IF size = -1 THEN 301 ELSE 200
        /\ j.size = size /\ j.done = 0 /\ j.got = <<>>
    BY <1>6, <2>1, <2>2, NodeNumbers
  <2>4. CASE entry[p] = Directory
    <3>1. size = -1 /\ View[p].is = "directory"
      BY <1>2, <2>1, <2>2, <2>4, StatIs, ViewIs, NodeNumbers
    <3> QED BY <2>3, <3>1 DEF Answers
  <2>5. CASE entry[p] # Directory
    <3>1. IsFile(p) /\ size = Len(data[entry[p]]) /\ size \in Nat
      BY <1>2, <2>1, <2>2, <2>5, StatIs
    <3>2. View[p].is = "file" /\ View[p].has = data[entry[p]] /\ data[entry[p]] \in Seq(Nat)
      BY <1>2, <3>1, ViewIs, TreeIs DEF IsFile
    <3>3. j.status = 200
      BY <2>3, <3>1
    <3>4. CASE j.pc = "sendopen"
      <4>1. size > 0
        BY <2>3, <3>4
      <4>2. <<>> = SubSeq(data[entry[p]], 1, 0)
        BY SubSeqEmpty
      <4>3. j.size = Len(data[entry[p]]) /\ j.done < j.size
        BY <2>3, <3>1, <4>1
      <4> QED BY <2>3, <3>1, <3>3, <3>4, <4>2, <4>3
    <3>5. CASE j.pc = "answer"
      <4>1. j.req.method = "GET" => ~(size > 0)
        BY <1>2, <2>3, <3>5
      <4>2. ASSUME j.req.method = "GET" PROVE data[entry[p]] = <<>>
        <5>1. size = 0
          BY <3>1, <4>1, <4>2
        <5> QED BY <3>1, <3>2, <5>1, EmptySeq
      <4> QED BY <2>3, <3>1, <3>2, <3>3, <3>5, <4>2 DEF Answers
    <3> QED BY <2>3, <3>4, <3>5
  <2> QED BY <2>4, <2>5
<1> QED BY <1>1, <1>5, <1>6

LEMMA OpenToSendServes ==
  ASSUME NodeInv, NEW w \in Procs, OpenToSend(w), ServedOf(job[w], job[w].req.path)
  PROVE  ServedOf(job[w], job[w].req.path)'
<1> DEFINE p == job[w].req.path
           j == job'[w]
<1>1. /\ Works(w) /\ Unchanged /\ job[w].pc = "sendopen"
      /\ \/ ~IsFile(p) /\ j.pc = "answer"
         \/ /\ IsFile(p) /\ j.pc = "send" /\ j.fd = entry[p] /\ j.status = job[w].status
            /\ j.size = job[w].size /\ j.done = job[w].done /\ j.got = job[w].got
  BY OpenToSendWorks
<1>2. entry' = entry /\ data' = data /\ j.req = job[w].req
  BY <1>1 DEF Works, Unchanged
<1> QED BY <1>1, <1>2 DEF ServedOf, IsFile

LEMMA SendBodyServes ==
  ASSUME NodeInv, NEW w \in Procs, NEW n, SendBody(w, n), ServedOf(job[w], job[w].req.path)
  PROVE  ServedOf(job[w], job[w].req.path)'
<1> DEFINE p == job[w].req.path
           j == job'[w]
           k == job[w]
<1>1. /\ Works(w) /\ Unchanged /\ k.pc = "send"
      /\ k.fd \in Inodes /\ k.size \in Int /\ k.done \in Nat
      /\ \/ k.size <= k.done \/ Len(data[k.fd]) <= k.done
         \/ /\ n \in Nat /\ n > 0 /\ k.done + n <= k.size /\ k.done + n <= Len(data[k.fd])
            /\ j.got = k.got \o SubSeq(data[k.fd], k.done + 1, k.done + n) /\ j.done = k.done + n
            /\ j.size = k.size /\ j.status = k.status
            /\ \/ k.done + n = k.size /\ j.pc = "answer"
               \/ k.done + n # k.size /\ j.pc = "send" /\ j.fd = k.fd
  BY SendBodyWorks
<1>2. entry' = entry /\ data' = data /\ j.req = job[w].req /\ p \in Paths
  BY <1>1, JobIs DEF Works, Unchanged
<1>3. PICK d : d = data[k.fd]
  OBVIOUS
<1>4. d \in Seq(Nat) /\ Len(d) \in Nat
  BY SMTT(30), <1>1, <1>3, TreeIs, LenProperties
<1>5. /\ IsFile(p) /\ k.status = 200 /\ k.size = Len(d) /\ k.done < k.size /\ k.fd = entry[p]
      /\ k.got = SubSeq(d, 1, k.done)
  BY <1>1, <1>3 DEF ServedOf
<1>6. PICK size, done, l : size = k.size /\ done = k.done /\ l = Len(d)
  OBVIOUS
<1>7. size \in Nat /\ done \in Nat /\ l = size /\ done < size
  BY ZenonT(60), <1>1, <1>4, <1>5, <1>6
<1>8. ~(size <= done) /\ ~(l <= done)
  BY <1>7
<1>9. /\ n \in Nat /\ n > 0 /\ k.done + n <= k.size
      /\ j.got = k.got \o SubSeq(d, k.done + 1, k.done + n) /\ j.done = k.done + n
      /\ j.size = k.size /\ j.status = k.status
      /\ \/ k.done + n = k.size /\ j.pc = "answer"
         \/ k.done + n # k.size /\ j.pc = "send" /\ j.fd = k.fd
  BY <1>1, <1>3, <1>6, <1>8
<1>10. j.got = SubSeq(d, 1, k.done + n)
  <2>1. 1 \in 1..Len(d) + 1 /\ k.done \in 1 - 1..Len(d) /\ k.done + n \in k.done..Len(d)
    <3>1. done + n <= size /\ n \in Nat
      BY <1>9, <1>6
    <3>2. 1 \in 1..l + 1 /\ done \in 1 - 1..l /\ done + n \in done..l
      BY <1>7, <3>1
    <3> QED BY <1>6, <3>2
  <2>2. SubSeq(d, 1, k.done) \o SubSeq(d, k.done + 1, k.done + n) = SubSeq(d, 1, k.done + n)
    BY <1>4, <2>1, ConcatAdjacentSubSeq
  <2> QED BY <1>5, <1>9, <2>2
<1>11. CASE k.done + n = k.size /\ j.pc = "answer"
  <2>1. j.got = d
    BY <1>4, <1>5, <1>10, <1>11, SubSeqFull
  <2>2. View[p].is = "file" /\ View[p].has = d
    BY <1>2, <1>3, <1>5, ViewIs DEF IsFile
  <2>3. View' = View
    BY SMTT(30), <1>2 DEF View, ViewOf
  <2> QED BY ZenonT(60), <1>2, <1>5, <1>9, <1>11, <2>1, <2>2, <2>3 DEF ServedOf, Answers
<1>12. CASE k.done + n # k.size /\ j.pc = "send" /\ j.fd = k.fd
  <2>1. j.done < j.size
    <3>1. done + n <= size /\ n \in Nat /\ done + n # size /\ j.done = done + n /\ j.size = size
      BY <1>9, <1>12, <1>6
    <3>2. done + n < size
      BY <1>7, <3>1
    <3> QED BY <3>1, <3>2
  <2> QED BY Zenon, <1>2, <1>3, <1>5, <1>9, <1>10, <1>12, <2>1 DEF ServedOf, IsFile
<1> QED BY <1>9, <1>11, <1>12

\* A GET or HEAD's next step.
LEMMA ServedOwn ==
  ASSUME NodeInv, CacheOK, SeenOK, CacheTrue, Remember, NEW w \in Procs, Served(w), WorkerStep(w)
  PROVE  Served(w)'
<1>1. Works(w) /\ (ReadOnly(job[w].req) => Reads(w))
  BY WorkerStepWorks
<1>2. Busy(w) /\ Busy(w)' /\ job'[w].req = job[w].req
  BY <1>1 DEF Works
<1> SUFFICES ASSUME Watched(w)', ReadOnly(job'[w].req)
             PROVE  /\ job'[w].pc = "cache" => job'[w].done = 0 /\ job'[w].got = <<>>
                    /\ ~seen'[w].outdated => ServedOf(job[w], job[w].req.path)'
  BY DEF Served, ServedOf, ReadOnly, IsFile
<1>3. /\ Watched(w)
      /\ ~seen'[w].outdated => ~seen[w].outdated /\ ~(job[w].pc = "cache" /\ job[w].req.path \in stale[w])
  BY <1>2, SeenIs DEF Watched
<1>4. /\ job[w].pc = "cache" => job[w].done = 0 /\ job[w].got = <<>>
      /\ ~seen[w].outdated => ServedOf(job[w], job[w].req.path)
  BY <1>2, <1>3, ServedIs
<1>5. Reads(w)
  BY <1>1, <1>2
<1>6. CASE StatCached(w)
  <2>1. job[w].pc = "cache" /\ job'[w].pc \in {"sendopen", "answer"}
    BY <1>6, StatCachedWorks
  <2> QED BY <1>3, <1>4, <1>6, <2>1, StatCachedServes
<1>7. CASE OpenToSend(w)
  <2>1. job'[w].pc \in {"answer", "send"}
    BY <1>7, OpenToSendWorks
  <2> QED BY <1>3, <1>4, <1>7, <2>1, OpenToSendServes
<1>8. CASE \E n \in 0..MaxBody : SendBody(w, n)
  <2>1. PICK n \in 0..MaxBody : SendBody(w, n)
    BY <1>8
  <2>2. job'[w].pc # "cache"
    BY <2>1, SendBodyWorks
  <2> QED BY <1>3, <1>4, <2>1, <2>2, SendBodyServes
<1> QED BY <1>5, <1>6, <1>7, <1>8 DEF Reads

LEMMA ServedStep ==
  ASSUME NodeInv, CacheOK, SeenOK, Separate, CacheTrue, Remember, NEW w \in Procs, Served(w), NEW u \in Procs, WorkerStep(u)
  PROVE  Served(w)'
<1>1. Foot(u) /\ Works(u) /\ (ReadOnly(job[u].req) => Unchanged)
  BY WorkerStepWorks
<1>2. CASE ~Busy(w)'
  <2>1. ~Watched(w)'
    BY <1>2 DEF Watched
  <2> QED BY <2>1 DEF Served
<1>3. CASE Busy(w)' /\ u # w
  <2>1. Busy(w) /\ job'[w] = job[w]
    BY <1>1, <1>3 DEF Works, Busy
  <2>2. Watched(w) => \A q \in Scope(job[w].req) : Stays(q)
    BY <1>1, <1>3, Quiet DEF Works
  <2> QED BY <1>3, <2>1, <2>2, ServedStays
<1>4. CASE u = w
  BY <1>4, ServedOwn
<1> QED BY <1>2, <1>3, <1>4

LEMMA ServedRests ==
  ASSUME NodeInv, SeenOK, Remember, Rests, NEW w \in Procs, Served(w)
  PROVE  Served(w)'
<1>1. CASE ~Busy(w)'
  <2>1. ~Watched(w)'
    BY <1>1 DEF Watched
  <2> QED BY <2>1 DEF Served
<1>2. CASE Busy(w)'
  <2>1. Busy(w) /\ job'[w] = job[w] /\ \A q \in Paths : Stays(q)
    BY <1>2 DEF Rests
  <2>2. \A q \in Scope(job[w].req) : Stays(q)
    BY <2>1, JobIs
  <2> QED BY <1>2, <2>1, <2>2, ServedStays
<1> QED BY <1>1, <1>2

LEMMA ServedTake ==
  ASSUME NodeInv, SeenOK, Remember, NEW u \in Procs, NEW r \in Load, Take(u, r), NEW w \in Procs, Served(w)
  PROVE  Served(w)'
<1>1. /\ (\A q \in Paths : Stays(q)) /\ ~Busy(u) /\ Busy(u)' /\ (\A v \in Procs : v # u => job'[v] = job[v])
      /\ job'[u].req = r /\ job'[u].pc = FirstCall(r) /\ job'[u].done = 0 /\ job'[u].got = <<>>
  BY TakeIs
<1>2. CASE w = u
  <2>1. ReadOnly(r) => job'[u].pc = "cache"
    BY <1>1 DEF FirstCall, ReadOnly
  <2> QED BY <1>1, <1>2, <2>1 DEF Served, ReadOnly
<1>3. CASE w # u /\ Busy(w)'
  <2>1. job'[w] = job[w] /\ Busy(w)
    BY <1>1, <1>3 DEF Busy
  <2>2. \A q \in Scope(job[w].req) : Stays(q)
    BY <1>1, <2>1, JobIs
  <2> QED BY <1>3, <2>1, <2>2, ServedStays
<1>4. CASE ~Busy(w)'
  <2>1. ~Watched(w)'
    BY <1>4 DEF Watched
  <2> QED BY <2>1 DEF Served
<1> QED BY <1>2, <1>3, <1>4, <1>1

LEMMA ServedAll ==
  ASSUME NodeInv, CacheOK, SeenOK, Separate, CacheTrue, TreeNext, \A w \in Procs : Served(w)
  PROVE  \A w \in Procs : Served(w)'
BY NextKinds, ServedStep, ServedRests, ServedTake, AnswerRests, ClockRests, DiesRests

LEMMA ServeInvInit ==
  ASSUME TreeInit
  PROVE  ServeInv
<1>1. \A w \in Procs : ~Busy(w)
  BY DEF TreeInit, NodeInit, Busy
<1>2. \A w \in Procs : Served(w)
  BY <1>1 DEF Served, Watched
<1>3. \A w \in Procs, p \in Paths : cache[w][Hash[p]] = NotCached
  BY DEF TreeInit, NodeInit
<1>4. NotCached.fresh = FALSE
  BY DEF NotCached
<1> QED BY <1>2, <1>3, <1>4, TreeInvInit DEF ServeInv, CacheTrue, Truthful

LEMMA ServeInvNext ==
  ASSUME DistinctHash, ServeInv, TreeNext
  PROVE  ServeInv'
<1>1. /\ TreeInv /\ CacheTrue /\ (\A w \in Procs : Served(w))
      /\ NodeInv /\ CacheOK /\ SeenOK /\ Separate
  BY DEF ServeInv, TreeInv
<1>2. TreeInv' /\ NodeInv'
  BY <1>1, TreeInvNext, NodeInvStays
<1>3. CacheTrue'
  BY <1>1, <1>2, CacheTrueStays
<1>4. \A w \in Procs : Served(w)'
  BY <1>1, ServedAll
<1> QED BY <1>2, <1>3, <1>4 DEF ServeInv

LEMMA ServeInvStutters ==
  ASSUME ServeInv, UNCHANGED vars
  PROVE  ServeInv'
<1>1. UNCHANGED <<entry, data, job, cache, stale, seen>>
  BY DEF vars, nodeVars
<1>2. TreeInv'
  BY TreeInvStutters DEF ServeInv
<1>3. View' = View
  BY <1>1 DEF View, ViewOf
<1>4. CacheTrue'
  BY <1>1 DEF ServeInv, CacheTrue, Truthful, Stat, IsDir
<1>5. \A w \in Procs : Served(w)'
  BY ZenonT(60), <1>1, <1>3 DEF ServeInv, Served, Watched, Busy, ReadOnly, IsFile, Answers
<1> QED BY <1>2, <1>4, <1>5 DEF ServeInv

\* What is served of a file that has not changed while its entry of the worker's stat cache
\* counted is the file: its size, and for a GET all of it, in however many pieces it is sent and
\* whatever the others do meanwhile to other files.  (stat_cache_get_entry, mod_staticfile: as
\* many bytes are sent as the cache says.)  Two names with one key, of which the cache would
\* mix up the results, are left out by DistinctHash.
THEOREM ServedAlwaysCurrent == ASSUME DistinctHash PROVE TreeSpec => []ServedIsCurrent
<1>1. ServeInv /\ [TreeNext]_vars => ServeInv'
  BY ServeInvNext, ServeInvStutters
<1>2. ServeInv => ServedIsCurrent
  <2> SUFFICES ASSUME ServeInv, NEW w \in Procs, Undisturbed(w), ReadOnly(job[w].req), ~seen[w].outdated
               PROVE  Answers(job[w], View[job[w].req.path])
    BY DEF ServedIsCurrent, Answers
  <2>1. Watched(w) /\ job[w].pc = "answer"
    BY DEF Undisturbed, Watched, Busy, ReadOnly, Ranged
  <2> QED BY <2>1 DEF ServeInv, Served
<1> QED BY <1>1, <1>2, ServeInvInit, PTL DEF TreeSpec

-------------------------------------------------------------------------------
\* What a name is in is a directory.
NestedIn(t) == \A p \in Paths : \A q \in Below(p) : t[q] # Absent => t[p] = Directory
Nested == NestedIn(entry)

-------------------------------------------------------------------------------
\* Names above and below

LEMMA UpTo ==
  ASSUME NEW q \in Paths, NEW n \in 2..Len(q)
  PROVE  /\ SubSeq(q, 1, n) \in Paths /\ Len(SubSeq(q, 1, n)) = n /\ IsPrefix(SubSeq(q, 1, n), q)
         /\ \A p \in Paths : IsPrefix(p, q) /\ Len(p) <= n => IsPrefix(p, SubSeq(q, 1, n))
<1>1. q \in Seq(STRING) /\ Len(q) \in Nat /\ n \in Nat /\ n <= Len(q) /\ 2 <= n
  BY PathsAre
<1>2. SubSeq(q, 1, n) \in Paths
  BY LoadAssumption
<1>3. \A i \in 1..n : q[i] \in STRING
  BY <1>1, ElementOfSeq
<1>4. PICK s : s = SubSeq(q, 1, n)
  OBVIOUS
<1>5. s \in Seq(STRING) /\ Len(s) = n /\ \A i \in 1..n : s[i] = q[i]
  <2>1. 1 \in Int /\ n \in Int /\ \A i \in 1..n : q[i] \in STRING
    BY <1>1, <1>3
  <2>2. /\ SubSeq(q, 1, n) \in Seq(STRING)
        /\ Len(SubSeq(q, 1, n)) = IF 1 <= n THEN n - 1 + 1 ELSE 0
        /\ \A i \in 1 .. n - 1 + 1 : SubSeq(q, 1, n)[i] = q[1 + i - 1]
    BY <2>1, SubSeqProperties
  <2> QED BY <1>1, <1>4, <2>2
<1>6. IsPrefix(s, q)
  BY <1>1, <1>5, PrefixIs
<1>7. ASSUME NEW p \in Paths, IsPrefix(p, q), Len(p) <= n PROVE IsPrefix(p, s)
  <2>1. p \in Seq(STRING) /\ Len(p) \in Nat
    BY PathsAre
  <2>2. \A i \in 1..Len(p) : p[i] = q[i]
    BY <1>1, <1>7, <2>1, PrefixIs
  <2>3. \A i \in 1..Len(p) : p[i] = s[i]
    BY <1>1, <1>5, <1>7, <2>1, <2>2
  <2> QED BY <1>5, <1>7, <2>1, <2>3, PrefixIs
<1> QED BY <1>2, <1>4, <1>5, <1>6, <1>7

\* A name below p is longer, and p is not below it.
LEMMA BelowIs ==
  ASSUME NEW p \in Paths, NEW q \in Below(p)
  PROVE  q \in Paths /\ q # p /\ IsPrefix(p, q) /\ Len(p) < Len(q) /\ ~IsPrefix(q, p) /\ Len(p) \in Nat /\ Len(q) \in Nat
<1>1. q \in Paths /\ q # p /\ IsPrefix(p, q)
  BY DEF Below
<1>2. /\ p \in Seq(STRING) /\ q \in Seq(STRING) /\ Len(p) \in Nat /\ Len(q) \in Nat
      /\ Len(p) <= Len(q) /\ \A i \in 1..Len(p) : p[i] = q[i]
  BY <1>1, PathsAre, PrefixIs
<1>3. Len(p) # Len(q)
  BY <1>1, <1>2, SeqEqual
<1>4. ~IsPrefix(q, p)
  BY <1>2, <1>3, PrefixIs
<1> QED BY <1>1, <1>2, <1>3, <1>4

\* Of what is below a directory, the name it is in or under.
LEMMA ChildOf ==
  ASSUME NEW p \in Paths, NEW q \in Below(p)
  PROVE  \E c \in Listed(p) : c = q \/ q \in Below(c)
<1>1. q \in Paths /\ q # p /\ IsPrefix(p, q) /\ Len(p) < Len(q) /\ Len(p) \in Nat /\ Len(q) \in Nat /\ Len(p) > 1
  BY BelowIs, PathsAre
<1>2. PICK n \in 2..Len(q) : n = Len(p) + 1
  BY <1>1
<1>3. PICK c : c = SubSeq(q, 1, n)
  OBVIOUS
<1>4. c \in Paths /\ Len(c) = n /\ IsPrefix(c, q) /\ \A x \in Paths : IsPrefix(x, q) /\ Len(x) <= n => IsPrefix(x, c)
  BY <1>1, <1>3, UpTo
<1>5. IsPrefix(p, c)
  BY <1>1, <1>2, <1>4
<1> QED BY <1>1, <1>2, <1>4, <1>5 DEF Listed, Below

LEMMA ChildrenCover ==
  ASSUME Nested, NodeInv, NEW p \in Paths, NEW q \in Below(p), entry[q] # Absent
  PROVE  \E c \in Children(p) : c = q \/ q \in Below(c)
<1>1. PICK c \in Listed(p) : c = q \/ q \in Below(c)
  BY ChildOf
<1>2. c \in Paths
  BY <1>1 DEF Listed
<1>3. entry[c] # Absent
  BY <1>1, <1>2, NodeNumbers DEF Nested, NestedIn
<1> QED BY <1>1, <1>3 DEF Listed, Children

\* The directory a name is in: of a device, it is no name and always there.
LEMMA InDirIs ==
  ASSUME NEW t \in Paths
  PROVE  \/ Len(t) = 2 /\ InDir(t) /\ \A p \in Paths : t \notin Below(p)
         \/ /\ Len(t) > 2 /\ Front(t) \in Paths /\ t \in Below(Front(t))
            /\ \A p \in Paths : t \in Below(p) => p = Front(t) \/ Front(t) \in Below(p)
            /\ InDir(t) <=> entry[Front(t)] = Directory
<1>1. Len(t) \in Nat /\ Len(t) > 1 /\ Front(t) = SubSeq(t, 1, Len(t) - 1)
  BY PathsAre DEF Front
<1>2. CASE Len(t) = 2
  <2>1. t \in Seq(STRING) /\ 1 \in Int /\ \A i \in 1..1 : t[i] \in STRING
    BY <1>2, PathsAre, ElementOfSeq
  <2>2. Len(SubSeq(t, 1, 1)) = 1
    BY <2>1, SubSeqProperties
  <2>3. InDir(t)
    BY <1>1, <1>2, <2>2 DEF InDir, IsDir
  <2>4. \A p \in Paths : t \notin Below(p)
    BY <1>2, BelowIs, PathsAre
  <2> QED BY <1>2, <2>3, <2>4
<1>3. CASE Len(t) > 2
  <2>1. PICK n \in 2..Len(t) : n = Len(t) - 1
    BY <1>1, <1>3
  <2>2. PICK f \in Paths : f = Front(t) /\ Len(f) = n /\ IsPrefix(f, t) /\ \A p \in Paths : IsPrefix(p, t) /\ Len(p) <= n => IsPrefix(p, f)
    BY <1>1, <2>1, UpTo
  <2>3. f # t /\ n # Len(t)
    BY <1>1, <2>1, <2>2
  <2>4. ASSUME NEW p \in Paths, t \in Below(p) PROVE p = f \/ f \in Below(p)
    <3>1. IsPrefix(p, t) /\ Len(p) <= n
      BY <1>1, <2>1, <2>4, BelowIs
    <3> QED BY <2>2, <3>1 DEF Below
  <2>5. InDir(t) <=> entry[f] = Directory
    BY <2>2, LongName DEF InDir, IsDir
  <2>6. t \in Below(f)
    BY <2>2, <2>3 DEF Below
  <2> QED BY <1>3, <2>2, <2>4, <2>5, <2>6
<1>4. Len(t) = 2 \/ Len(t) > 2
  <2>1. PICK n \in Nat : n = Len(t)
    BY <1>1
  <2>2. n > 1
    BY <1>1, <2>1
  <2>3. n = 2 \/ n > 2
    BY <2>2
  <2> QED BY <2>1, <2>3
<1> QED BY <1>2, <1>3, <1>4

LEMMA FrontIs ==
  ASSUME NEW t \in Paths, Len(t) > 2
  PROVE  Front(t) \in Paths /\ t \in Below(Front(t))
<1>1. PICK n : n = Len(t)
  OBVIOUS
<1>2. n > 2 /\ (n > 2 => n # 2)
  BY <1>1, PathsAre
<1> QED BY <1>1, <1>2, InDirIs

\* What is above a name that is in a directory.
LEMMA AboveIs ==
  ASSUME Nested, NEW t \in Paths, InDir(t), NEW p \in Paths, t \in Below(p)
  PROVE  entry[p] = Directory
<1>1. /\ Front(t) \in Paths /\ (p = Front(t) \/ Front(t) \in Below(p)) /\ entry[Front(t)] = Directory
  BY InDirIs
<1> QED BY <1>1, NodeNumbers DEF Nested, NestedIn

\* What exists is in a directory.
LEMMA ThereIs ==
  ASSUME Nested, NEW t \in Paths, entry[t] # Absent
  PROVE  InDir(t)
BY InDirIs DEF Nested, NestedIn

-------------------------------------------------------------------------------
\* The tree stays a tree

LEMMA NestedSame ==
  ASSUME Nested, \A q \in Paths : entry'[q] = entry[q]
  PROVE  Nested'
<1> SUFFICES ASSUME NEW p \in Paths, NEW q \in Below(p), entry'[q] # Absent PROVE entry'[p] = Directory
  BY DEF Nested, NestedIn, Below
<1>1. q \in Paths
  BY DEF Below
<1> QED BY <1>1 DEF Nested, NestedIn

\* A name goes that nothing is below.
LEMMA NestedGone ==
  ASSUME NodeInv, Nested, NEW t \in Paths, Children(t) = {} \/ entry[t] # Directory, entry' = [entry EXCEPT ![t] = Absent]
  PROVE  Nested'
<1> SUFFICES ASSUME NEW p \in Paths, NEW q \in Below(p), entry'[q] # Absent PROVE entry'[p] = Directory
  BY DEF Nested, NestedIn, Below
<1>1. q \in Paths
  BY DEF Below
<1>2. \A x \in Paths : entry'[x] = IF x = t THEN Absent ELSE entry[x]
  BY TreeIs DEF Trees0
<1>3. entry[q] # Absent
  BY <1>1, <1>2
<1>4. entry[p] = Directory
  BY <1>3 DEF Nested, NestedIn
<1>5. p # t
  BY <1>3, <1>4, ChildrenCover
<1> QED BY <1>2, <1>4, <1>5

\* A name is made, in a directory.
LEMMA NestedMade ==
  ASSUME NodeInv, Nested, NEW t \in Paths, InDir(t), NEW x, entry[t] # Directory \/ x = Directory,
         entry' = [entry EXCEPT ![t] = x]
  PROVE  Nested'
<1> SUFFICES ASSUME NEW p \in Paths, NEW q \in Below(p), entry'[q] # Absent PROVE entry'[p] = Directory
  BY DEF Nested, NestedIn, Below
<1>1. q \in Paths /\ q # p
  BY DEF Below
<1>2. \A y \in Paths : entry'[y] = IF y = t THEN x ELSE entry[y]
  BY TreeIs DEF Trees0
<1>3. CASE q = t
  BY <1>1, <1>2, <1>3, AboveIs
<1>4. CASE q # t
  <2>1. entry[p] = Directory
    BY <1>1, <1>2, <1>4 DEF Nested, NestedIn
  <2> QED BY <1>2, <2>1
<1> QED BY <1>3, <1>4

\* A file gets another name.
LEMMA NestedMoved ==
  ASSUME NodeInv, Nested, NEW p \in Paths, NEW t \in Paths, entry[p] \in Inodes, entry[t] # Directory, InDir(t),
         entry' = [Without(p) EXCEPT ![t] = entry[p]]
  PROVE  Nested'
<1> SUFFICES ASSUME NEW a \in Paths, NEW q \in Below(a), entry'[q] # Absent PROVE entry'[a] = Directory
  BY DEF Nested, NestedIn, Below
<1>1. q \in Paths /\ q # a
  BY DEF Below
<1>2. \A y \in Paths : entry'[y] = IF y = t THEN entry[p] ELSE IF y = p THEN Absent ELSE entry[y]
  BY TreeIs DEF Trees0, Without
<1>3. entry[a] = Directory
  <2>1. CASE q = t
    BY <1>1, <2>1, AboveIs
  <2>2. CASE q # t
    BY <1>1, <1>2, <2>2 DEF Nested, NestedIn
  <2> QED BY <2>1, <2>2
<1>4. a # t /\ a # p
  BY <1>3, NodeNumbers
<1> QED BY <1>2, <1>3, <1>4

\* What a step of a worker does to the names.
Grows(t, x) == InDir(t) /\ (entry[t] # Directory \/ x = Directory) /\ entry' = [entry EXCEPT ![t] = x]
Shrinks(t)  == (Children(t) = {} \/ entry[t] # Directory) /\ entry' = [entry EXCEPT ![t] = Absent]
Renames(p, t) == /\ entry[p] \in Inodes /\ entry[t] # Directory /\ InDir(t)
                 /\ entry' = [Without(p) EXCEPT ![t] = entry[p]]
Names == \/ entry' = entry
         \/ \E t \in Paths : Shrinks(t) \/ \E x : Grows(t, x)
         \/ \E p, t \in Paths : Renames(p, t)

LEMMA NestedNames ==
  ASSUME NodeInv, Nested, Names
  PROVE  Nested'
BY NestedSame, NestedGone, NestedMade, NestedMoved DEF Names, Grows, Shrinks, Renames

LEMMA BecomesNames ==
  ASSUME NEW e, NEW d, Becomes(e, d)
  PROVE  entry' = e
BY DEF Becomes

LEMMA RefusalNot ==
  ASSUME NodeInv, Nested, NEW p \in Paths, NEW t \in Paths, NEW o, Refusal(p, t, o) = 0
  PROVE  /\ IsFile(p) /\ data[entry[p]] # <<>> /\ InDir(t) /\ entry[t] # Directory /\ (entry[t] # Absent => o)
<1>1. IsDir(t) <=> entry[t] = Directory
  BY IsDirIs
<1> QED BY <1>1, ThereIs DEF Refusal

LEMMA StepNames ==
  ASSUME NodeInv, Nested, NEW w \in Procs, WorkerStep(w)
  PROVE  Names
<1>1. Busy(w)
  BY Zenon DEF WorkerStep, OpenForPut, CreateForPut, WriteBody, WriteFails, MakeCollection, StatForDelete, Unlink,
     DeleteChild, RemoveInner, RemoveOuter, StatSource, StatDestination, Rename, OpenForCopy, WriteCopy, CopyFails,
     UnlinkSource, MakeDestination, CopyChild, CopiedDir, StatCached, OpenToSend, SendBody, At, Busy
<1>2. JobOK(job[w]) /\ job[w].req \in Load /\ job[w].req.path \in Paths /\ job[w].req.to \in Paths /\ Scope(job[w].req) \subseteq Paths
  BY <1>1, JobIs
<1>3. Unchanged => Names
  BY DEF Unchanged, Names
<1>4. \A d : Becomes(entry, d) => Names
  BY BecomesNames DEF Names
<1>5. ASSUME OpenForPut(w) \/ (\E n \in 1..MaxBody : WriteBody(w, n)) \/ WriteFails(w) \/ StatForDelete(w) \/ StatSource(w)
             \/ StatDestination(w) \/ (\E n \in 1..MaxBody : WriteCopy(w, n)) \/ CopyFails(w) \/ CopiedDir(w) \/ StatCached(w)
             \/ OpenToSend(w) \/ (\E n \in 0..MaxBody : SendBody(w, n))
      PROVE  Names
  BY Zenon, <1>3, <1>4, <1>5 DEF OpenForPut, WriteBody, WriteFails, StatForDelete, StatSource, StatDestination, WriteCopy, CopyFails,
     CopiedDir, StatCached, OpenToSend, SendBody
<1>6. \A t \in Paths : IsDir(t) <=> entry[t] = Directory
  BY IsDirIs
<1>7. \A t \in Paths : IsFile(t) => entry[t] # Directory /\ entry[t] # Absent
  BY NodeNumbers DEF IsFile
<1>8. ASSUME CreateForPut(w) \/ MakeCollection(w) PROVE Names
  <2>1. CASE CreateForPut(w)
    <3>1. \/ Unchanged
          \/ entry[job[w].req.path] = Absent /\ InDir(job[w].req.path) /\ entry' = [entry EXCEPT ![job[w].req.path] = NewInode]
      BY <2>1, BecomesNames DEF CreateForPut
    <3> QED BY <1>2, <1>3, <3>1, NodeNumbers DEF Names, Grows
  <2>2. CASE MakeCollection(w)
    <3>1. \/ Unchanged
          \/ entry[job[w].req.path] = Absent /\ InDir(job[w].req.path) /\ entry' = [entry EXCEPT ![job[w].req.path] = Directory]
      BY <2>2, BecomesNames DEF MakeCollection
    <3> QED BY <1>2, <1>3, <3>1, NodeNumbers DEF Names, Grows
  <2> QED BY <1>8, <2>1, <2>2
<1>9. ASSUME Unlink(w) \/ UnlinkSource(w) PROVE Names
  <2>1. \/ Unchanged
        \/ IsFile(job[w].req.path) /\ entry' = [entry EXCEPT ![job[w].req.path] = Absent]
    BY <1>9, BecomesNames DEF Unlink, UnlinkSource, Without
  <2> QED BY <1>2, <1>3, <1>7, <2>1 DEF Names, Shrinks
<1>10. ASSUME NEW c \in Paths, DeleteChild(w, c) \/ RemoveInner(w, c) PROVE Names
  <2>1. \/ Unchanged
        \/ (IsFile(c) \/ Children(c) = {}) /\ entry' = [entry EXCEPT ![c] = Absent]
    BY <1>10, BecomesNames DEF DeleteChild, RemoveInner, Without
  <2> QED BY <1>3, <1>7, <2>1 DEF Names, Shrinks
<1>11. ASSUME RemoveOuter(w) PROVE Names
  <2>1. \/ Unchanged
        \/ Children(job[w].req.path) = {} /\ entry' = [entry EXCEPT ![job[w].req.path] = Absent]
    BY <1>11, BecomesNames DEF RemoveOuter, Without
  <2> QED BY <1>2, <1>3, <2>1 DEF Names, Shrinks
<1>12. ASSUME Rename(w) PROVE Names
  <2>1. job[w].to \in Paths
    BY <1>1, <1>2, <1>12 DEF JobOK, Rename, At
  <2>2. \/ Unchanged
        \/ entry' = entry
        \/ /\ IsFile(job[w].req.path) /\ ~IsDir(job[w].to) /\ InDir(job[w].to)
           /\ entry' = [Without(job[w].req.path) EXCEPT ![job[w].to] = entry[job[w].req.path]]
    BY <1>12, BecomesNames DEF Rename
  <2> QED BY <1>2, <1>3, <1>6, <2>1, <2>2 DEF Names, Renames, IsFile
<1>13. ASSUME OpenForCopy(w) PROVE Names
  <2>1. job[w].to \in Paths
    BY <1>1, <1>2, <1>13 DEF JobOK, OpenForCopy, At
  <2>2. \/ Unchanged
        \/ /\ Refusal(job[w].req.path, job[w].to, job[w].req.overwrite) = 0
           /\ \E x : entry' = [entry EXCEPT ![job[w].to] = x]
    BY <1>13, BecomesNames DEF OpenForCopy
  <2> QED BY <1>2, <1>3, <2>1, <2>2, RefusalNot DEF Names, Grows
<1>14. ASSUME MakeDestination(w) PROVE Names
  <2>1. \/ Unchanged
        \/ InDir(job[w].req.to) /\ entry' = [entry EXCEPT ![job[w].req.to] = Directory]
    BY <1>14, BecomesNames DEF MakeDestination
  <2> QED BY <1>2, <1>3, <2>1 DEF Names, Grows
<1>15. ASSUME NEW c \in Paths, CopyChild(w, c) PROVE Names
  <2>1. PICK t : t = Append(job[w].req.to, Last(c))
    OBVIOUS
  <2>2. t \in Paths
    <3>1. c \in Listed(job[w].req.path) /\ job[w].req.method \in {"COPY", "MOVE"}
      BY <1>2, <1>15 DEF CopyChild, At, JobOK
    <3> QED BY <1>2, <2>1, <3>1, CopyNames
  <2>3. \/ Unchanged
        \/ \E d : Becomes(entry, d)
        \/ entry[t] = Absent /\ InDir(t) /\ entry' = [entry EXCEPT ![t] = Directory]
        \/ Refusal(c, t, job[w].req.overwrite) = 0 /\ \E x : entry' = [entry EXCEPT ![t] = x]
    BY <1>15, <2>1, BecomesNames DEF CopyChild
  <2> QED BY <1>3, <1>4, <2>2, <2>3, RefusalNot DEF Names, Grows
<1> QED BY Zenon, <1>5, <1>8, <1>9, <1>10, <1>11, <1>12, <1>13, <1>14, <1>15 DEF WorkerStep

LEMMA NestedStays ==
  ASSUME NodeInv, CacheOK, Nested, TreeNext
  PROVE  Nested'
<1>1. Rests => Nested'
  BY NestedSame DEF Rests, Stays
<1>2. \A w \in Procs, r \in Load : Take(w, r) => Nested'
  BY NestedSame, TakeIs DEF Stays
<1> QED BY <1>1, <1>2, NextKinds, StepNames, NestedNames, AnswerRests, ClockRests, DiesRests

-------------------------------------------------------------------------------
\* What a step does to what can be seen

Puts(t, x) == \A q \in Paths : View'[q] = IF q = t THEN x ELSE View[q]
Shows      == \A q \in Paths : View'[q] = View[q]

LEMMA ShowsUnchanged ==
  ASSUME Unchanged
  PROVE  Shows
BY DEF Unchanged, Shows, View, ViewOf

\* The view of a tree that became t with contents d.
LEMMA BecomesView ==
  ASSUME NodeInv, NEW t \in Trees0, NoLinks(t), NEW d \in [Inodes -> Seq(Nat)], Becomes(t, d)
  PROVE  entry' = t /\ \A q \in Paths : View'[q] = ViewOf(t, d)[q]
<1>1. entry' = t /\ TreeOK' /\ \A q \in Paths : t[q] \in Inodes => data'[t[q]] = d[t[q]]
  BY BecomesIs
<1>2. View' = ViewOf(t, data')
  BY <1>1 DEF View
<1>3. ASSUME NEW q \in Paths PROVE ViewOf(t, data')[q] = ViewOf(t, d)[q]
  <2>1. CASE t[q] \in Inodes
    <3>1. data'[t[q]] = d[t[q]]
      BY <1>1, <2>1
    <3> QED BY <3>1 DEF ViewOf
  <2>2. CASE t[q] \in {Absent, Directory}
    BY <2>2, NodeNumbers DEF ViewOf
  <2> QED BY <2>1, <2>2 DEF Trees0
<1> QED BY <1>1, <1>2, <1>3

LEMMA ShowsSame ==
  ASSUME NodeInv, Becomes(entry, data)
  PROVE  Shows
<1>1. \A q \in Paths : View'[q] = ViewOf(entry, data)[q]
  BY TreeIs, BecomesView
<1> QED BY <1>1 DEF Shows, View

LEMMA PutsName ==
  ASSUME NodeInv, NEW t \in Paths, NEW x \in {Absent, Directory}, Becomes([entry EXCEPT ![t] = x], data)
  PROVE  Puts(t, IF x = Absent THEN Nothing ELSE Collection) /\ entry' = [entry EXCEPT ![t] = x]
<1>1. PICK n : n = [entry EXCEPT ![t] = x]
  OBVIOUS
<1>2. entry \in Trees0 /\ NoLinks(entry) /\ data \in [Inodes -> Seq(Nat)]
  BY TreeIs
<1>3. n \in Trees0 /\ \A q \in Paths : n[q] = IF q = t THEN x ELSE entry[q]
  BY <1>1, <1>2 DEF Trees0
<1>4. NoLinks(n)
  BY <1>2, <1>3, NodeNumbers DEF NoLinks
<1>5. entry' = n /\ \A q \in Paths : View'[q] = ViewOf(n, data)[q]
  BY <1>1, <1>2, <1>3, <1>4, BecomesView
<1>6. ASSUME NEW q \in Paths PROVE View'[q] = IF q = t THEN (IF x = Absent THEN Nothing ELSE Collection) ELSE View[q]
  <2>1. n[q] = IF q = t THEN x ELSE entry[q]
    BY <1>3
  <2> QED BY <1>5, <2>1, NodeNumbers DEF View, ViewOf
<1> QED BY <1>1, <1>5, <1>6 DEF Puts

LEMMA PutsFile ==
  ASSUME NodeInv, NEW t \in Paths, NEW i \in Inodes, Free(i) \/ entry[t] = i, NEW s \in Seq(Nat),
         Becomes([entry EXCEPT ![t] = i], [data EXCEPT ![i] = s])
  PROVE  Puts(t, File(s)) /\ entry' = [entry EXCEPT ![t] = i]
<1>1. PICK n : n = [entry EXCEPT ![t] = i]
  OBVIOUS
<1>2. PICK d : d = [data EXCEPT ![i] = s]
  OBVIOUS
<1>3. entry \in Trees0 /\ NoLinks(entry) /\ data \in [Inodes -> Seq(Nat)]
  BY TreeIs
<1>4. n \in Trees0 /\ \A q \in Paths : n[q] = IF q = t THEN i ELSE entry[q]
  BY <1>1, <1>3 DEF Trees0
<1>5. \A q \in Paths : q # t => entry[q] # i
  BY <1>3 DEF NoLinks, Free
<1>6. NoLinks(n)
  BY <1>3, <1>4, <1>5 DEF NoLinks
<1>7. d \in [Inodes -> Seq(Nat)] /\ \A k \in Inodes : d[k] = IF k = i THEN s ELSE data[k]
  BY <1>2, <1>3
<1>8. entry' = n /\ \A q \in Paths : View'[q] = ViewOf(n, d)[q]
  BY Zenon, <1>1, <1>2, <1>4, <1>6, <1>7, BecomesView
<1>9. i # Absent /\ i # Directory
  BY NodeNumbers
<1>10. ASSUME NEW q \in Paths PROVE ViewOf(n, d)[q] = IF q = t THEN File(s) ELSE ViewOf(entry, data)[q]
  <2>1. CASE q = t
    BY <1>4, <1>7, <1>9, <2>1 DEF ViewOf
  <2>2. CASE q # t /\ entry[q] \in Inodes
    <3>1. d[n[q]] = data[entry[q]] /\ n[q] = entry[q]
      BY <1>4, <1>5, <1>7, <2>2
    <3> QED BY <2>2, <3>1 DEF ViewOf
  <2>3. CASE q # t /\ entry[q] \in {Absent, Directory}
    BY <1>4, <2>3, NodeNumbers DEF ViewOf
  <2> QED BY <1>3, <2>1, <2>2, <2>3 DEF Trees0
<1> QED BY <1>1, <1>8, <1>10 DEF Puts, View

\* A file is written to.
LEMMA PutsData ==
  ASSUME NodeInv, NEW t \in Paths, NEW i \in Inodes, entry[t] = i, NEW s \in Seq(Nat),
         Becomes(entry, [data EXCEPT ![i] = s])
  PROVE  Puts(t, File(s)) /\ entry' = entry
<1>1. entry = [entry EXCEPT ![t] = i]
  BY TreeIs DEF Trees0
<1>2. Becomes([entry EXCEPT ![t] = i], [data EXCEPT ![i] = s])
  BY <1>1
<1>3. Puts(t, File(s)) /\ entry' = [entry EXCEPT ![t] = i]
  BY <1>2, PutsFile
<1> QED BY <1>1, <1>3

\* The same, by name.
Filled(i, s) == Becomes(entry, [data EXCEPT ![i] = s])

LEMMA PutsFilled ==
  ASSUME NodeInv, NEW t \in Paths, NEW i \in Inodes, entry[t] = i, NEW s \in Contents, Filled(i, s)
  PROVE  Puts(t, File(s)) /\ entry' = entry
BY PutsData DEF Filled, Contents

LEMMA PutsFiled ==
  ASSUME NodeInv, NEW t \in Paths, NEW i \in Inodes, Free(i) \/ entry[t] = i, NEW s \in Contents, Filed(t, i, s)
  PROVE  Puts(t, File(s)) /\ entry' = [entry EXCEPT ![t] = i]
BY PutsFile DEF Filed, Contents

LEMMA PutsNamed ==
  ASSUME NodeInv, NEW t \in Paths, NEW x \in {Absent, Directory}, Named(t, x)
  PROVE  Puts(t, IF x = Absent THEN Nothing ELSE Collection) /\ entry' = [entry EXCEPT ![t] = x]
BY PutsName DEF Named

\* A file is renamed.
LEMMA PutsRename ==
  ASSUME NodeInv, NEW p \in Paths, NEW t \in Paths, p # t, entry[p] \in Inodes,
         Becomes([Without(p) EXCEPT ![t] = entry[p]], data)
  PROVE  \A q \in Paths : View'[q] = IF q = t THEN View[p] ELSE IF q = p THEN Nothing ELSE View[q]
<1>1. PICK n : n = [Without(p) EXCEPT ![t] = entry[p]]
  OBVIOUS
<1>2. entry \in Trees0 /\ NoLinks(entry) /\ data \in [Inodes -> Seq(Nat)]
  BY TreeIs
<1>3. n \in Trees0 /\ \A q \in Paths : n[q] = IF q = t THEN entry[p] ELSE IF q = p THEN Absent ELSE entry[q]
  BY <1>1, <1>2 DEF Trees0, Without
<1>4. NoLinks(n)
  BY <1>2, <1>3, NodeNumbers DEF NoLinks
<1>5. entry' = n /\ \A q \in Paths : View'[q] = ViewOf(n, data)[q]
  BY <1>1, <1>2, <1>3, <1>4, BecomesView
<1> SUFFICES ASSUME NEW q \in Paths PROVE View'[q] = IF q = t THEN View[p] ELSE IF q = p THEN Nothing ELSE View[q]
  OBVIOUS
<1>6. n[q] = IF q = t THEN entry[p] ELSE IF q = p THEN Absent ELSE entry[q]
  BY <1>3
<1> QED BY <1>5, <1>6, NodeNumbers DEF View, ViewOf

\* What could be seen when a request came.
Past(b) == \E e \in Trees0, d \in [Inodes -> Seq(Nat)] : NestedIn(e) /\ b = ViewOf(e, d)

LEMMA PastIs ==
  ASSUME NEW b, Past(b)
  PROVE  /\ DOMAIN b = Paths
         /\ \A q \in Paths : \/ b[q] = Nothing /\ b[q].is = "absent"
                             \/ b[q] = Collection /\ b[q].is = "directory"
                             \/ b[q].is = "file" /\ b[q] = File(b[q].has) /\ b[q].has \in Seq(Nat)
         /\ \A p \in Paths : b[p] # Collection => \A q \in Below(p) : b[q] = Nothing
<1>1. PICK e \in Trees0, d \in [Inodes -> Seq(Nat)] : NestedIn(e) /\ b = ViewOf(e, d)
  BY DEF Past
<1>2. DOMAIN b = Paths
  BY <1>1 DEF ViewOf
<1>3. /\ Nothing.is = "absent" /\ Collection.is = "directory"
      /\ \A s : File(s).is = "file" /\ File(s).has = s
  BY DEF Nothing, Collection, File
<1>4. \A q \in Paths : \/ e[q] = Absent /\ b[q] = Nothing
                       \/ e[q] = Directory /\ b[q] = Collection
                       \/ e[q] \in Inodes /\ e[q] # Directory /\ e[q] # Absent /\ b[q] = File(d[e[q]])
  BY <1>1, ViewOfIs
<1>5. \A q \in Paths : e[q] \in Inodes => d[e[q]] \in Seq(Nat)
  BY <1>1
<1>6. ASSUME NEW p \in Paths, b[p] # Collection, NEW q \in Below(p) PROVE b[q] = Nothing
  <2>1. q \in Paths
    BY DEF Below
  <2>2. e[p] # Directory
    BY <1>4, <1>6, NodeNumbers
  <2>3. e[q] = Absent
    BY <1>1, <2>2 DEF NestedIn
  <2> QED BY <1>4, <2>1, <2>3, NodeNumbers
<1> QED BY <1>2, <1>3, <1>4, <1>5, <1>6

LEMMA NowIsPast ==
  ASSUME NodeInv, Nested
  PROVE  Past(View)
BY TreeIs DEF Past, Nested, View

-------------------------------------------------------------------------------
\* What a COPY or MOVE is to leave

LEMMA ListedIs ==
  ASSUME NEW p \in Paths, NEW c \in Listed(p)
  PROVE  c \in Paths /\ c \in Below(p) /\ c # p /\ c = Append(p, Last(c)) /\ Last(c) \in STRING
<1>1. c \in Paths /\ Len(c) = Len(p) + 1 /\ IsPrefix(p, c)
  BY DEF Listed
<1>2. p \in Seq(STRING) /\ c \in Seq(STRING) /\ Len(p) \in Nat /\ Last(c) \in STRING /\ Last(c) = c[Len(c)]
  BY <1>1, PathsAre, LastIs DEF Last
<1>3. \A i \in 1..Len(p) : p[i] = c[i]
  BY <1>1, <1>2, PrefixIs
<1>4. c \in Below(p) /\ c # p
  BY <1>1, <1>2 DEF Below
<1>5. PICK x : x = Last(c)
  OBVIOUS
<1>6. PICK a : a = Append(p, x)
  OBVIOUS
<1>7. a \in Seq(STRING) /\ Len(a) = Len(p) + 1 /\ (\A i \in 1..Len(p) : a[i] = p[i]) /\ a[Len(p) + 1] = x
  <2>1. x \in STRING /\ p \in Seq(STRING)
    BY <1>2, <1>5
  <2>2. Append(p, x) \in Seq(STRING) /\ Len(Append(p, x)) = Len(p) + 1
    BY <2>1, AppendProperties
  <2>3. \A i \in 1..Len(p) : Append(p, x)[i] = p[i]
    BY <2>1, AppendProperties
  <2>4. Append(p, x)[Len(p) + 1] = x
    BY <2>1, AppendProperties
  <2> QED BY Zenon, <1>6, <2>2, <2>3, <2>4
<1>8. ASSUME NEW i \in 1..Len(a) PROVE a[i] = c[i]
  <2>1. i \in 1..Len(p) \/ i = Len(p) + 1
    BY <1>2, <1>7
  <2> QED BY <1>1, <1>2, <1>3, <1>5, <1>7, <2>1
<1>9. a = c
  BY <1>1, <1>2, <1>7, <1>8, SeqEqual
<1> QED BY <1>1, <1>2, <1>4, <1>5, <1>6, <1>9

\* Two names of a listing are copied to two names.
LEMMA TargetsDiffer ==
  ASSUME NEW p \in Paths, NEW t \in Paths, NEW c \in Listed(p), NEW d \in Listed(p), Append(t, Last(c)) = Append(t, Last(d))
  PROVE  c = d
<1>1. Last(c) \in STRING /\ Last(d) \in STRING /\ c = Append(p, Last(c)) /\ d = Append(p, Last(d)) /\ t \in Seq(STRING)
  BY ListedIs, PathsAre
<1>2. Append(t, Last(c))[Len(t) + 1] = Last(c) /\ Append(t, Last(d))[Len(t) + 1] = Last(d)
  BY <1>1, AppendProperties
<1> QED BY <1>1, <1>2

\* What a name is a copy of; several copies of one name are copies of one thing.
LEMMA CopiedAt ==
  ASSUME NEW b, NEW r, NEW q \in Paths
  PROVE  /\ (\A m \in Copies(b, r, Into(b, r)) : m[2] # q) => Copied(b, r)[q] = b[q]
         /\ \A m \in Copies(b, r, Into(b, r)) :
              m[2] = q /\ (\A n \in Copies(b, r, Into(b, r)) : n[2] = q => n[1] = m[1]) => Copied(b, r)[q] = b[m[1]]
<1>1. PICK made : made = Copies(b, r, Into(b, r))
  OBVIOUS
<1>2. Copied(b, r)[q] = IF \E m \in made : m[2] = q THEN b[(CHOOSE m \in made : m[2] = q)[1]] ELSE b[q]
  BY <1>1 DEF Copied
<1>3. (\A m \in made : m[2] # q) => Copied(b, r)[q] = b[q]
  BY <1>2
<1>4. ASSUME NEW m \in made, m[2] = q, \A n \in made : n[2] = q => n[1] = m[1] PROVE Copied(b, r)[q] = b[m[1]]
  <2>1. PICK k : k = CHOOSE n \in made : n[2] = q
    OBVIOUS
  <2>2. k \in made /\ k[2] = q
    BY <1>4, <2>1
  <2>3. Copied(b, r)[q] = b[k[1]]
    BY <1>2, <1>4, <2>1
  <2> QED BY <1>4, <2>2, <2>3
<1> QED BY <1>1, <1>3, <1>4

LEMMA CopiesAre ==
  ASSUME NEW b, NEW r, r.path \in Paths, NEW t, NEW m
  PROVE  m \in Copies(b, r, t) <=> \/ m = <<r.path, t>>
                                   \/ \E c \in Listed(r.path) : b[c] # Nothing /\ m = <<c, Append(t, Last(c))>>
<1>1. {q \in Below(r.path) : Len(q) = Len(r.path) + 1 /\ b[q] # Nothing} = {c \in Listed(r.path) : b[c] # Nothing}
  <2>1. \A c \in Listed(r.path) : c \in Below(r.path)
    BY ListedIs
  <2> QED BY <2>1 DEF Below, Listed
<1>2. Copies(b, r, t) = {<<r.path, t>>} \cup {<<c, Append(t, Last(c))>> : c \in {x \in Listed(r.path) : b[x] # Nothing}}
  BY <1>1 DEF Copies
<1> QED BY <1>2

\* A copy of a file makes one name.
LEMMA CopiedOfFile ==
  ASSUME NEW r \in Load, NEW b, Past(b), b[r.path].is = "file", NEW q \in Paths
  PROVE  Copied(b, r)[q] = IF q = Into(b, r) THEN b[r.path] ELSE b[q]
<1>1. r.path \in Paths
  BY RequestIs
<1>2. \A c \in Listed(r.path) : b[c] = Nothing
  <2>1. b[r.path] # Collection
    BY DEF Collection
  <2> QED BY <1>1, <2>1, PastIs, ListedIs
<1>3. \A m : m \in Copies(b, r, Into(b, r)) <=> m = <<r.path, Into(b, r)>>
  BY <1>1, <1>2, CopiesAre
<1>4. PICK m : m = <<r.path, Into(b, r)>>
  OBVIOUS
<1>5. m[1] = r.path /\ m[2] = Into(b, r)
  BY <1>4
<1>6. CASE q = Into(b, r)
  <2>1. m \in Copies(b, r, Into(b, r)) /\ m[2] = q /\ \A n \in Copies(b, r, Into(b, r)) : n[1] = m[1]
    BY <1>3, <1>4, <1>6, <1>5
  <2> QED BY <1>6, <1>5, <2>1, CopiedAt
<1>7. CASE q # Into(b, r)
  <2>1. \A n \in Copies(b, r, Into(b, r)) : n[2] # q
    BY <1>3, <1>4, <1>7
  <2> QED BY <1>7, <2>1, CopiedAt
<1> QED BY <1>6, <1>7

\* A copy of a directory makes its destination a directory, and names in it.
LEMMA CopiedOfDir ==
  ASSUME NEW r \in Load, r.method \in {"COPY", "MOVE"}, NEW b, Past(b), b[r.path] = Collection
  PROVE  /\ Into(b, r) = r.to /\ Copied(b, r)[r.to] = Collection
         /\ \A c \in Listed(r.path) : b[c] # Nothing => Copied(b, r)[Append(r.to, Last(c))] = b[c]
         /\ \A q \in Paths : q = r.to \/ (\E c \in Listed(r.path) : b[c] # Nothing /\ q = Append(r.to, Last(c)))
                             \/ Copied(b, r)[q] = b[q]
<1>1. r.path \in Paths /\ r.to \in Paths
  BY RequestIs
<1>2. Into(b, r) = r.to
  BY DEF Into, Collection
<1>3. \A m : m \in Copies(b, r, r.to) <=> \/ m = <<r.path, r.to>>
                                          \/ \E c \in Listed(r.path) : b[c] # Nothing /\ m = <<c, Append(r.to, Last(c))>>
  BY <1>1, CopiesAre
<1>4. \A c \in Listed(r.path) : Append(r.to, Last(c)) \in Paths /\ Append(r.to, Last(c)) # r.to
  BY CopyNames, RequestIs
<1>5. Copied(b, r)[r.to] = Collection
  <2>0. PICK m : m = <<r.path, r.to>>
    OBVIOUS
  <2>1. m = <<r.path, r.to>> /\ m[1] = r.path /\ m[2] = r.to
    BY <2>0
  <2>2. m \in Copies(b, r, r.to)
    BY <1>3, <2>1
  <2>3. \A n \in Copies(b, r, r.to) : n[2] = r.to => n[1] = m[1]
    BY <1>3, <1>4, <2>1
  <2> QED BY <1>1, <1>2, <2>1, <2>2, <2>3, CopiedAt
<1>6. ASSUME NEW c \in Listed(r.path), b[c] # Nothing PROVE Copied(b, r)[Append(r.to, Last(c))] = b[c]
  <2>1. PICK t \in Paths : t = Append(r.to, Last(c))
    BY <1>4
  <2>0. PICK m : m = <<c, t>>
    OBVIOUS
  <2>2. m = <<c, t>> /\ m[1] = c /\ m[2] = t
    BY <2>0
  <2>3. m \in Copies(b, r, r.to)
    BY <1>3, <1>6, <2>1, <2>2
  <2>4. ASSUME NEW n \in Copies(b, r, r.to), n[2] = t PROVE n[1] = m[1]
    <3>1. n # <<r.path, r.to>>
      BY <1>4, <2>1, <2>4
    <3>2. PICK d \in Listed(r.path) : n = <<d, Append(r.to, Last(d))>>
      BY <1>3, <3>1
    <3>3. d = c
      BY <1>1, <2>1, <2>4, <3>2, TargetsDiffer
    <3> QED BY <2>2, <3>2, <3>3
  <2>5. \A n \in Copies(b, r, Into(b, r)) : n[2] = t => n[1] = m[1]
    BY <1>2, <2>4
  <2>6. m \in Copies(b, r, Into(b, r)) /\ m[2] = t
    BY <1>2, <2>2, <2>3
  <2>7. Copied(b, r)[t] = b[m[1]]
    BY <2>5, <2>6, CopiedAt
  <2> QED BY <2>1, <2>2, <2>7
<1>7. ASSUME NEW q \in Paths, q # r.to, ~ \E c \in Listed(r.path) : b[c] # Nothing /\ q = Append(r.to, Last(c))
      PROVE  Copied(b, r)[q] = b[q]
  <2>1. \A m \in Copies(b, r, r.to) : m[2] # q
    BY <1>3, <1>7
  <2> QED BY <1>2, <2>1, CopiedAt
<1> QED BY <1>2, <1>5, <1>6, <1>7

-------------------------------------------------------------------------------
\* A request that meets no rival is all or nothing

\* What AllOrNothing does not except.
Fair(b, r) == ~Stops(b, r) /\ ~Hollow(b, r) /\ (IntoItself(b, r) => r.method = "MOVE" /\ b[r.path].is = "file")

\* Of a worker that does j, that found the tree b when the request came, and finds it V with entries E now.
Untouched(r, b, V) == \A q \in Scope(r) : V[q] = b[q]
Reached(r, b, V)   == \A q \in Scope(r) : V[q] = After(b, r)[q]
Outcome(j, b, V)   == IF j.status \in 200..206 THEN Reached(j.req, b, V) ELSE Untouched(j.req, b, V)

\* A file is being written: so much of the body is there.
Writing(j, b, V, E) ==
  LET r == j.req IN
  \/ j.fd = NoFd /\ Untouched(r, b, V)
  \/ /\ j.fd # NoFd /\ j.fd = E[r.path] /\ j.status \in {200, 201}
     /\ V[r.path] = File(SubSeq(r.body, 1, j.done))
     /\ \A q \in Scope(r) : q # r.path => V[q] = b[q]

\* A file is being copied: its copy is still empty.
Copying(j, b, V, E) ==
  LET r == j.req IN
  /\ j.src = E[r.path] /\ j.fd = E[j.to] /\ j.to \notin Source(r)
  /\ b[r.path].has # <<>> /\ j.size = Len(b[r.path].has)
  /\ V[j.to] = File(<<>>)
  /\ \A q \in Scope(r) : q # j.to => V[q] = b[q]

\* The names of a directory are being copied: of those that are no longer to be done there are copies.
Listing(j, b) == {c \in Listed(j.req.path) : c \notin j.todo /\ b[c] # Nothing}
CopyingDir(j, b, V) ==
  LET r == j.req IN
  /\ V[r.to] = Collection
  /\ \A c \in Listing(j, b) : V[Append(r.to, Last(c))] = b[c]
  /\ \A q \in Scope(r) : q = r.to \/ (\E c \in Listing(j, b) : q = Append(r.to, Last(c))) \/ V[q] = b[q]

\* A directory is being emptied: what there still is in it is on a list, or in or under what is.
Base(b, r) == IF r.method = "MOVE" THEN Copied(b, r) ELSE b
Emptying(j, b, V) ==
  LET r == j.req IN
  /\ ~j.bad /\ b[r.path] = Collection /\ V[r.path] = Collection
  /\ \A q \in Scope(r) : q \in Source(r) \/ V[q] = Base(b, r)[q]
  /\ \A q \in Below(r.path) : V[q] = Nothing \/ q \in j.dirs \/ \E c \in j.todo : q = c \/ q \in Below(c)
  /\ \A c \in j.todo : c \notin j.dirs /\ (j.todo \cup j.dirs) \cap Below(c) = {}
  /\ \A c \in j.dirs : V[c] = Collection

Fresh == {"open", "create", "cache", "sendopen", "send", "mkdir", "stat", "unlink", "dest", "destdir", "rename", "copy"}
WholeOf(j, b, V, E) ==
  LET r == j.req IN
  /\ j.pc \in Fresh => Untouched(r, b, V)
  /\ j.pc = "open" /\ Len(r.path) > 2 => V[Front(r.path)].is = b[Front(r.path)].is
  /\ j.pc \in {"open", "create"} => j.done = 0
  /\ j.pc = "write" => Writing(j, b, V, E)
  /\ j.pc \in {"unlink", "dest", "rename", "copy", "copydata", "unlinksource"} => b[r.path].is = "file"
  /\ j.pc \in {"rename", "copy", "copydata", "unlinksource"} => j.to = Into(b, r) /\ j.status \in {201, 204}
  /\ j.pc \in {"copydata", "copydir"} => r.method \in {"COPY", "MOVE"}
  /\ j.pc = "copy" => j.to # r.path
  /\ j.pc = "copydata" => Copying(j, b, V, E)
  /\ j.pc = "unlinksource" => j.to \notin Source(r) /\ \A q \in Scope(r) : V[q] = Copied(b, r)[q]
  /\ j.pc \in {"destdir", "copydir"} => b[r.path] = Collection
  /\ j.pc \in {"stat", "destdir", "copydir"} => j.dirs = {} /\ ~j.bad
  /\ j.pc = "copydir" => CopyingDir(j, b, V)
  /\ j.pc = "empty" => Emptying(j, b, V)
  /\ j.pc = "answer" => Outcome(j, b, V)

\* The worker's request is one of those, nothing failed, and all is well so far; and still after its step.
Hopes(w, b) == /\ job[w].req \in Load /\ Past(b) /\ ~Ranged(job[w].req) /\ Fair(b, job[w].req)
               /\ WholeOf(job[w], b, View, entry)
WholeThen(w, b) == WholeOf(job'[w], b, View', entry')

LEMMA WholeAnswer ==
  ASSUME NEW w \in Procs, NEW b, job'[w].pc = "answer", Outcome(job'[w], b, View')
  PROVE  WholeThen(w, b)
BY DEF WholeThen, WholeOf, Fresh

LEMMA UntouchedStays ==
  ASSUME NodeInv, NEW w \in Procs, Busy(w), NEW b, Unchanged, Untouched(job[w].req, b, View)
  PROVE  Untouched(job[w].req, b, View')
BY AllStay DEF Untouched

\* It refuses, and has not touched anything.
LEMMA RefusedWhole ==
  ASSUME NodeInv, NEW w \in Procs, Busy(w), NEW b, NEW s \in Nat, s \notin 200..206, Finish(w, s), Unchanged,
         Untouched(job[w].req, b, View)
  PROVE  WholeThen(w, b)
<1>1. job'[w].pc = "answer" /\ job'[w].status = s /\ job'[w].req = job[w].req
  BY FinishIs DEF Works
<1>2. Untouched(job[w].req, b, View')
  BY UntouchedStays
<1> QED BY <1>1, <1>2, WholeAnswer DEF Outcome

\* It succeeds.
LEMMA DoneWhole ==
  ASSUME NodeInv, NEW w \in Procs, Busy(w), NEW b, NEW s \in Nat, Finish(w, s), Reached(job[w].req, b, View'), s \in 200..206
  PROVE  WholeThen(w, b)
<1>1. job'[w].pc = "answer" /\ job'[w].status = s /\ job'[w].req = job[w].req
  BY FinishIs DEF Works
<1> QED BY <1>1, WholeAnswer DEF Outcome

LEMMA OpenedGives ==
  ASSUME NodeInv, NEW w \in Procs, Busy(w), NEW i, NEW s, Opened(w, i, s)
  PROVE  /\ job'[w].req = job[w].req /\ job'[w].status = s /\ job'[w].done = job[w].done
         /\ job[w].req.body = <<>> => job'[w].pc = "answer"
         /\ job[w].req.body # <<>> => job'[w].pc = "write" /\ job'[w].fd = i
<1>1. PICK pc : pc = IF job[w].req.body = <<>> THEN "answer" ELSE "write"
  OBVIOUS
<1>2. PICK fd : fd = IF job[w].req.body = <<>> THEN NoFd ELSE i
  OBVIOUS
<1>3. job'[w] = [job[w] EXCEPT !.pc = pc, !.status = s, !.fd = fd]
  BY <1>1, <1>2, JobIs DEF Opened
<1>4. job'[w].req = job[w].req /\ job'[w].status = s /\ job'[w].done = job[w].done /\ job'[w].pc = pc /\ job'[w].fd = fd
  BY <1>3, JobIs DEF Fields
<1> QED BY <1>1, <1>2, <1>4

\* Where a whole file goes.
LEMMA AfterPut ==
  ASSUME NEW r \in Load, r.method = "PUT", ~Ranged(r), NEW b, Past(b), NEW q \in Paths
  PROVE  After(b, r)[q] = IF q = r.path THEN File(r.body) ELSE b[q]
<1>1. DOMAIN b = Paths
  BY PastIs
<1>2. After(b, r) = [b EXCEPT ![r.path] = File(r.body)]
  BY DEF After
<1> QED BY <1>1, <1>2

\* A file is there, empty, and the body may be.
LEMMA OpenedWhole ==
  ASSUME NodeInv, NEW w \in Procs, Busy(w), job[w].req.method = "PUT", ~Ranged(job[w].req), NEW b, Past(b),
         Untouched(job[w].req, b, View), job[w].done = 0, NEW i \in Inodes, NEW s \in {200, 201},
         Opened(w, i, s), Puts(job[w].req.path, File(<<>>)), entry'[job[w].req.path] = i
  PROVE  WholeThen(w, b)
<1>1. /\ job[w].req \in Load /\ job[w].req.path \in Paths /\ Scope(job[w].req) \subseteq Paths
      /\ job[w].req.path \in Scope(job[w].req) /\ job[w].req.body \in Seq(Nat)
  BY JobIs, RequestIs
<1>2. /\ View'[job[w].req.path] = File(<<>>)
      /\ \A q \in Scope(job[w].req) : q # job[w].req.path => View'[q] = b[q]
  BY <1>1 DEF Puts, Untouched
<1>3. CASE job[w].req.body = <<>>
  <2>1. job'[w].req = job[w].req /\ job'[w].status = s /\ job'[w].pc = "answer"
    BY <1>3, OpenedGives
  <2>2. Reached(job[w].req, b, View')
    BY <1>1, <1>2, <1>3, AfterPut DEF Reached
  <2> QED BY <2>1, <2>2, WholeAnswer DEF Outcome
<1>4. CASE job[w].req.body # <<>>
  <2>1. job'[w].req = job[w].req /\ job'[w].status = s /\ job'[w].done = 0 /\ job'[w].pc = "write" /\ job'[w].fd = i
    BY <1>4, OpenedGives
  <2>2. SubSeq(job[w].req.body, 1, 0) = <<>>
    BY <1>1, SubSeqEmpty
  <2>3. SubSeq(job'[w].req.body, 1, job'[w].done) = <<>>
    BY <2>1, <2>2
  <2>4. View'[job'[w].req.path] = File(SubSeq(job'[w].req.body, 1, job'[w].done))
    BY <1>2, <2>1, <2>3
  <2>5. i # NoFd
    BY NodeNumbers
  <2>6. \A q \in Scope(job'[w].req) : q # job'[w].req.path => View'[q] = b[q]
    BY <1>2, <2>1
  <2>7. Writing(job'[w], b, View', entry')
    BY <2>1, <2>4, <2>5, <2>6 DEF Writing
  <2> QED BY <2>1, <2>7 DEF WholeThen, WholeOf, Fresh
<1> QED BY <1>3, <1>4

LEMMA OpenForPutWhole ==
  ASSUME NodeInv, NEW w \in Procs, OpenForPut(w), NEW b, Hopes(w, b)
  PROVE  WholeThen(w, b)
<1>1. /\ Busy(w) /\ job[w].pc = "open" /\ job[w].req.method = "PUT" /\ ~Ranged(job[w].req) /\ Past(b)
      /\ Fair(b, job[w].req)
  BY DEF OpenForPut, At, Busy, Hopes
<1>2. /\ Untouched(job[w].req, b, View) /\ job[w].done = 0
      /\ Len(job[w].req.path) > 2 => View[Front(job[w].req.path)].is = b[Front(job[w].req.path)].is
  BY <1>1 DEF Hopes, WholeOf, Fresh
<1>3. /\ job[w].req \in Load /\ job[w].req.path \in Paths /\ job[w].req.path \in Scope(job[w].req)
  BY <1>1, JobIs
<1>4. CASE IsFile(job[w].req.path) /\ Opened(w, entry[job[w].req.path], 200) /\ Becomes(entry, Truncated(job[w].req))
  <2>1. PICK i \in Inodes : i = entry[job[w].req.path]
    BY <1>4 DEF IsFile
  <2>2. Becomes(entry, [data EXCEPT ![i] = <<>>])
    BY <1>1, <1>4, <2>1 DEF Truncated
  <2>3. Puts(job[w].req.path, File(<<>>)) /\ entry' = entry
    BY <1>3, <2>1, <2>2, PutsData, EmptySeq
  <2> QED BY <1>1, <1>2, <1>4, <2>1, <2>3, OpenedWhole
<1>5. CASE /\ IsDir(job[w].req.path) \/ InFile(job[w].req.path)
           /\ Opened(w, NoFd, 201) /\ Unchanged
  <2>1. Untouched(job[w].req, b, View')
    BY <1>1, <1>2, <1>5, UntouchedStays
  <2>2. CASE job[w].req.body = <<>>
    <3>1. View[job[w].req.path] = b[job[w].req.path]
      BY <1>2, <1>3 DEF Untouched
    <3>2. IsDir(job[w].req.path) => b[job[w].req.path] = Collection
      BY <1>3, <3>1, IsDirIs, ViewIs
    <3>3. InFile(job[w].req.path) => Len(job[w].req.path) > 2 /\ b[Front(job[w].req.path)].is = "file"
      <4> SUFFICES ASSUME InFile(job[w].req.path) PROVE Len(job[w].req.path) > 2 /\ b[Front(job[w].req.path)].is = "file"
        OBVIOUS
      <4>1. Len(job[w].req.path) > 2 /\ entry[Front(job[w].req.path)] \in Inodes
        BY DEF InFile, IsFile
      <4>2. Front(job[w].req.path) \in Paths
        BY <1>3, <4>1, FrontIs
      <4> QED BY <1>2, <4>1, <4>2, ViewIs
    <3> QED BY <1>1, <1>5, <2>2, <3>2, <3>3 DEF Fair, Hollow
  <2>3. CASE job[w].req.body # <<>>
    <3>1. job'[w].req = job[w].req /\ job'[w].pc = "write" /\ job'[w].fd = NoFd
      BY <1>1, <1>5, <2>3, OpenedGives
    <3>2. Writing(job'[w], b, View', entry')
      BY <2>1, <3>1 DEF Writing
    <3> QED BY <3>1, <3>2 DEF WholeThen, WholeOf, Fresh
  <2> QED BY <2>2, <2>3
<1>6. CASE Goto(w, "create") /\ Unchanged
  <2>1. job'[w].pc = "create" /\ job'[w].req = job[w].req /\ job'[w].done = 0
    BY <1>1, <1>2, <1>6, GotoIs DEF Same
  <2>2. Untouched(job[w].req, b, View')
    BY <1>1, <1>2, <1>6, UntouchedStays
  <2> QED BY <2>1, <2>2 DEF WholeThen, WholeOf, Fresh
<1> QED BY <1>1, <1>4, <1>5, <1>6 DEF OpenForPut

LEMMA CreateForPutWhole ==
  ASSUME NodeInv, NEW w \in Procs, CreateForPut(w), NEW b, Hopes(w, b)
  PROVE  WholeThen(w, b)
<1>1. Busy(w) /\ job[w].pc = "create" /\ job[w].req.method = "PUT" /\ ~Ranged(job[w].req) /\ Past(b)
  BY DEF CreateForPut, At, Busy, Hopes
<1>2. Untouched(job[w].req, b, View) /\ job[w].done = 0
  BY <1>1 DEF Hopes, WholeOf, Fresh
<1>3. job[w].req.path \in Paths
  BY <1>1, JobIs
<1>4. CASE /\ Opened(w, NewInode, 201)
           /\ Becomes([entry EXCEPT ![job[w].req.path] = NewInode], [data EXCEPT ![NewInode] = <<>>])
  <2>1. PICK i \in Inodes : i = NewInode /\ Free(i)
    BY NewInodeIsFree DEF Free
  <2>2. Becomes([entry EXCEPT ![job[w].req.path] = i], [data EXCEPT ![i] = <<>>])
    BY <1>4, <2>1
  <2>3. Puts(job[w].req.path, File(<<>>)) /\ entry' = [entry EXCEPT ![job[w].req.path] = i]
    BY <1>3, <2>1, <2>2, PutsFile, EmptySeq
  <2>4. entry'[job[w].req.path] = i
    BY <1>3, <2>3, TreeIs DEF Trees0
  <2> QED BY <1>1, <1>2, <1>4, <2>1, <2>3, <2>4, OpenedWhole
<1>5. CASE Finish(w, 403) /\ Unchanged
  BY <1>1, <1>2, <1>5, RefusedWhole
<1> QED BY <1>1, <1>4, <1>5 DEF CreateForPut

\* What is written follows what was.
LEMMA OverlayNext ==
  ASSUME NEW s \in Seq(Nat), NEW m \in Nat, NEW n \in Nat, n > 0, m + n <= Len(s)
  PROVE  Overlay(SubSeq(s, 1, m), m, SubSeq(s, m + 1, m + n)) = SubSeq(s, 1, m + n)
<1>1. Len(s) \in Nat /\ \A i \in 1..Len(s) : s[i] \in Nat
  BY LenProperties, ElementOfSeq
<1>2. PICK k \in Nat : k = m + n /\ k <= Len(s)
  OBVIOUS
<1>3. PICK old : old = SubSeq(s, 1, m)
  OBVIOUS
<1>4. old \in Seq(Nat) /\ Len(old) = m /\ \A i \in 1..m : old[i] = s[i]
  <2>1. 1 \in Int /\ m \in Int /\ \A i \in 1..m : s[i] \in Nat
    BY <1>1
  <2>2. /\ SubSeq(s, 1, m) \in Seq(Nat) /\ Len(SubSeq(s, 1, m)) = IF 1 <= m THEN m - 1 + 1 ELSE 0
        /\ \A i \in 1 .. m - 1 + 1 : SubSeq(s, 1, m)[i] = s[1 + i - 1]
    BY <2>1, SubSeqProperties
  <2> QED BY <1>3, <2>2
<1>5. PICK us : us = SubSeq(s, m + 1, m + n)
  OBVIOUS
<1>6. us \in Seq(Nat) /\ Len(us) = n /\ us # <<>> /\ \A i \in 1..n : us[i] = s[m + i]
  <2>1. m + 1 \in Int /\ m + n \in Int /\ \A i \in (m + 1)..(m + n) : s[i] \in Nat
    BY <1>1
  <2>2. /\ SubSeq(s, m + 1, m + n) \in Seq(Nat)
        /\ Len(SubSeq(s, m + 1, m + n)) = IF m + 1 <= m + n THEN (m + n) - (m + 1) + 1 ELSE 0
        /\ \A i \in 1 .. (m + n) - (m + 1) + 1 : SubSeq(s, m + 1, m + n)[i] = s[(m + 1) + i - 1]
    BY <2>1, SubSeqProperties
  <2>3. us \in Seq(Nat) /\ Len(us) = n
    BY <1>5, <2>2
  <2>4. \A i \in 1..n : us[i] = s[m + i]
    BY <1>5, <2>2
  <2>5. us # <<>>
    BY <2>3, EmptySeq
  <2> QED BY <2>3, <2>4, <2>5
<1>7. PICK all : all = SubSeq(s, 1, k)
  OBVIOUS
<1>8. all \in Seq(Nat) /\ Len(all) = k /\ \A i \in 1..k : all[i] = s[i]
  <2>1. 1 \in Int /\ k \in Int /\ \A i \in 1..k : s[i] \in Nat
    BY <1>1, <1>2
  <2>2. /\ SubSeq(s, 1, k) \in Seq(Nat) /\ Len(SubSeq(s, 1, k)) = IF 1 <= k THEN k - 1 + 1 ELSE 0
        /\ \A i \in 1 .. k - 1 + 1 : SubSeq(s, 1, k)[i] = s[1 + i - 1]
    BY <2>1, SubSeqProperties
  <2> QED BY <1>7, <2>2
<1>9. PICK new \in Seq(Nat) : new = Overlay(old, m, us)
  BY <1>4, <1>6, OverlayTyped
<1>10. new = [i \in 1..k |-> IF i > m /\ i <= m + n THEN us[i - m] ELSE IF i <= m THEN old[i] ELSE 0]
  <2>1. ~(us = <<>> \/ Len(old) >= m + Len(us))
    BY <1>4, <1>6
  <2> QED BY <1>2, <1>4, <1>6, <1>9, <2>1 DEF Overlay
<1>11. \A i \in 1..k : new[i] = s[i]
  <2> SUFFICES ASSUME NEW i \in 1..k PROVE new[i] = s[i]
    OBVIOUS
  <2>1. CASE i > m
    <3>1. new[i] = us[i - m] /\ i - m \in 1..n
      BY <1>2, <1>10, <2>1
    <3> QED BY <1>6, <3>1
  <2>2. CASE i <= m
    BY <1>2, <1>4, <1>10, <2>2
  <2> QED BY <2>1, <2>2
<1>12. DOMAIN new = 1..k /\ DOMAIN new = 1..Len(new) /\ Len(new) \in Nat
  BY <1>9, <1>10, LenProperties
<1>13. Len(new) = k
  BY <1>12
<1>14. new = all
  BY <1>8, <1>9, <1>11, <1>13, SeqEqual
<1> QED BY <1>2, <1>3, <1>5, <1>7, <1>9, <1>14

LEMMA WriteBodyWhole ==
  ASSUME NodeInv, NEW w \in Procs, NEW n \in 1..MaxBody, WriteBody(w, n), NEW b, Hopes(w, b)
  PROVE  WholeThen(w, b)
<1>1. /\ Busy(w) /\ job[w].pc = "write" /\ job[w].req.method = "PUT" /\ ~Ranged(job[w].req) /\ Past(b) /\ job[w].fd # NoFd
      /\ n \in 1..(Len(job[w].req.body) - job[w].done)
  BY DEF WriteBody, At, Busy, Hopes
<1>2. Writing(job[w], b, View, entry)
  BY <1>1 DEF Hopes, WholeOf
<1>3. /\ job[w].req \in Load /\ job[w].req.path \in Paths /\ job[w].req.path \in Scope(job[w].req)
      /\ Scope(job[w].req) \subseteq Paths /\ job[w].req.body \in Seq(Nat) /\ JobOK(job[w])
  BY <1>1, JobIs, RequestIs
<1>4. PICK m \in Nat : m = job[w].done
  BY <1>3 DEF JobOK
<1>5. PICK i \in Inodes : i = job[w].fd
  BY <1>1, <1>3 DEF JobOK
<1>6. /\ entry[job[w].req.path] = i /\ job[w].status \in {200, 201}
      /\ View[job[w].req.path] = File(SubSeq(job[w].req.body, 1, m))
      /\ \A q \in Scope(job[w].req) : q # job[w].req.path => View[q] = b[q]
  BY <1>1, <1>2, <1>4, <1>5 DEF Writing
<1>7. Len(job[w].req.body) \in Nat /\ n \in Nat /\ n > 0 /\ m + n <= Len(job[w].req.body) /\ m + n \in Nat
  <2>1. PICK l \in Nat : l = Len(job[w].req.body)
    BY <1>3, LenProperties
  <2>2. n \in 1..(l - m)
    BY <1>1, <1>4, <2>1
  <2>3. n \in Nat /\ n > 0 /\ m + n <= l /\ m + n \in Nat
    BY <2>2
  <2> QED BY <2>1, <2>3
<1>8. data[i] = SubSeq(job[w].req.body, 1, m)
  <2>1. View[job[w].req.path].has = data[i]
    BY <1>3, <1>6, ViewIs
  <2> QED BY <1>6, <2>1 DEF File
<1>9. PICK all : all = SubSeq(job[w].req.body, 1, m + n)
  OBVIOUS
<1>10. Overlay(data[i], m, SubSeq(job[w].req.body, m + 1, m + n)) = all
  BY <1>3, <1>7, <1>8, <1>9, OverlayNext
<1>11. Offset(job[w].req) + m = m
  BY <1>1 DEF Ranged, Offset
<1>12. Becomes(entry, [data EXCEPT ![i] = all])
  <2>1. Becomes(entry, [data EXCEPT ![i] = Overlay(@, Offset(job[w].req) + m, SubSeq(job[w].req.body, m + 1, m + n))])
    BY <1>4, <1>5 DEF WriteBody
  <2>2. [data EXCEPT ![i] = Overlay(@, Offset(job[w].req) + m, SubSeq(job[w].req.body, m + 1, m + n))] = [data EXCEPT ![i] = all]
    BY <1>10, <1>11
  <2> QED BY <2>1, <2>2
<1>13. all \in Seq(Nat)
  <2>1. PICK l \in Nat : l = m + n
    BY <1>7
  <2>2. \A k \in 1..l : k \in 1..Len(job[w].req.body)
    BY <1>7, <2>1
  <2>3. 1 \in Int /\ l \in Int /\ \A k \in 1..l : job[w].req.body[k] \in Nat
    BY <1>3, <2>2, ElementOfSeq
  <2> QED BY <1>9, <2>1, <2>3, SubSeqProperties
<1>14. Puts(job[w].req.path, File(all)) /\ entry' = entry
  <2>1. Filled(i, all) /\ all \in Contents
    BY <1>12, <1>13 DEF Filled, Contents
  <2> QED BY <1>3, <1>6, <2>1, PutsFilled
<1>15. View'[job[w].req.path] = File(all) /\ \A q \in Scope(job[w].req) : q # job[w].req.path => View'[q] = b[q]
  BY <1>3, <1>6, <1>14 DEF Puts
<1>16. CASE m + n = Len(job[w].req.body)
  <2>1. Finish(w, job[w].status)
    BY <1>4, <1>16 DEF WriteBody
  <2>2. all = job[w].req.body
    BY <1>3, <1>9, <1>16, SubSeqFull
  <2>3. Reached(job[w].req, b, View')
    BY <1>1, <1>3, <1>15, <2>2, AfterPut DEF Reached
  <2>4. job[w].status \in Nat /\ job[w].status \in 200..206
    BY <1>6
  <2> QED BY <1>1, <2>1, <2>3, <2>4, DoneWhole
<1>17. CASE m + n # Len(job[w].req.body)
  <2>1. job' = [job EXCEPT ![w].done = @ + n]
    BY <1>4, <1>17 DEF WriteBody
  <2>2. job'[w] = [job[w] EXCEPT !.done = @ + n]
    BY <1>1, <2>1, JobIs
  <2>3. /\ job'[w].req = job[w].req /\ job'[w].pc = "write" /\ job'[w].fd = i /\ job'[w].done = m + n
        /\ job'[w].status = job[w].status
    BY <1>1, <1>4, <1>5, <2>2, JobIs DEF Fields
  <2>4. View'[job'[w].req.path] = File(SubSeq(job'[w].req.body, 1, job'[w].done))
    BY <1>9, <1>15, <2>3
  <2>5. \A q \in Scope(job'[w].req) : q # job'[w].req.path => View'[q] = b[q]
    BY <1>15, <2>3
  <2>6. job'[w].fd # NoFd /\ job'[w].fd = entry'[job'[w].req.path] /\ job'[w].status \in {200, 201}
    BY <1>1, <1>5, <1>6, <1>14, <2>3
  <2>7. Writing(job'[w], b, View', entry')
    BY <2>4, <2>5, <2>6 DEF Writing
  <2> QED BY <2>3, <2>7 DEF WholeThen, WholeOf, Fresh
<1> QED BY <1>16, <1>17

LEMMA WriteFailsWhole ==
  ASSUME NodeInv, NEW w \in Procs, WriteFails(w), faults \in Nat, faults' = 0, NEW b, Hopes(w, b)
  PROVE  WholeThen(w, b)
<1>1. Busy(w) /\ job[w].pc = "write" /\ Unchanged
  BY DEF WriteFails, At, Busy
<1>2. job[w].fd = NoFd /\ Finish(w, 403)
  BY DEF WriteFails
<1>3. Writing(job[w], b, View, entry)
  BY <1>1 DEF Hopes, WholeOf
<1>4. Untouched(job[w].req, b, View)
  BY <1>2, <1>3 DEF Writing
<1> QED BY <1>1, <1>2, <1>4, RefusedWhole

LEMMA MakeCollectionWhole ==
  ASSUME NodeInv, NEW w \in Procs, MakeCollection(w), NEW b, Hopes(w, b)
  PROVE  WholeThen(w, b)
<1>1. Busy(w) /\ job[w].pc = "mkdir" /\ job[w].req.method = "MKCOL" /\ Past(b)
  BY DEF MakeCollection, At, Busy, Hopes
<1>2. Untouched(job[w].req, b, View)
  BY <1>1 DEF Hopes, WholeOf, Fresh
<1>3. job[w].req.path \in Paths /\ Scope(job[w].req) \subseteq Paths
  BY <1>1, JobIs
<1>4. CASE Finish(w, 201) /\ Becomes([entry EXCEPT ![job[w].req.path] = Directory], data)
  <2>1. Puts(job[w].req.path, Collection)
    <3>1. PICK x \in {Absent, Directory} : x = Directory
      OBVIOUS
    <3>2. x # Absent
      BY <3>1, NodeNumbers
    <3>3. Becomes([entry EXCEPT ![job[w].req.path] = x], data)
      BY <1>4, <3>1
    <3> QED BY Zenon, <1>3, <3>2, <3>3, PutsName
  <2>2. After(b, job[w].req) = [b EXCEPT ![job[w].req.path] = Collection] /\ DOMAIN b = Paths
    BY <1>1, PastIs DEF After
  <2>3. Reached(job[w].req, b, View')
    BY <1>2, <1>3, <2>1, <2>2 DEF Reached, Puts, Untouched
  <2> QED BY <1>1, <1>4, <2>3, DoneWhole
<1>5. CASE (Finish(w, 409) \/ Finish(w, 405)) /\ Unchanged
  BY <1>1, <1>2, <1>5, RefusedWhole
<1> QED BY <1>4, <1>5 DEF MakeCollection

-------------------------------------------------------------------------------
\* DELETE

\* What is below is below what that is below.
LEMMA BelowTrans ==
  ASSUME NEW p \in Paths, NEW c \in Below(p)
  PROVE  Below(c) \subseteq Below(p) /\ p \notin Below(c)
<1>1. c \in Paths /\ IsPrefix(p, c) /\ ~IsPrefix(c, p)
  BY BelowIs
<1>2. ASSUME NEW q \in Below(c) PROVE q \in Below(p)
  <2>1. q \in Paths /\ IsPrefix(c, q)
    BY DEF Below
  <2>2. IsPrefix(p, q)
    BY <1>1, <2>1, PrefixTrans
  <2> QED BY <1>1, <2>1, <2>2 DEF Below
<1> QED BY <1>1, <1>2 DEF Below

\* What two names are above, one of them is above the other of.
LEMMA BelowBoth ==
  ASSUME NEW c \in Paths, NEW d \in Paths, NEW q, q \in Below(c) \cup {c}, q \in Below(d) \cup {d}
  PROVE  c = d \/ c \in Below(d) \/ d \in Below(c)
<1>1. q \in Paths /\ IsPrefix(c, q) /\ IsPrefix(d, q)
  BY PrefixSelf DEF Below
<1> QED BY <1>1, PrefixesComparable DEF Below

\* A file has nothing below it.
LEMMA BareIs ==
  ASSUME NodeInv, Nested, NEW c \in Paths, View[c] # Collection, NEW q \in Below(c)
  PROVE  View[q] = Nothing
<1>1. Past(View)
  BY NowIsPast
<1> QED BY <1>1, PastIs

\* A directory with an empty listing is empty.
LEMMA EmptyIs ==
  ASSUME NodeInv, Nested, NEW p \in Paths
  PROVE  (\A q \in Below(p) : View[q] = Nothing) => Children(p) = {}
<1> SUFFICES ASSUME \A q \in Below(p) : View[q] = Nothing, NEW c \in Children(p) PROVE FALSE
  OBVIOUS
<1>1. c \in Below(p) /\ c \in Paths /\ entry[c] # Absent
  BY ChildrenAre DEF Children
<1>2. View[c].is = "absent"
  BY <1>1 DEF Nothing
<1> QED BY <1>1, <1>2, ViewIs

\* Where something is, there is an entry.
LEMMA SomethingIs ==
  ASSUME NodeInv, NEW q \in Paths
  PROVE  View[q] # Nothing <=> entry[q] # Absent
<1>1. Nothing.is = "absent"
  BY DEF Nothing
<1>2. entry[q] = Absent => View[q] = Nothing
  BY TreeIs, ViewOfIs, NodeNumbers DEF View
<1> QED BY <1>1, <1>2, ViewIs

\* A directory is about to be emptied, all that is in it is listed.
LEMMA EmptyingStarts ==
  ASSUME NodeInv, Nested, NEW w \in Procs, Busy(w), NEW b, Unchanged, NEW r \in Load, r = job[w].req,
         job'[w].req = r, job'[w].pc = "empty", job'[w].dirs = {}, ~job'[w].bad, job'[w].todo = Children(r.path),
         b[r.path] = Collection, View[r.path] = Collection,
         \A q \in Scope(r) : q \in Source(r) \/ View[q] = Base(b, r)[q]
  PROVE  WholeThen(w, b)
<1>1. r.path \in Paths /\ Scope(r) \subseteq Paths
  BY RequestIs
<1>2. \A q \in Paths : View'[q] = View[q]
  BY ShowsUnchanged DEF Shows
<1>3. ASSUME NEW q \in Below(r.path) PROVE View'[q] = Nothing \/ \E c \in Children(r.path) : q = c \/ q \in Below(c)
  <2>1. q \in Paths
    BY DEF Below
  <2>2. CASE View[q] = Nothing
    BY <1>2, <2>1, <2>2
  <2>3. CASE View[q] # Nothing
    BY <1>1, <2>1, <2>3, SomethingIs, ChildrenCover
  <2> QED BY <2>2, <2>3
<1>4. ASSUME NEW c \in Children(r.path) PROVE Children(r.path) \cap Below(c) = {}
  <2> SUFFICES ASSUME NEW d \in Children(r.path), d \in Below(c) PROVE FALSE
    OBVIOUS
  <2>1. c \in Paths /\ d \in Paths /\ Len(c) = Len(r.path) + 1 /\ Len(d) = Len(r.path) + 1
    BY DEF Children
  <2>2. Len(c) < Len(d)
    BY <2>1, BelowIs
  <2> QED BY <2>1, <2>2, BelowIs
<1>5. /\ b[r.path] = Collection /\ View'[r.path] = Collection
      /\ \A q \in Scope(r) : q \in Source(r) \/ View'[q] = Base(b, r)[q]
  BY <1>1, <1>2
<1>6. Emptying(job'[w], b, View')
  BY <1>3, <1>4, <1>5 DEF Emptying
<1> QED BY <1>6 DEF WholeThen, WholeOf, Fresh

LEMMA StatForDeleteWhole ==
  ASSUME NodeInv, Nested, NEW w \in Procs, StatForDelete(w), NEW b, Hopes(w, b)
  PROVE  WholeThen(w, b)
<1>1. Busy(w) /\ job[w].pc = "stat" /\ job[w].req.method = "DELETE" /\ Past(b) /\ Unchanged
  BY DEF StatForDelete, At, Busy, Hopes
<1>2. Untouched(job[w].req, b, View) /\ job[w].dirs = {} /\ ~job[w].bad
  BY <1>1 DEF Hopes, WholeOf, Fresh
<1>3. PICK r \in Load : r = job[w].req /\ r.path \in Paths /\ r.path \in Scope(r) /\ Scope(r) \subseteq Paths
  BY <1>1, JobIs
<1>4. View[r.path] = b[r.path]
  BY <1>2, <1>3 DEF Untouched
<1>5. CASE entry[r.path] = Absent
  <2>1. PICK s \in {403, 404} : s = IF InFile(r.path) THEN 403 ELSE 404
    OBVIOUS
  <2>2. Finish(w, s)
    BY <1>3, <1>5, <2>1, IsDirIs, NodeNumbers DEF StatForDelete
  <2> QED BY <1>1, <1>2, <2>2, RefusedWhole
<1>6. CASE entry[r.path] = Directory
  <2>1. job' = [job EXCEPT ![w].pc = "empty", ![w].todo = Children(r.path)]
    BY <1>3, <1>6, IsDirIs, NodeNumbers DEF StatForDelete
  <2>2. PICK todo : todo = Children(r.path)
    OBVIOUS
  <2>3. job'[w] = [job[w] EXCEPT !.pc = "empty", !.todo = todo]
    BY <1>1, <2>1, <2>2, JobIs
  <2>4. job'[w].req = r /\ job'[w].pc = "empty" /\ job'[w].todo = todo /\ job'[w].dirs = {} /\ ~job'[w].bad
    BY <1>1, <1>2, <1>3, <2>3, JobIs DEF Fields
  <2>5. View[r.path] = Collection /\ b[r.path] = Collection
    BY <1>3, <1>4, <1>6, ViewIs
  <2>6. \A q \in Scope(r) : View[q] = Base(b, r)[q]
    BY <1>1, <1>2, <1>3 DEF Base, Untouched
  <2> QED BY <1>1, <1>3, <2>2, <2>4, <2>5, <2>6, EmptyingStarts
<1>7. CASE entry[r.path] \in Inodes
  <2>1. Goto(w, "unlink")
    BY <1>3, <1>7, IsDirIs, NodeNumbers DEF StatForDelete
  <2>2. job'[w].req = r /\ job'[w].pc = "unlink"
    BY <1>1, <1>3, <2>1, GotoIs DEF Same
  <2>3. Untouched(r, b, View')
    BY <1>1, <1>2, <1>3, UntouchedStays
  <2>4. b[r.path].is = "file"
    BY <1>3, <1>4, <1>7, ViewIs
  <2> QED BY <2>2, <2>3, <2>4 DEF WholeThen, WholeOf, Fresh
<1> QED BY <1>3, <1>5, <1>6, <1>7, TreeIs

LEMMA AfterDelete ==
  ASSUME NEW r \in Load, r.method = "DELETE", NEW b, NEW q \in Paths
  PROVE  After(b, r)[q] = (IF q \in Source(r) THEN Nothing ELSE b[q]) /\ (q \in Scope(r) <=> q \in Source(r))
<1>1. After(b, r) = Removed(b, r.path)
  BY DEF After
<1>2. IsPrefix(r.path, q) <=> q \in Source(r)
  BY RequestIs, PrefixSelf DEF Source, Below
<1>3. q \in Scope(r) <=> IsPrefix(r.path, q)
  BY DEF Scope, NamesOf
<1> QED BY <1>1, <1>2, <1>3 DEF Removed

LEMMA UnlinkWhole ==
  ASSUME NodeInv, NEW w \in Procs, Unlink(w), NEW b, Hopes(w, b)
  PROVE  WholeThen(w, b)
<1>1. Busy(w) /\ job[w].pc = "unlink" /\ job[w].req.method = "DELETE" /\ Past(b)
  BY DEF Unlink, At, Busy, Hopes
<1>2. Untouched(job[w].req, b, View) /\ b[job[w].req.path].is = "file"
  BY <1>1 DEF Hopes, WholeOf, Fresh
<1>3. job[w].req \in Load /\ job[w].req.path \in Paths /\ Scope(job[w].req) \subseteq Paths
  BY <1>1, JobIs
<1>4. CASE Finish(w, 204) /\ Becomes(Without(job[w].req.path), data)
  <2>1. PICK x \in {Absent, Directory} : x = Absent
    OBVIOUS
  <2>2. Named(job[w].req.path, x)
    BY <1>4, <2>1 DEF Named, Without
  <2>3. Puts(job[w].req.path, Nothing)
    BY <1>3, <2>1, <2>2, PutsNamed
  <2>4. b[job[w].req.path] # Collection
    BY <1>2 DEF Collection
  <2>5. \A q \in Below(job[w].req.path) : b[q] = Nothing
    BY <1>1, <1>3, <2>4, PastIs
  <2>6. ASSUME NEW q \in Scope(job[w].req) PROVE View'[q] = After(b, job[w].req)[q]
    <3>1. q \in Paths /\ q \in Source(job[w].req)
      BY <1>1, <1>3, AfterDelete
    <3>2. After(b, job[w].req)[q] = Nothing
      BY <1>1, <1>3, <3>1, AfterDelete
    <3> QED BY <1>2, <2>3, <2>5, <3>1, <3>2 DEF Source, Puts, Untouched
  <2>7. Reached(job[w].req, b, View')
    BY <2>6 DEF Reached
  <2> QED BY <1>1, <1>4, <2>7, DoneWhole
<1>5. CASE (Finish(w, 404) \/ Finish(w, 501)) /\ Unchanged
  BY <1>1, <1>2, <1>5, RefusedWhole
<1> QED BY <1>4, <1>5 DEF Unlink

\* A name of the list is a file and goes.
LEMMA DeleteFileWhole ==
  ASSUME NodeInv, Nested, NEW w \in Procs, Busy(w), NEW b, job[w].pc = "empty", Emptying(job[w], b, View),
         NEW c \in job[w].todo, c \in Below(job[w].req.path), View[c] # Collection,
         job'[w].req = job[w].req, job'[w].pc = "empty", job'[w].todo = job[w].todo \ {c}, job'[w].dirs = job[w].dirs,
         ~job'[w].bad, \A q \in Paths : View'[q] = IF q = c THEN Nothing ELSE View[q]
  PROVE  WholeThen(w, b)
<1>1. PICK r \in Load : r = job[w].req /\ r.path \in Paths /\ Scope(r) \subseteq Paths
  BY JobIs
<1>2. /\ b[r.path] = Collection /\ View[r.path] = Collection
      /\ \A q \in Scope(r) : q \in Source(r) \/ View[q] = Base(b, r)[q]
      /\ \A q \in Below(r.path) : View[q] = Nothing \/ q \in job[w].dirs \/ \E x \in job[w].todo : q = x \/ q \in Below(x)
      /\ \A x \in job[w].todo : x \notin job[w].dirs /\ (job[w].todo \cup job[w].dirs) \cap Below(x) = {}
      /\ \A x \in job[w].dirs : View[x] = Collection
  BY <1>1 DEF Emptying
<1>3. c \in Paths /\ c # r.path /\ c \in Source(r)
  BY <1>1, BelowIs DEF Source
<1>4. ASSUME NEW q \in Below(r.path)
      PROVE  View'[q] = Nothing \/ q \in job[w].dirs \/ \E x \in job[w].todo \ {c} : q = x \/ q \in Below(x)
  <2>1. q \in Paths
    BY DEF Below
  <2>2. CASE q = c
    BY <2>1, <2>2
  <2>3. CASE q # c /\ q \in Below(c)
    <3>1. View[q] = Nothing
      BY <1>3, <2>3, BareIs
    <3> QED BY <2>1, <2>3, <3>1
  <2>4. CASE q # c /\ q \notin Below(c)
    BY <1>2, <2>1, <2>4
  <2> QED BY <2>2, <2>3, <2>4
<1>5. \A x \in job[w].dirs : x # c /\ x \in Paths
  BY <1>2, JobIs DEF JobOK, Below
<1>6. \A q \in Scope(r) : q \in Source(r) \/ View'[q] = Base(b, r)[q]
  BY <1>1, <1>2, <1>3
<1>7. View'[r.path] = Collection /\ \A x \in job[w].dirs : View'[x] = Collection
  BY <1>1, <1>2, <1>3, <1>5
<1>8. \A x \in job[w].todo \ {c} : x \notin job[w].dirs /\ ((job[w].todo \ {c}) \cup job[w].dirs) \cap Below(x) = {}
  BY <1>2
<1>9. Emptying(job'[w], b, View')
  BY <1>1, <1>2, <1>4, <1>6, <1>7, <1>8 DEF Emptying
<1> QED BY <1>9 DEF WholeThen, WholeOf, Fresh

\* It is a directory, and what is in it is listed too.
LEMMA DeleteDirWhole ==
  ASSUME NodeInv, Nested, NEW w \in Procs, Busy(w), NEW b, job[w].pc = "empty", Emptying(job[w], b, View),
         NEW c \in job[w].todo, c \in Below(job[w].req.path), View[c] = Collection,
         job'[w].req = job[w].req, job'[w].pc = "empty", job'[w].todo = (job[w].todo \ {c}) \cup Children(c),
         job'[w].dirs = job[w].dirs \cup {c}, ~job'[w].bad, \A q \in Paths : View'[q] = View[q]
  PROVE  WholeThen(w, b)
<1>1. PICK r \in Load : r = job[w].req /\ r.path \in Paths /\ Scope(r) \subseteq Paths
  BY JobIs
<1>2. /\ b[r.path] = Collection /\ View[r.path] = Collection
      /\ \A q \in Scope(r) : q \in Source(r) \/ View[q] = Base(b, r)[q]
      /\ \A q \in Below(r.path) : View[q] = Nothing \/ q \in job[w].dirs \/ \E x \in job[w].todo : q = x \/ q \in Below(x)
      /\ \A x \in job[w].todo : x \notin job[w].dirs /\ (job[w].todo \cup job[w].dirs) \cap Below(x) = {}
      /\ \A x \in job[w].dirs : View[x] = Collection
  BY <1>1 DEF Emptying
<1>3. /\ c \in Paths /\ job[w].todo \subseteq Paths /\ job[w].dirs \subseteq Paths
  BY JobIs DEF JobOK, Below
<1>4. PICK more : more = Children(c)
  OBVIOUS
<1>5. more \subseteq Below(c) /\ more \subseteq Paths
  BY <1>3, <1>4, ChildrenAre DEF Below
<1>6. PICK todo : todo = (job[w].todo \ {c}) \cup more
  OBVIOUS
<1>7. PICK dirs : dirs = job[w].dirs \cup {c}
  OBVIOUS
<1>8. ASSUME NEW q \in Below(r.path)
      PROVE  View'[q] = Nothing \/ q \in dirs \/ \E x \in todo : q = x \/ q \in Below(x)
  <2>1. q \in Paths
    BY DEF Below
  <2>2. CASE q \in Below(c) /\ View[q] # Nothing
    <3>1. \E x \in more : q = x \/ q \in Below(x)
      BY <1>3, <1>4, <2>1, <2>2, SomethingIs, ChildrenCover
    <3> QED BY <1>6, <3>1
  <2>3. CASE q \notin Below(c) \/ View[q] = Nothing
    BY <1>2, <1>6, <1>7, <2>1, <2>3
  <2> QED BY <2>2, <2>3
<1>9. ASSUME NEW x \in todo, NEW y \in todo \cup dirs, y \in Below(x) PROVE FALSE
  <2>1. x \in Paths /\ y \in Paths
    BY <1>3, <1>5, <1>6, <1>7, <1>9
  <2>2. CASE x \in job[w].todo /\ x # c /\ y \in job[w].todo \cup job[w].dirs \cup {c}
    BY <1>2, <1>9, <2>2
  <2>3. CASE x \in job[w].todo /\ x # c /\ y \in more
    <3>1. y \in Below(c)
      BY <1>5, <2>3
    <3>2. x = c \/ x \in Below(c) \/ c \in Below(x)
      BY <1>3, <1>9, <2>1, <3>1, BelowBoth
    <3> QED BY <1>2, <2>3, <3>2
  <2>4. CASE x \in more /\ y \in job[w].todo \cup job[w].dirs \cup {c}
    <3>1. x \in Below(c)
      BY <1>5, <2>4
    <3>2. y \in Below(c)
      BY <1>3, <1>9, <3>1, BelowTrans
    <3>3. c \notin Below(c)
      BY DEF Below
    <3> QED BY <1>2, <2>4, <3>2, <3>3
  <2>5. CASE x \in more /\ y \in more
    <3>1. Len(x) = Len(c) + 1 /\ Len(y) = Len(c) + 1
      BY <1>4, <2>5 DEF Children
    <3>2. Len(x) < Len(y) /\ Len(x) \in Nat
      BY <1>9, <2>1, BelowIs
    <3> QED BY <3>1, <3>2
  <2> QED BY <1>6, <1>7, <1>9, <2>2, <2>3, <2>4, <2>5
<1>10. ASSUME NEW x \in todo PROVE x \notin dirs
  <2>1. CASE x \in job[w].todo /\ x # c
    BY <1>2, <1>7, <2>1
  <2>2. CASE x \in more
    <3>1. x \in Below(c) /\ x # c
      BY <1>5, <2>2 DEF Below
    <3> QED BY <1>2, <1>7, <3>1
  <2> QED BY <1>6, <2>1, <2>2
<1>11. /\ View'[r.path] = Collection /\ (\A x \in dirs : View'[x] = Collection)
       /\ \A q \in Scope(r) : q \in Source(r) \/ View'[q] = Base(b, r)[q]
  BY <1>1, <1>2, <1>3, <1>7
<1>12. \A x \in todo : x \notin dirs /\ (todo \cup dirs) \cap Below(x) = {}
  BY <1>9, <1>10
<1>13. job'[w].todo = todo /\ job'[w].dirs = dirs /\ job'[w].req = r
  BY <1>1, <1>4, <1>6, <1>7
<1>14. Emptying(job'[w], b, View')
  BY <1>2, <1>8, <1>11, <1>12, <1>13 DEF Emptying
<1> QED BY <1>14 DEF WholeThen, WholeOf, Fresh

LEMMA DeleteChildWhole ==
  ASSUME NodeInv, Nested, NEW w \in Procs, NEW c \in Paths, DeleteChild(w, c), NEW b, Hopes(w, b)
  PROVE  WholeThen(w, b)
<1>1. Busy(w) /\ job[w].pc = "empty" /\ c \in job[w].todo
  BY DEF DeleteChild, At, Busy
<1>2. Emptying(job[w], b, View) /\ c \in Below(job[w].req.path)
  BY <1>1, JobIs DEF Hopes, WholeOf, JobOK
<1>3. ~job[w].bad
  BY <1>2 DEF Emptying
<1>4. CASE /\ IsFile(c) /\ Becomes(Without(c), data)
           /\ job' = [job EXCEPT ![w].todo = @ \ {c}, ![w].bad = FALSE]
  <2>1. job'[w] = [job[w] EXCEPT !.todo = @ \ {c}, !.bad = FALSE]
    BY <1>1, <1>4, JobIs
  <2>2. /\ job'[w].req = job[w].req /\ job'[w].pc = "empty" /\ job'[w].todo = job[w].todo \ {c}
        /\ job'[w].dirs = job[w].dirs /\ ~job'[w].bad
    BY <1>1, <2>1, JobIs DEF Fields
  <2>3. PICK x \in {Absent, Directory} : x = Absent
    OBVIOUS
  <2>4. Named(c, x)
    BY <1>4, <2>3 DEF Named, Without
  <2>5. \A q \in Paths : View'[q] = IF q = c THEN Nothing ELSE View[q]
    BY <2>3, <2>4, PutsNamed DEF Puts
  <2>6. View[c] # Collection
    BY <1>4, ViewIs DEF IsFile, Collection
  <2> QED BY <1>1, <1>2, <2>2, <2>5, <2>6, DeleteFileWhole
<1>5. CASE /\ IsDir(c) /\ Unchanged
           /\ job' = [job EXCEPT ![w].todo = (@ \ {c}) \cup Children(c), ![w].dirs = @ \cup {c}]
  <2>1. PICK more : more = Children(c)
    OBVIOUS
  <2>2. job'[w] = [job[w] EXCEPT !.todo = (@ \ {c}) \cup more, !.dirs = @ \cup {c}]
    BY <1>1, <1>5, <2>1, JobIs
  <2>3. /\ job'[w].req = job[w].req /\ job'[w].pc = "empty" /\ job'[w].todo = (job[w].todo \ {c}) \cup more
        /\ job'[w].dirs = job[w].dirs \cup {c} /\ ~job'[w].bad
    BY <1>1, <1>3, <2>2, JobIs DEF Fields
  <2>4. \A q \in Paths : View'[q] = View[q]
    BY <1>5, ShowsUnchanged DEF Shows
  <2>5. View[c] = Collection
    BY <1>5, IsDirIs, ViewIs
  <2> QED BY <1>1, <1>2, <2>1, <2>3, <2>4, <2>5, DeleteDirWhole
<1>6. CASE entry[c] = Absent /\ Unchanged /\ job' = [job EXCEPT ![w].todo = @ \ {c}]
  <2>1. job'[w] = [job[w] EXCEPT !.todo = @ \ {c}]
    BY <1>1, <1>6, JobIs
  <2>2. /\ job'[w].req = job[w].req /\ job'[w].pc = "empty" /\ job'[w].todo = job[w].todo \ {c}
        /\ job'[w].dirs = job[w].dirs /\ ~job'[w].bad
    BY <1>1, <1>3, <2>1, JobIs DEF Fields
  <2>3. View[c] = Nothing
    BY <1>6, SomethingIs
  <2>4. \A q \in Paths : View'[q] = IF q = c THEN Nothing ELSE View[q]
    BY <1>6, <2>3, ShowsUnchanged DEF Shows
  <2>5. View[c] # Collection
    BY <2>3 DEF Nothing, Collection
  <2> QED BY <1>1, <1>2, <2>2, <2>4, <2>5, DeleteFileWhole
<1> QED BY <1>4, <1>5, <1>6 DEF DeleteChild

LEMMA RemoveInnerWhole ==
  ASSUME NodeInv, Nested, NEW w \in Procs, NEW c \in Paths, RemoveInner(w, c), NEW b, Hopes(w, b)
  PROVE  WholeThen(w, b)
<1>1. Busy(w) /\ job[w].pc = "empty" /\ c \in job[w].dirs /\ (job[w].todo \cup job[w].dirs) \cap Below(c) = {}
  BY DEF RemoveInner, At, Busy
<1>2. Emptying(job[w], b, View) /\ job[w].todo \subseteq Paths /\ c \in Below(job[w].req.path)
  BY <1>1, JobIs DEF Hopes, WholeOf, JobOK, Below
<1>3. PICK r \in Load : r = job[w].req /\ r.path \in Paths /\ Scope(r) \subseteq Paths
  BY <1>1, JobIs
<1>4. /\ b[r.path] = Collection /\ View[r.path] = Collection /\ ~job[w].bad
      /\ \A q \in Scope(r) : q \in Source(r) \/ View[q] = Base(b, r)[q]
      /\ \A q \in Below(r.path) : View[q] = Nothing \/ q \in job[w].dirs \/ \E x \in job[w].todo : q = x \/ q \in Below(x)
      /\ \A x \in job[w].todo : x \notin job[w].dirs /\ (job[w].todo \cup job[w].dirs) \cap Below(x) = {}
      /\ \A x \in job[w].dirs : View[x] = Collection
  BY <1>2, <1>3 DEF Emptying
<1>5. ASSUME NEW q \in Below(c) PROVE View[q] = Nothing
  <2>1. q \in Below(r.path) /\ q \notin job[w].dirs
    BY <1>1, <1>2, <1>3, BelowTrans
  <2>2. ASSUME NEW x \in job[w].todo, q = x \/ q \in Below(x) PROVE FALSE
    <3>1. c = x \/ c \in Below(x) \/ x \in Below(c)
      BY <1>2, <2>2, BelowBoth
    <3> QED BY <1>1, <1>4, <3>1
  <2> QED BY <1>4, <2>1, <2>2
<1>6. IsDir(c) /\ Children(c) = {}
  BY <1>1, <1>4, <1>5, IsDirIs, ViewIs, EmptyIs
<1>7. Becomes(Without(c), data) /\ job' = [job EXCEPT ![w].dirs = @ \ {c}]
  BY <1>6 DEF RemoveInner
<1>8. job'[w] = [job[w] EXCEPT !.dirs = @ \ {c}]
  BY <1>1, <1>7, JobIs
<1>9. /\ job'[w].req = r /\ job'[w].pc = "empty" /\ job'[w].todo = job[w].todo /\ job'[w].dirs = job[w].dirs \ {c}
      /\ ~job'[w].bad
  BY <1>1, <1>3, <1>4, <1>8, JobIs DEF Fields
<1>10. \A q \in Paths : View'[q] = IF q = c THEN Nothing ELSE View[q]
  <2>1. PICK x \in {Absent, Directory} : x = Absent
    OBVIOUS
  <2>2. Named(c, x)
    BY <1>7, <2>1 DEF Named, Without
  <2> QED BY <2>1, <2>2, PutsNamed DEF Puts
<1>11. c # r.path /\ c \in Source(r) /\ job[w].dirs \subseteq Paths /\ Below(r.path) \subseteq Paths
  BY <1>1, <1>2, <1>3, JobIs DEF JobOK, Source, Below
<1>12. /\ View'[r.path] = Collection
       /\ \A q \in Scope(r) : q \in Source(r) \/ View'[q] = Base(b, r)[q]
       /\ \A x \in job[w].dirs \ {c} : View'[x] = Collection
  BY <1>3, <1>4, <1>10, <1>11
<1>13. \A q \in Below(r.path) : View'[q] = Nothing \/ q \in job[w].dirs \ {c} \/ \E x \in job[w].todo : q = x \/ q \in Below(x)
  BY <1>4, <1>10, <1>11
<1>14. \A x \in job[w].todo : x \notin job[w].dirs \ {c} /\ (job[w].todo \cup (job[w].dirs \ {c})) \cap Below(x) = {}
  BY <1>4
<1>15. Emptying(job'[w], b, View')
  BY <1>4, <1>9, <1>12, <1>13, <1>14 DEF Emptying
<1> QED BY <1>9, <1>15 DEF WholeThen, WholeOf, Fresh

\* A MOVE that is not onto itself.
LEMMA AfterMove ==
  ASSUME NEW r \in Load, r.method = "MOVE", NEW b, Into(b, r) # r.path, NEW q \in Paths
  PROVE  After(b, r)[q] = IF q \in Source(r) THEN Nothing ELSE Copied(b, r)[q]
<1>1. After(b, r) = Removed(Copied(b, r), r.path)
  BY DEF After
<1>2. IsPrefix(r.path, q) <=> q \in Source(r)
  BY RequestIs, PrefixSelf DEF Source, Below
<1> QED BY <1>1, <1>2 DEF Removed

LEMMA RemoveOuterWhole ==
  ASSUME NodeInv, Nested, NEW w \in Procs, RemoveOuter(w), NEW b, Hopes(w, b)
  PROVE  WholeThen(w, b)
<1>1. /\ Busy(w) /\ job[w].pc = "empty" /\ job[w].req.method \in {"DELETE", "MOVE"} /\ job[w].todo = {} /\ job[w].dirs = {}
      /\ Fair(b, job[w].req)
  BY DEF RemoveOuter, At, Busy, Hopes
<1>2. Emptying(job[w], b, View)
  BY <1>1 DEF Hopes, WholeOf
<1>3. PICK r \in Load : r = job[w].req /\ r.path \in Paths /\ Scope(r) \subseteq Paths
  BY <1>1, JobIs
<1>4. /\ b[r.path] = Collection /\ View[r.path] = Collection /\ ~job[w].bad
      /\ \A q \in Scope(r) : q \in Source(r) \/ View[q] = Base(b, r)[q]
      /\ \A q \in Below(r.path) : View[q] = Nothing
  BY <1>1, <1>2, <1>3 DEF Emptying
<1>5. IsDir(r.path) /\ Children(r.path) = {}
  BY <1>3, <1>4, IsDirIs, ViewIs, EmptyIs
<1>6. PICK s \in {201, 204} : s = IF r.method = "MOVE" THEN 201 ELSE 204
  OBVIOUS
<1>7. Becomes(Without(r.path), data) /\ Finish(w, s)
  BY <1>3, <1>4, <1>5, <1>6 DEF RemoveOuter
<1>8. \A q \in Paths : View'[q] = IF q = r.path THEN Nothing ELSE View[q]
  <2>1. PICK x \in {Absent, Directory} : x = Absent
    OBVIOUS
  <2>2. Named(r.path, x)
    BY <1>7, <2>1 DEF Named, Without
  <2> QED BY <1>3, <2>1, <2>2, PutsNamed DEF Puts
<1>9. \A q \in Scope(r) : View'[q] = IF q \in Source(r) THEN Nothing ELSE Base(b, r)[q]
  BY <1>3, <1>4, <1>8 DEF Source
<1>10. CASE r.method = "DELETE"
  <2>1. Reached(r, b, View')
    BY <1>3, <1>9, <1>10, AfterDelete DEF Reached, Base
  <2> QED BY <1>1, <1>3, <1>7, <2>1, DoneWhole
<1>11. CASE r.method = "MOVE"
  <2>1. Into(b, r) # r.path
    BY <1>1, <1>3, <1>4, <1>11 DEF Fair, IntoItself, Collection
  <2>2. Reached(r, b, View')
    BY <1>3, <1>9, <1>11, <2>1, AfterMove DEF Reached, Base
  <2> QED BY <1>1, <1>3, <1>7, <2>2, DoneWhole
<1> QED BY <1>1, <1>3, <1>10, <1>11

-------------------------------------------------------------------------------
\* COPY and MOVE of a file

LEMMA StatSourceWhole ==
  ASSUME NodeInv, NEW w \in Procs, StatSource(w), NEW b, Hopes(w, b)
  PROVE  WholeThen(w, b)
<1>1. Busy(w) /\ job[w].pc = "stat" /\ Unchanged
  BY DEF StatSource, At, Busy
<1>2. Untouched(job[w].req, b, View) /\ job[w].dirs = {} /\ ~job[w].bad
  BY <1>1 DEF Hopes, WholeOf, Fresh
<1>3. PICK r \in Load : r = job[w].req /\ r.path \in Paths /\ r.path \in Scope(r)
  BY <1>1, JobIs
<1>4. View[r.path] = b[r.path] /\ Untouched(r, b, View')
  BY <1>1, <1>2, <1>3, UntouchedStays DEF Untouched
<1>5. CASE entry[r.path] = Absent
  <2>1. PICK s \in {403, 404} : s = IF InFile(r.path) THEN 403 ELSE 404
    OBVIOUS
  <2>2. Finish(w, s)
    BY <1>3, <1>5, <2>1 DEF StatSource
  <2> QED BY <1>1, <1>2, <2>2, RefusedWhole
<1>6. CASE entry[r.path] # Absent
  <2>1. PICK pc \in {"destdir", "dest"} : pc = IF IsDir(r.path) THEN "destdir" ELSE "dest"
    OBVIOUS
  <2>2. Goto(w, pc)
    BY <1>3, <1>6, <2>1 DEF StatSource
  <2>3. job'[w].req = r /\ job'[w].pc = pc /\ job'[w].dirs = {}
    BY <1>1, <1>2, <1>3, <2>2, GotoIs DEF Same
  <2>4. job'[w].bad = job[w].bad
    <3>1. job'[w] = [job[w] EXCEPT !.pc = pc]
      BY <1>1, <2>2, JobIs DEF Goto
    <3> QED BY <1>1, <3>1, JobIs DEF Fields
  <2>5. CASE IsDir(r.path)
    <3>1. b[r.path] = Collection
      BY <1>3, <1>4, <2>5, IsDirIs, ViewIs
    <3> QED BY <1>2, <1>4, <2>1, <2>3, <2>4, <2>5, <3>1 DEF WholeThen, WholeOf, Fresh
  <2>6. CASE ~IsDir(r.path)
    <3>1. b[r.path].is = "file"
      BY <1>3, <1>4, <1>6, <2>6, IsDirIs, ViewIs, TreeIs
    <3> QED BY <1>4, <2>1, <2>3, <2>6, <3>1 DEF WholeThen, WholeOf, Fresh
  <2> QED BY <2>5, <2>6
<1> QED BY <1>5, <1>6

LEMMA StatDestinationWhole ==
  ASSUME NodeInv, NEW w \in Procs, StatDestination(w), NEW b, Hopes(w, b)
  PROVE  WholeThen(w, b)
<1>1. Busy(w) /\ job[w].pc = "dest" /\ job[w].req.method \in {"COPY", "MOVE"} /\ Unchanged /\ Fair(b, job[w].req)
  BY DEF StatDestination, At, Busy, Hopes
<1>2. Untouched(job[w].req, b, View) /\ b[job[w].req.path].is = "file"
  BY <1>1 DEF Hopes, WholeOf, Fresh
<1>3. PICK r \in Load : r = job[w].req /\ r.path \in Paths /\ r.to \in Paths /\ r.to \in Scope(r)
  BY <1>1, JobIs, RequestIs
<1>4. Untouched(r, b, View')
  BY <1>1, <1>2, <1>3, UntouchedStays
<1>5. PICK t : t = Target(w)
  OBVIOUS
<1>6. t = Into(b, r)
  <2>1. View[r.to] = b[r.to]
    BY <1>2, <1>3 DEF Untouched
  <2>2. IsDir(r.to) <=> b[r.to] = Collection
    BY <1>3, <2>1, IsDirIs, ViewIs
  <2> QED BY <1>2, <1>3, <1>5, <2>2 DEF Target, Into
<1>7. CASE Finish(w, 409) \/ Finish(w, 412)
  BY <1>1, <1>2, <1>7, RefusedWhole
<1>8. CASE job' = [job EXCEPT ![w].pc = IF r.method = "MOVE" THEN "rename" ELSE "copy", ![w].to = t,
                              ![w].status = IF entry[t] = Absent THEN 201 ELSE 204]
  <2>1. PICK pc : pc = IF r.method = "MOVE" THEN "rename" ELSE "copy"
    OBVIOUS
  <2>2. PICK s : s = IF entry[t] = Absent THEN 201 ELSE 204
    OBVIOUS
  <2>3. job'[w] = [job[w] EXCEPT !.pc = pc, !.to = t, !.status = s]
    BY <1>1, <1>8, <2>1, <2>2, JobIs
  <2>4. job'[w].req = r /\ job'[w].pc = pc /\ job'[w].to = Into(b, r) /\ job'[w].status \in {201, 204}
    BY <1>1, <1>3, <1>6, <2>2, <2>3, JobIs DEF Fields
  <2>5. pc \in {"rename", "copy"} /\ (pc = "copy" => r.method = "COPY")
    BY <1>1, <1>3, <2>1
  <2>6. pc = "copy" => Into(b, r) # r.path
    BY <1>1, <1>3, <2>5 DEF Fair, IntoItself
  <2> QED BY <1>2, <1>3, <1>4, <2>4, <2>5, <2>6 DEF WholeThen, WholeOf, Fresh
<1> QED BY <1>3, <1>5, <1>7, <1>8 DEF StatDestination

LEMMA RenameWhole ==
  ASSUME NodeInv, Nested, NEW w \in Procs, Rename(w), NEW b, Hopes(w, b)
  PROVE  WholeThen(w, b)
<1>1. Busy(w) /\ job[w].pc = "rename" /\ job[w].req.method = "MOVE" /\ Past(b)
  BY DEF Rename, At, Busy, Hopes
<1>2. /\ Untouched(job[w].req, b, View) /\ b[job[w].req.path].is = "file" /\ job[w].to = Into(b, job[w].req)
      /\ job[w].status \in {201, 204}
  BY <1>1 DEF Hopes, WholeOf, Fresh
<1>3. PICK r \in Load : r = job[w].req /\ r.path \in Paths /\ r.path \in Scope(r) /\ Scope(r) \subseteq Paths
  BY <1>1, JobIs
<1>4. PICK t \in Paths : t = job[w].to /\ t \in Scope(r)
  BY <1>1, <1>3, JobIs DEF JobOK
<1>5. View[r.path] = b[r.path] /\ entry[r.path] \in Inodes /\ IsFile(r.path) /\ ~IsDir(r.path) /\ entry[r.path] # Absent
  <2>1. View[r.path] = b[r.path]
    BY <1>2, <1>3 DEF Untouched
  <2>2. entry[r.path] \in Inodes
    BY <1>2, <1>3, <2>1, ViewIs
  <2> QED BY <1>3, <2>1, <2>2, IsDirIs, NodeNumbers DEF IsFile
<1>6. CASE /\ Finish(w, job[w].status) /\ InDir(t)
           /\ Becomes(IF r.path = t THEN entry ELSE [Without(r.path) EXCEPT ![t] = entry[r.path]], data)
  <2>1. CASE r.path = t
    <3>1. \A q \in Paths : View'[q] = View[q]
      BY <1>6, <2>1, ShowsSame DEF Shows
    <3>2. After(b, r) = b
      BY <1>1, <1>2, <1>3, <1>4, <2>1 DEF After
    <3>3. Reached(r, b, View')
      BY <1>2, <1>3, <3>1, <3>2 DEF Reached, Untouched
    <3> QED BY <1>1, <1>2, <1>3, <1>6, <3>3, DoneWhole
  <2>2. CASE r.path # t
    <3>1. \A q \in Paths : View'[q] = IF q = t THEN View[r.path] ELSE IF q = r.path THEN Nothing ELSE View[q]
      BY <1>3, <1>5, <1>6, <2>2, PutsRename
    <3>2. t \notin Below(r.path)
      BY <1>3, <1>5, <1>6, AboveIs, NodeNumbers
    <3>3. \A q \in Below(r.path) : b[q] = Nothing
      <4>1. b[r.path] # Collection
        BY <1>2, <1>3 DEF Collection
      <4> QED BY <1>1, <1>3, <4>1, PastIs
    <3>4. ASSUME NEW q \in Scope(r) PROVE View'[q] = After(b, r)[q]
      <4>1. q \in Paths /\ View[q] = b[q]
        BY <1>2, <1>3 DEF Untouched
      <4>2. After(b, r)[q] = IF q \in Source(r) THEN Nothing ELSE IF q = t THEN b[r.path] ELSE b[q]
        BY <1>1, <1>2, <1>3, <1>4, <2>2, <4>1, AfterMove, CopiedOfFile
      <4> QED BY <1>5, <2>2, <3>1, <3>2, <3>3, <4>1, <4>2 DEF Source
    <3>5. Reached(r, b, View')
      BY <3>4 DEF Reached
    <3> QED BY <1>1, <1>2, <1>3, <1>6, <3>5, DoneWhole
  <2> QED BY <2>1, <2>2
<1>7. CASE /\ Goto(w, "copy") /\ Unchanged
           /\ ~(r.path[1] = t[1] /\ IsFile(r.path) /\ ~IsDir(t) /\ InDir(t))
  <2>1. t # r.path
    BY <1>3, <1>5, <1>7, ThereIs
  <2>2. job'[w].req = r /\ job'[w].pc = "copy" /\ job'[w].to = t /\ job'[w].status = job[w].status
    BY <1>1, <1>3, <1>4, <1>7, GotoIs DEF Same
  <2>3. Untouched(r, b, View')
    BY <1>1, <1>2, <1>3, <1>7, UntouchedStays
  <2> QED BY <1>2, <1>3, <1>4, <2>1, <2>2, <2>3 DEF WholeThen, WholeOf, Fresh
<1> QED BY <1>3, <1>4, <1>6, <1>7 DEF Rename

LEMMA OpenForCopyWhole ==
  ASSUME NodeInv, Nested, NEW w \in Procs, OpenForCopy(w), NEW b, Hopes(w, b)
  PROVE  WholeThen(w, b)
<1>1. Busy(w) /\ job[w].pc = "copy" /\ job[w].req.method \in {"COPY", "MOVE"} /\ Past(b)
  BY DEF OpenForCopy, At, Busy, Hopes
<1>2. /\ Untouched(job[w].req, b, View) /\ b[job[w].req.path].is = "file" /\ job[w].to = Into(b, job[w].req)
      /\ job[w].status \in {201, 204} /\ job[w].to # job[w].req.path
  BY <1>1 DEF Hopes, WholeOf, Fresh
<1>3. PICK r \in Load : r = job[w].req /\ r.path \in Paths /\ r.path \in Scope(r) /\ Scope(r) \subseteq Paths
  BY <1>1, JobIs
<1>4. PICK t \in Paths : t = job[w].to /\ t \in Scope(r)
  BY <1>1, <1>3, JobIs DEF JobOK
<1>5. PICK no \in {0, 403, 409, 412} : no = Refusal(r.path, t, r.overwrite)
  BY <1>3, <1>4, RefusalIs
<1>6. CASE no # 0
  <2>1. Finish(w, no) /\ Unchanged
    BY <1>3, <1>4, <1>5, <1>6 DEF OpenForCopy
  <2>2. no \in Nat /\ no \notin 200..206
    BY <1>6
  <2> QED BY <1>1, <1>2, <2>1, <2>2, RefusedWhole
<1>7. CASE no = 0
  <2>1. IsFile(r.path) /\ data[entry[r.path]] # <<>> /\ InDir(t)
    BY <1>3, <1>4, <1>5, <1>7, RefusalNot
  <2>2. PICK i \in Inodes : i = (IF IsFile(t) THEN entry[t] ELSE NewInode) /\ (Free(i) \/ entry[t] = i)
    <3>1. PICK i : i = IF IsFile(t) THEN entry[t] ELSE NewInode
      OBVIOUS
    <3> QED BY <3>1, CopyTo
  <2>3. PICK src \in Inodes : src = entry[r.path]
    BY <2>1 DEF IsFile
  <2>4. PICK n : n = Len(data[src])
    OBVIOUS
  <2>5. job' = [job EXCEPT ![w].pc = "copydata", ![w].src = src, ![w].fd = i, ![w].size = n]
    BY <1>3, <1>4, <1>5, <1>7, <2>2, <2>3, <2>4 DEF OpenForCopy
  <2>6. PICK s \in Contents : s = <<>>
    BY EmptySeq DEF Contents
  <2>7. Filed(t, i, s)
    BY <1>3, <1>4, <1>5, <1>7, <2>2, <2>6 DEF OpenForCopy, Filed
  <2>8. Puts(t, File(s)) /\ entry' = [entry EXCEPT ![t] = i]
    BY <2>2, <2>7, PutsFiled
  <2>9. t \notin Source(r)
    <3>1. r.path # t
      BY <1>2, <1>3, <1>4
    <3>2. entry[r.path] # Directory
      BY <2>3, NodeNumbers
    <3> QED BY <1>3, <2>1, <3>1, <3>2, AboveIs DEF Source
  <2>10. entry'[t] = i /\ entry'[r.path] = src
    <3>1. r.path # t /\ DOMAIN entry = Paths
      BY <1>2, <1>3, <1>4, TreeIs DEF Trees0
    <3> QED BY <1>3, <2>3, <2>8, <3>1
  <2>11. data[src] = b[r.path].has /\ b[r.path].has # <<>>
    <3>1. View[r.path] = b[r.path]
      BY <1>2, <1>3 DEF Untouched
    <3> QED BY <1>3, <2>1, <2>3, <3>1, ViewIs
  <2>12. job'[w] = [job[w] EXCEPT !.pc = "copydata", !.src = src, !.fd = i, !.size = n]
    <3>1. w \in DOMAIN job /\ DOMAIN job[w] = Fields
      BY <1>1, JobIs
    <3> QED BY <2>5, <3>1 DEF Fields
  <2>13. /\ job'[w].req = r /\ job'[w].pc = "copydata" /\ job'[w].to = t /\ job'[w].status = job[w].status
         /\ job'[w].src = src /\ job'[w].fd = i /\ job'[w].size = n
    BY <1>1, <1>3, <1>4, <2>12, JobIs DEF Fields
  <2>14. View'[t] = File(<<>>) /\ \A q \in Scope(r) : q # t => View'[q] = b[q]
    BY <1>2, <1>3, <2>6, <2>8 DEF Puts, Untouched
  <2>15. Copying(job'[w], b, View', entry')
    BY <2>4, <2>9, <2>10, <2>11, <2>13, <2>14 DEF Copying
  <2> QED BY <1>1, <1>2, <1>3, <1>4, <2>13, <2>15 DEF WholeThen, WholeOf, Fresh
<1> QED BY <1>6, <1>7

\* A MOVE or COPY of a file, when the file is copied.
LEMMA CopiedThere ==
  ASSUME NEW r \in Load, NEW b, Past(b), b[r.path].is = "file", NEW t, t = Into(b, r), NEW V,
         V[t] = b[r.path], \A q \in Scope(r) : q # t => V[q] = b[q]
  PROVE  \A q \in Scope(r) : V[q] = Copied(b, r)[q]
BY RequestIs, CopiedOfFile

LEMMA WriteCopyWhole ==
  ASSUME NodeInv, NEW w \in Procs, NEW n \in 1..MaxBody, WriteCopy(w, n), faults \in Nat, faults' = 0, NEW b, Hopes(w, b)
  PROVE  WholeThen(w, b)
<1>1. Busy(w) /\ job[w].pc = "copydata" /\ job[w].req.method \in {"COPY", "MOVE"} /\ Past(b)
  BY DEF WriteCopy, At, Busy, Hopes
<1>2. /\ Copying(job[w], b, View, entry) /\ b[job[w].req.path].is = "file" /\ job[w].to = Into(b, job[w].req)
      /\ job[w].status \in {201, 204}
  BY <1>1 DEF Hopes, WholeOf
<1>3. PICK r \in Load : r = job[w].req /\ r.path \in Paths /\ r.path \in Scope(r) /\ Scope(r) \subseteq Paths
  BY <1>1, JobIs
<1>4. PICK t \in Paths : t = job[w].to /\ t \in Scope(r)
  BY <1>1, <1>3, JobIs DEF JobOK
<1>5. PICK src \in Inodes, fd \in Inodes : src = job[w].src /\ fd = job[w].fd
  BY <1>1, JobIs DEF JobOK
<1>6. /\ src = entry[r.path] /\ fd = entry[t] /\ t \notin Source(r) /\ b[r.path].has # <<>>
      /\ job[w].size = Len(b[r.path].has) /\ View[t] = File(<<>>) /\ \A q \in Scope(r) : q # t => View[q] = b[q]
  BY <1>2, <1>3, <1>4, <1>5 DEF Copying
<1>7. PICK s \in Seq(Nat) : s = b[r.path].has /\ b[r.path] = File(s)
  <2>1. b[r.path] # Nothing /\ b[r.path] # Collection
    BY <1>2, <1>3 DEF Nothing, Collection
  <2> QED BY <1>1, <1>3, <2>1, PastIs
<1>8. data[src] = s
  <2>1. r.path # t
    BY <1>6 DEF Source
  <2>2. View[r.path] = b[r.path]
    BY <1>3, <1>6, <2>1
  <2> QED BY <1>3, <1>6, <1>7, <2>2, ViewIs
<1>9. data[fd] = <<>>
  <2>1. View[t].has = data[fd]
    BY <1>6, ViewIs
  <2> QED BY <1>6, <2>1 DEF File
<1>10. PICK l \in Nat : l = Len(s)
  BY LenProperties
<1>11. Readable(job[w]) = l
  <2>1. Min({l, l}) = l
    BY LeastIs
  <2> QED BY <1>5, <1>6, <1>7, <1>8, <1>10, <2>1 DEF Readable
<1>12. n = l /\ n \in Nat /\ n > 0
  BY <1>11 DEF WriteCopy
<1>13. Overlay(<<>>, 0, SubSeq(s, 1, n)) = s
  <2>1. 0 \in Nat /\ n \in Nat /\ n > 0 /\ 0 + n <= Len(s)
    BY <1>10, <1>12
  <2>2. Overlay(SubSeq(s, 1, 0), 0, SubSeq(s, 0 + 1, 0 + n)) = SubSeq(s, 1, 0 + n)
    BY <2>1, OverlayNext
  <2>3. SubSeq(s, 1, 0) = <<>> /\ SubSeq(s, 1, l) = s /\ 0 + 1 = 1 /\ 0 + n = n
    BY <1>10, <1>12, SubSeqEmpty, SubSeqFull
  <2> QED BY <1>12, <2>2, <2>3
<1>14. Filled(fd, s) /\ s \in Contents
  <2>1. Becomes(entry, [data EXCEPT ![fd] = Overlay(@, 0, SubSeq(s, 1, n))])
    BY <1>5, <1>8 DEF WriteCopy
  <2>2. [data EXCEPT ![fd] = Overlay(@, 0, SubSeq(s, 1, n))] = [data EXCEPT ![fd] = s]
    BY <1>9, <1>13
  <2> QED BY <2>1, <2>2 DEF Filled, Contents
<1>15. Puts(t, File(s))
  BY <1>6, <1>14, PutsFilled
<1>16. \A q \in Scope(r) : View'[q] = Copied(b, r)[q]
  <2>1. View'[t] = b[r.path] /\ \A q \in Scope(r) : q # t => View'[q] = b[q]
    BY <1>3, <1>6, <1>7, <1>15 DEF Puts
  <2> QED BY <1>1, <1>2, <1>3, <1>4, <2>1, CopiedThere
<1>17. CASE r.method = "COPY"
  <2>1. Finish(w, job[w].status)
    BY <1>3, <1>17 DEF WriteCopy
  <2>2. Reached(r, b, View')
    BY <1>16, <1>17 DEF Reached, After
  <2> QED BY <1>1, <1>2, <1>3, <2>1, <2>2, DoneWhole
<1>18. CASE r.method = "MOVE"
  <2>1. job' = [job EXCEPT ![w].pc = "unlinksource", ![w].fd = NoFd, ![w].src = NoFd]
    BY <1>3, <1>18 DEF WriteCopy
  <2>2. job'[w] = [job[w] EXCEPT !.pc = "unlinksource", !.fd = NoFd, !.src = NoFd]
    <3>1. w \in DOMAIN job /\ DOMAIN job[w] = Fields
      BY <1>1, JobIs
    <3> QED BY <2>1, <3>1 DEF Fields
  <2>3. job'[w].req = r /\ job'[w].pc = "unlinksource" /\ job'[w].to = t /\ job'[w].status = job[w].status
    BY <1>1, <1>3, <1>4, <2>2, JobIs DEF Fields
  <2> QED BY <1>2, <1>3, <1>4, <1>6, <1>16, <2>3 DEF WholeThen, WholeOf, Fresh
<1> QED BY <1>1, <1>3, <1>17, <1>18

\* It does not fail, for there is something to read.
LEMMA CopyFailsWhole ==
  ASSUME NodeInv, NEW w \in Procs, CopyFails(w), faults \in Nat, faults' = 0, NEW b, Hopes(w, b)
  PROVE  FALSE
<1>1. Busy(w) /\ job[w].pc = "copydata" /\ Past(b)
  BY DEF CopyFails, At, Busy, Hopes
<1>2. /\ Copying(job[w], b, View, entry) /\ b[job[w].req.path].is = "file"
  BY <1>1 DEF Hopes, WholeOf
<1>3. PICK r \in Load : r = job[w].req /\ r.path \in Paths /\ r.path \in Scope(r)
  BY <1>1, JobIs
<1>4. PICK src \in Inodes : src = job[w].src
  BY <1>1, JobIs DEF JobOK
<1>5. /\ src = entry[r.path] /\ job[w].to \notin Source(r) /\ b[r.path].has # <<>>
      /\ job[w].size = Len(b[r.path].has) /\ \A q \in Scope(r) : q # job[w].to => View[q] = b[q]
  BY <1>2, <1>3, <1>4 DEF Copying
<1>6. data[src] = b[r.path].has
  <2>1. r.path # job[w].to
    BY <1>5 DEF Source
  <2> QED BY <1>3, <1>5, <2>1, ViewIs
<1>7. PICK s \in Seq(Nat) : s = data[src] /\ s # <<>>
  BY <1>5, <1>6, TreeIs
<1>8. PICK l \in Nat : l = Len(s) /\ l # 0
  BY <1>7, LenProperties, EmptySeq
<1>9. Readable(job[w]) = l
  <2>1. Min({l, l}) = l
    BY LeastIs
  <2> QED BY <1>4, <1>5, <1>6, <1>7, <1>8, <2>1 DEF Readable
<1> QED BY <1>8, <1>9 DEF CopyFails

LEMMA UnlinkSourceWhole ==
  ASSUME NodeInv, NEW w \in Procs, UnlinkSource(w), NEW b, Hopes(w, b)
  PROVE  WholeThen(w, b)
<1>1. Busy(w) /\ job[w].pc = "unlinksource" /\ job[w].req.method = "MOVE" /\ Past(b) /\ Finish(w, job[w].status)
  BY DEF UnlinkSource, At, Busy, Hopes
<1>2. PICK r \in Load : r = job[w].req /\ r.path \in Paths /\ r.path \in Scope(r) /\ Scope(r) \subseteq Paths /\ Source(r) \subseteq Scope(r)
  BY <1>1, JobIs, SourceIs
<1>3. /\ b[r.path].is = "file" /\ Into(b, r) \notin Source(r) /\ job[w].status \in {201, 204}
      /\ \A q \in Scope(r) : View[q] = Copied(b, r)[q]
  BY <1>1, <1>2 DEF Hopes, WholeOf
<1>4. \A q \in Source(r) : View[q] = b[q]
  BY <1>1, <1>2, <1>3, CopiedOfFile
<1>5. IsFile(r.path)
  <2>1. View[r.path].is = "file"
    BY <1>2, <1>3, <1>4, SourceIs
  <2> QED BY <1>2, <2>1, ViewIs DEF IsFile
<1>6. \A q \in Paths : View'[q] = IF q = r.path THEN Nothing ELSE View[q]
  <2>1. PICK x \in {Absent, Directory} : x = Absent
    OBVIOUS
  <2>2. Named(r.path, x)
    BY <1>2, <1>5, <2>1 DEF UnlinkSource, Named, Without
  <2> QED BY <1>2, <2>1, <2>2, PutsNamed DEF Puts
<1>7. \A q \in Below(r.path) : b[q] = Nothing
  <2>1. b[r.path] # Collection
    BY <1>3 DEF Collection
  <2> QED BY <1>1, <1>2, <2>1, PastIs
<1>8. Into(b, r) # r.path
  BY <1>3 DEF Source
<1>9. ASSUME NEW q \in Scope(r) PROVE View'[q] = After(b, r)[q]
  <2>1. q \in Paths
    BY <1>2
  <2>2. After(b, r)[q] = IF q \in Source(r) THEN Nothing ELSE Copied(b, r)[q]
    BY <1>1, <1>2, <1>8, <2>1, AfterMove
  <2>3. CASE q \in Source(r)
    BY <1>4, <1>6, <1>7, <2>1, <2>2, <2>3 DEF Source
  <2>4. CASE q \notin Source(r)
    BY <1>3, <1>6, <2>1, <2>2, <2>4 DEF Source
  <2> QED BY <2>3, <2>4
<1>10. Reached(r, b, View')
  BY <1>9 DEF Reached
<1> QED BY <1>1, <1>2, <1>3, <1>10, DoneWhole

-------------------------------------------------------------------------------
\* COPY and MOVE of a directory

\* Its destination is not in it, and Fair says what is in the way of a copy.
CopyOfDir(b, r) == r.method \in {"COPY", "MOVE"} /\ Past(b) /\ Fair(b, r) /\ b[r.path] = Collection

LEMMA DirApart ==
  ASSUME NEW r \in Load, NEW b, CopyOfDir(b, r)
  PROVE  /\ r.to \notin Source(r)
         /\ \A c \in Listed(r.path) : Append(r.to, Last(c)) \in Source(r) => Append(r.to, Last(c)) = r.path
<1>1. ~IntoItself(b, r)
  BY DEF CopyOfDir, Fair, Collection
<1> QED BY SMTT(30), <1>1, IntoApartOfDir DEF CopyOfDir

LEMMA DirFree ==
  ASSUME NEW r \in Load, NEW b, CopyOfDir(b, r), NEW c \in Listed(r.path), NEW t, t = Append(r.to, Last(c)), b[c] # Nothing
  PROVE  b[c] # File(<<>>) /\ b[t].is \in {"absent", b[c].is} /\ (b[t].is = "file" => r.overwrite)
<1>1. ~Stops(b, r) /\ r.method \in {"COPY", "MOVE"}
  BY DEF CopyOfDir, Fair
<1> QED BY Zenon, <1>1 DEF Stops

\* What a copy makes is in its destination.
LEMMA InDestination ==
  ASSUME NEW r \in Load, r.method \in {"COPY", "MOVE"}, NEW c \in Listed(r.path), NEW t, t = Append(r.to, Last(c)),
         entry[r.to] = Directory
  PROVE  InDir(t) /\ t \in Scope(r) /\ t \in Paths /\ t # r.to
<1>1. /\ t \in Scope(r) /\ t # r.to /\ t \in Paths /\ r.to \in Paths
      /\ \A p \in Paths : IsPrefix(p, t) => IsPrefix(p, r.to) \/ p = t
  BY CopyNames, RequestIs
<1>2. IsPrefix(r.to, t)
  <2>1. Last(c) \in STRING
    BY RequestIs, ListedIs
  <2> QED BY <1>1, <2>1, PrefixAppend
<1>3. t \in Below(r.to)
  BY <1>1, <1>2 DEF Below
<1>4. CASE Len(t) = 2 /\ InDir(t)
  BY <1>1, <1>4
<1>5. CASE /\ Front(t) \in Paths /\ t \in Below(Front(t)) /\ (r.to = Front(t) \/ Front(t) \in Below(r.to))
           /\ InDir(t) <=> entry[Front(t)] = Directory
  <2>1. IsPrefix(Front(t), t) /\ Front(t) # t
    BY <1>5 DEF Below
  <2>2. IsPrefix(Front(t), r.to)
    BY <1>1, <1>5, <2>1
  <2>3. Front(t) = r.to
    BY <1>1, <1>5, <2>2, BelowIs
  <2> QED BY <1>1, <1>5, <2>3
<1> QED BY <1>1, <1>3, <1>4, <1>5, InDirIs

LEMMA MakeDestinationWhole ==
  ASSUME NodeInv, NEW w \in Procs, MakeDestination(w), NEW b, Hopes(w, b)
  PROVE  WholeThen(w, b)
<1>1. Busy(w) /\ job[w].pc = "destdir" /\ job[w].req.method \in {"COPY", "MOVE"} /\ Past(b) /\ Fair(b, job[w].req)
  BY DEF MakeDestination, At, Busy, Hopes
<1>2. /\ Untouched(job[w].req, b, View) /\ b[job[w].req.path] = Collection /\ job[w].dirs = {} /\ ~job[w].bad
  BY <1>1 DEF Hopes, WholeOf, Fresh
<1>3. PICK r \in Load : /\ r = job[w].req /\ r.path \in Paths /\ r.to \in Paths /\ r.to \in Scope(r) /\ Scope(r) \subseteq Paths
                        /\ Below(r.path) \subseteq Scope(r)
  BY <1>1, JobIs, RequestIs
<1>4. CASE (Finish(w, 409) \/ Finish(w, 403)) /\ Unchanged
  BY <1>1, <1>2, <1>4, RefusedWhole
<1>5. CASE /\ job' = [job EXCEPT ![w].pc = "copydir", ![w].todo = Children(r.path)]
           /\ IF entry[r.to] = Absent \/ IsFile(r.to) THEN Named(r.to, Directory) ELSE Unchanged
  <2>1. PICK todo : todo = Children(r.path)
    OBVIOUS
  <2>2. job'[w] = [job[w] EXCEPT !.pc = "copydir", !.todo = todo]
    BY <1>1, <1>5, <2>1, JobIs
  <2>3. job'[w].req = r /\ job'[w].pc = "copydir" /\ job'[w].todo = todo /\ job'[w].dirs = {} /\ ~job'[w].bad
    BY <1>1, <1>2, <1>3, <2>2, JobIs DEF Fields
  <2>4. \A q \in Paths : View'[q] = IF q = r.to THEN Collection ELSE View[q]
    <3>1. CASE Named(r.to, Directory)
      <4>1. PICK x \in {Absent, Directory} : x = Directory
        OBVIOUS
      <4>2. Named(r.to, x) /\ x # Absent
        BY <3>1, <4>1, NodeNumbers
      <4> QED BY <1>3, <4>2, PutsNamed DEF Puts
    <3>2. CASE Unchanged /\ entry[r.to] # Absent /\ ~IsFile(r.to)
      <4>1. entry[r.to] = Directory
        BY <1>3, <3>2, TreeIs DEF IsFile
      <4>2. View[r.to] = Collection
        BY <1>3, <4>1, ViewIs
      <4> QED BY <3>2, <4>2, ShowsUnchanged DEF Shows
    <3> QED BY <1>5, <3>1, <3>2
  <2>5. ASSUME NEW c \in Listed(r.path), b[c] # Nothing PROVE c \in todo
    <3>1. c \in Paths /\ c \in Scope(r)
      BY <1>3, ListedIs
    <3>2. View[c] # Nothing
      BY <1>2, <1>3, <2>5, <3>1 DEF Untouched
    <3> QED BY <2>1, <3>1, <3>2, SomethingIs DEF Children, Listed
  <2>6. Listing(job'[w], b) = {}
    BY <2>3, <2>5 DEF Listing
  <2>7. View'[r.to] = Collection /\ \A q \in Scope(r) : q = r.to \/ View'[q] = b[q]
    BY <1>2, <1>3, <2>4 DEF Untouched
  <2>8. CopyingDir(job'[w], b, View')
    BY <2>3, <2>6, <2>7 DEF CopyingDir
  <2> QED BY <1>1, <1>2, <1>3, <2>3, <2>8 DEF WholeThen, WholeOf, Fresh
<1> QED BY <1>3, <1>4, <1>5 DEF MakeDestination, Named

\* One more name is copied.
LEMMA CopiedOne ==
  ASSUME NEW w \in Procs, NEW b, NEW r \in Load, r = job[w].req, r.method \in {"COPY", "MOVE"},
         CopyingDir(job[w], b, View), NEW c \in Listed(r.path), c \in job[w].todo,
         job'[w].req = r, job'[w].todo = job[w].todo \ {c}, NEW t, t = Append(r.to, Last(c)),
         \A q \in Paths : q # t => View'[q] = View[q],
         View'[t] = IF b[c] = Nothing THEN View[t] ELSE b[c]
  PROVE  CopyingDir(job'[w], b, View')
<1>1. /\ View[r.to] = Collection
      /\ \A x \in Listing(job[w], b) : View[Append(r.to, Last(x))] = b[x]
      /\ \A q \in Scope(r) : q = r.to \/ (\E x \in Listing(job[w], b) : q = Append(r.to, Last(x))) \/ View[q] = b[q]
  BY DEF CopyingDir
<1>2. /\ r.path \in Paths /\ r.to \in Paths /\ Scope(r) \subseteq Paths /\ t # r.to
      /\ \A x \in Listed(r.path) : Append(r.to, Last(x)) \in Paths
  BY RequestIs, CopyNames
<1>3. \A x : x \in Listing(job'[w], b) <=> x \in Listing(job[w], b) \/ (x = c /\ b[c] # Nothing)
  BY DEF Listing
<1>4. ASSUME NEW x \in Listing(job'[w], b) PROVE View'[Append(r.to, Last(x))] = b[x]
  <2>1. x \in Listed(r.path)
    BY DEF Listing
  <2>2. CASE x = c
    BY <1>3, <1>4, <2>2 DEF Listing
  <2>3. CASE x # c
    <3>1. Append(r.to, Last(x)) # t
      BY <1>2, <2>1, <2>3, TargetsDiffer
    <3> QED BY <1>1, <1>2, <1>3, <2>1, <2>3, <3>1
  <2> QED BY <2>2, <2>3
<1>5. ASSUME NEW q \in Scope(r), q # r.to, View'[q] # b[q] PROVE \E x \in Listing(job'[w], b) : q = Append(r.to, Last(x))
  <2>1. CASE q = t /\ b[c] # Nothing
    BY <1>3, <2>1
  <2>2. CASE q # t \/ b[c] = Nothing
    <3>1. View[q] # b[q]
      BY <1>2, <1>5, <2>2
    <3> QED BY <1>1, <1>3, <1>5, <3>1
  <2> QED BY <2>1, <2>2
<1>6. View'[r.to] = Collection
  BY <1>1, <1>2
<1> QED BY <1>4, <1>5, <1>6 DEF CopyingDir

LEMMA CopyChildWhole ==
  ASSUME NodeInv, Nested, NEW w \in Procs, NEW c \in Paths, CopyChild(w, c), NEW b, Hopes(w, b)
  PROVE  WholeThen(w, b)
<1>1. /\ Busy(w) /\ job[w].pc = "copydir" /\ job[w].req.method \in {"COPY", "MOVE"} /\ Past(b) /\ Fair(b, job[w].req)
      /\ c \in job[w].todo
  BY DEF CopyChild, At, Busy, Hopes
<1>2. /\ CopyingDir(job[w], b, View) /\ b[job[w].req.path] = Collection /\ job[w].dirs = {} /\ ~job[w].bad
  BY <1>1 DEF Hopes, WholeOf
<1>3. PICK r \in Load : /\ r = job[w].req /\ r.path \in Paths /\ r.to \in Paths /\ Scope(r) \subseteq Paths
                        /\ Source(r) \subseteq Scope(r)
  BY <1>1, JobIs, SourceIs
<1>4. c \in Listed(r.path) /\ c \in Source(r) /\ c # r.path
  <2>1. c \in Listed(r.path)
    BY <1>1, <1>3, JobIs DEF JobOK
  <2> QED BY <1>3, <2>1, ListedIs DEF Source
<1>5. /\ View[r.to] = Collection
      /\ \A q \in Scope(r) : q = r.to \/ (\E x \in Listing(job[w], b) : q = Append(r.to, Last(x))) \/ View[q] = b[q]
  BY <1>2, <1>3 DEF CopyingDir
<1>6. PICK t \in Paths : t = Append(r.to, Last(c)) /\ t \in Scope(r) /\ t # r.to /\ InDir(t)
  <2>1. entry[r.to] = Directory
    BY <1>3, <1>5, ViewIs
  <2> QED BY <1>1, <1>3, <1>4, <2>1, InDestination
<1>7. /\ r.to \notin Source(r)
      /\ \A x \in Listed(r.path) : Append(r.to, Last(x)) \in Source(r) => Append(r.to, Last(x)) = r.path
      /\ b[c] # Nothing => b[c] # File(<<>>) /\ b[t].is \in {"absent", b[c].is} /\ (b[t].is = "file" => r.overwrite)
  <2>1. CopyOfDir(b, r)
    BY <1>1, <1>2, <1>3 DEF CopyOfDir
  <2>2. ASSUME b[c] # Nothing
        PROVE  b[c] # File(<<>>) /\ b[t].is \in {"absent", b[c].is} /\ (b[t].is = "file" => r.overwrite)
    <3>1. c \in Listed(r.path)
      BY <1>4
    <3>2. t = Append(r.to, Last(c))
      BY <1>6
    <3>3. ~Stops(b, r) /\ r.method \in {"COPY", "MOVE"}
      BY <2>1 DEF CopyOfDir, Fair
    <3> QED BY Zenon, <2>2, <3>1, <3>2, <3>3 DEF Stops
  <2>3. /\ r.to \notin Source(r)
        /\ \A x \in Listed(r.path) : Append(r.to, Last(x)) \in Source(r) => Append(r.to, Last(x)) = r.path
    BY <2>1, DirApart
  <2> QED BY <2>2, <2>3
<1>8. View[c] = b[c]
  <2>1. c # r.to /\ \A x \in Listing(job[w], b) : c # Append(r.to, Last(x))
    BY <1>3, <1>4, <1>7 DEF Listing
  <2> QED BY <1>3, <1>4, <1>5, <2>1
<1>9. View[t] = b[t]
  <2>1. \A x \in Listing(job[w], b) : t # Append(r.to, Last(x))
    BY <1>1, <1>3, <1>4, <1>6, TargetsDiffer DEF Listing
  <2> QED BY <1>5, <1>6, <2>1
<1>10. t # c
  BY <1>4, <1>6, <1>7
<1> DEFINE goesOn == job' = [job EXCEPT ![w].todo = @ \ {c}]
<1>11. ASSUME goesOn, \A q \in Paths : q # t => View'[q] = View[q], View'[t] = IF b[c] = Nothing THEN View[t] ELSE b[c]
       PROVE  WholeThen(w, b)
  <2>1. job'[w] = [job[w] EXCEPT !.todo = @ \ {c}]
    BY <1>1, <1>11, JobIs
  <2>2. job'[w].req = r /\ job'[w].pc = "copydir" /\ job'[w].todo = job[w].todo \ {c} /\ job'[w].dirs = {} /\ ~job'[w].bad
    BY <1>1, <1>2, <1>3, <2>1, JobIs DEF Fields
  <2>3. CopyingDir(job'[w], b, View')
    <3>1. CopyingDir(job[w], b, View) /\ r.method \in {"COPY", "MOVE"} /\ c \in job[w].todo /\ r = job[w].req
      BY <1>1, <1>2, <1>3
    <3>2. job'[w].req = r /\ job'[w].todo = job[w].todo \ {c}
      BY <2>2
    <3> HIDE DEF goesOn
    <3> QED BY ZenonT(60), <1>4, <1>6, <1>11, <3>1, <3>2, CopiedOne
  <2> QED BY <1>1, <1>2, <1>3, <2>2, <2>3 DEF WholeThen, WholeOf, Fresh
<1> HIDE DEF goesOn
<1>12. PICK i : i = IF IsFile(t) THEN entry[t] ELSE NewInode
  OBVIOUS
<1>13. i \in Inodes /\ (Free(i) \/ entry[t] = i)
  BY <1>12, CopyTo
<1>14. CASE entry[c] = Absent /\ Unchanged /\ goesOn
  <2>1. b[c] = Nothing
    BY <1>8, <1>14, SomethingIs
  <2> QED BY <1>11, <1>14, <2>1, ShowsUnchanged DEF Shows
<1>15. CASE /\ IsDir(c) /\ goesOn
            /\ IF entry[t] = Absent /\ InDir(t) THEN Named(t, Directory) ELSE Unchanged
  <2>1. b[c] = Collection /\ b[c] # Nothing /\ b[c].is = "directory"
    <3>1. b[c] = Collection
      BY <1>8, <1>15, IsDirIs, ViewIs
    <3> QED BY <3>1 DEF Collection, Nothing
  <2>2. CASE entry[t] = Absent
    <3>1. PICK x \in {Absent, Directory} : x = Directory
      OBVIOUS
    <3>2. Named(t, x) /\ x # Absent
      BY <1>6, <1>15, <2>2, <3>1, NodeNumbers
    <3>3. \A q \in Paths : View'[q] = IF q = t THEN Collection ELSE View[q]
      BY <3>2, PutsNamed DEF Puts
    <3> QED BY <1>11, <1>15, <2>1, <3>3
  <2>3. CASE entry[t] # Absent
    <3>1. View[t] = Collection
      BY <1>7, <1>9, <2>1, <2>3, ViewIs
    <3> QED BY <1>11, <1>15, <2>1, <2>3, <3>1, ShowsUnchanged DEF Shows
  <2> QED BY <2>2, <2>3
<1>16. IsFile(c) => Refusal(c, t, r.overwrite) = 0 /\ b[c] = File(data[entry[c]]) /\ b[c] # Nothing
  <2> SUFFICES ASSUME IsFile(c) PROVE Refusal(c, t, r.overwrite) = 0 /\ b[c] = File(data[entry[c]]) /\ b[c] # Nothing
    OBVIOUS
  <2>1. entry[c] \in Inodes
    BY DEF IsFile
  <2>2. b[c].is = "file" /\ b[c] = File(data[entry[c]]) /\ b[c] # Nothing
    <3>1. b[c].is = "file" /\ b[c].has = data[entry[c]]
      BY <1>8, <2>1, ViewIs
    <3>2. b[c] = File(b[c].has)
      <4>1. b[c] # Nothing /\ b[c] # Collection
        BY <3>1 DEF Nothing, Collection
      <4> QED BY <1>1, <4>1, PastIs
    <3> QED BY <3>1, <3>2 DEF Nothing
  <2>3. data[entry[c]] # <<>>
    BY <1>7, <2>2
  <2>4. ~IsDir(t) /\ (entry[t] # Absent => r.overwrite)
    <3>1. View[t].is \in {"absent", "file"} /\ (View[t].is = "file" => r.overwrite)
      BY <1>7, <1>9, <2>2
    <3> QED BY <3>1, IsDirIs, ViewIs
  <2> QED BY <1>6, <2>2, <2>3, <2>4 DEF Refusal
<1>17. CASE IsFile(c) /\ goesOn /\ Becomes([entry EXCEPT ![t] = i], [data EXCEPT ![i] = data[entry[c]]])
  <2>1. PICK s \in Contents : s = data[entry[c]]
    BY <1>17, TreeIs DEF IsFile, Contents
  <2>2. Filed(t, i, s)
    BY <1>17, <2>1 DEF Filed
  <2>3. \A q \in Paths : View'[q] = IF q = t THEN File(s) ELSE View[q]
    BY <1>13, <2>2, PutsFiled DEF Puts
  <2> QED BY <1>11, <1>16, <1>17, <2>1, <2>3
<1> DEFINE no == Refusal(c, t, r.overwrite)
<1>18. \/ entry[c] = Absent /\ Unchanged /\ goesOn
       \/ /\ IsDir(c) /\ goesOn
          /\ IF entry[t] = Absent /\ InDir(t) THEN Becomes([entry EXCEPT ![t] = Directory], data) ELSE Unchanged
       \/ IsFile(c) /\ no # 0
       \/ IsFile(c) /\ t = c
       \/ IsFile(c) /\ goesOn /\ Becomes([entry EXCEPT ![t] = i], [data EXCEPT ![i] = data[entry[c]]])
  BY <1>3, <1>6, <1>12 DEF CopyChild, goesOn
<1> QED BY <1>10, <1>14, <1>15, <1>16, <1>17, <1>18 DEF Named

LEMMA CopiedDirWhole ==
  ASSUME NodeInv, Nested, NEW w \in Procs, CopiedDir(w), NEW b, Hopes(w, b)
  PROVE  WholeThen(w, b)
<1>1. /\ Busy(w) /\ job[w].pc = "copydir" /\ job[w].req.method \in {"COPY", "MOVE"} /\ Past(b) /\ Fair(b, job[w].req)
      /\ job[w].todo = {} /\ Unchanged
  BY DEF CopiedDir, At, Busy, Hopes
<1>2. CopyingDir(job[w], b, View) /\ b[job[w].req.path] = Collection /\ job[w].dirs = {} /\ ~job[w].bad
  BY <1>1 DEF Hopes, WholeOf
<1>3. PICK r \in Load : /\ r = job[w].req /\ r.path \in Paths /\ r.to \in Paths /\ Scope(r) \subseteq Paths
                        /\ r.path \in Scope(r) /\ r.path \in Source(r)
  BY <1>1, JobIs, SourceIs
<1>4. \A x : x \in Listing(job[w], b) <=> x \in Listed(r.path) /\ b[x] # Nothing
  BY <1>1, <1>3 DEF Listing
<1>5. /\ View[r.to] = Collection
      /\ \A c \in Listing(job[w], b) : View[Append(r.to, Last(c))] = b[c]
      /\ \A q \in Scope(r) : q = r.to \/ (\E x \in Listing(job[w], b) : q = Append(r.to, Last(x))) \/ View[q] = b[q]
  BY <1>2, <1>3 DEF CopyingDir
<1>6. /\ Copied(b, r)[r.to] = Collection
      /\ \A c \in Listed(r.path) : b[c] # Nothing => Copied(b, r)[Append(r.to, Last(c))] = b[c]
      /\ \A q \in Paths : q = r.to \/ (\E c \in Listed(r.path) : b[c] # Nothing /\ q = Append(r.to, Last(c)))
                          \/ Copied(b, r)[q] = b[q]
  BY <1>1, <1>2, <1>3, CopiedOfDir
<1>7. ASSUME NEW q \in Scope(r) PROVE View[q] = Copied(b, r)[q]
  <2>1. CASE q = r.to
    BY <1>5, <1>6, <2>1
  <2>2. CASE \E c \in Listed(r.path) : b[c] # Nothing /\ q = Append(r.to, Last(c))
    BY <1>4, <1>5, <1>6, <2>2
  <2>3. CASE q # r.to /\ ~ \E c \in Listed(r.path) : b[c] # Nothing /\ q = Append(r.to, Last(c))
    BY <1>3, <1>4, <1>5, <1>6, <2>3
  <2> QED BY <2>1, <2>2, <2>3
<1>8. CASE r.method = "COPY"
  <2>1. Finish(w, 201)
    BY <1>3, <1>8 DEF CopiedDir
  <2>2. \A q \in Scope(r) : View'[q] = Copied(b, r)[q]
    BY <1>1, <1>3, <1>7, ShowsUnchanged DEF Shows
  <2>3. Reached(r, b, View')
    BY <1>8, <2>2 DEF Reached, After
  <2> QED BY <1>1, <1>3, <2>1, <2>3, DoneWhole
<1>9. CASE r.method = "MOVE"
  <2>1. PICK todo : todo = Children(r.path)
    OBVIOUS
  <2>2. job' = [job EXCEPT ![w].pc = "empty", ![w].todo = todo]
    BY <1>3, <1>9, <2>1 DEF CopiedDir
  <2>3. job'[w] = [job[w] EXCEPT !.pc = "empty", !.todo = todo]
    BY <1>1, <2>2, JobIs
  <2>4. job'[w].req = r /\ job'[w].pc = "empty" /\ job'[w].todo = todo /\ job'[w].dirs = {} /\ ~job'[w].bad
    BY <1>1, <1>2, <1>3, <2>3, JobIs DEF Fields
  <2>5. View[r.path] = Collection
    <3>1. CASE r.path = r.to \/ View[r.path] = b[r.path]
      BY <1>2, <1>3, <1>5, <3>1
    <3>2. CASE \E c \in Listing(job[w], b) : r.path = Append(r.to, Last(c))
      <4>1. PICK c \in Listed(r.path) : r.path = Append(r.to, Last(c)) /\ b[c] # Nothing /\ View[r.path] = b[c]
        BY <1>4, <1>5, <3>2
      <4>2. b[r.path].is \in {"absent", b[c].is} /\ b[r.path].is = "directory"
        <5>0. CopyOfDir(b, r)
          BY <1>1, <1>2, <1>3 DEF CopyOfDir
        <5>1. b[r.path].is \in {"absent", b[c].is}
          BY <1>3, <4>1, <5>0, DirFree
        <5> QED BY <1>2, <1>3, <5>1 DEF Collection
      <4>3. b[c].is = "directory"
        BY <4>2
      <4>4. c \in Paths
        BY DEF Listed
      <4>5. b[c] = Collection
        BY <1>1, <4>3, <4>4, PastIs
      <4> QED BY <4>1, <4>5
    <3> QED BY <1>3, <1>5, <3>1, <3>2
  <2>6. \A q \in Scope(r) : View[q] = Base(b, r)[q]
    BY <1>7, <1>9 DEF Base
  <2> QED BY <1>1, <1>2, <1>3, <2>1, <2>4, <2>5, <2>6, EmptyingStarts
<1> QED BY <1>1, <1>3, <1>8, <1>9

\* A GET or HEAD changes nothing.
LEMMA ReadsWhole ==
  ASSUME NodeInv, CacheOK, NEW w \in Procs, Reads(w), NEW b, Hopes(w, b)
  PROVE  WholeThen(w, b)
<1>1. /\ Works(w) /\ Unchanged /\ job[w].pc \in {"cache", "sendopen", "send"} /\ ReadOnly(job[w].req)
      /\ job'[w].pc \in {"sendopen", "send", "answer"}
  <2>1. CASE StatCached(w)
    <3>1. /\ Works(w) /\ Unchanged /\ job[w].pc = "cache" /\ ReadOnly(job[w].req)
          /\ job'[w].pc = "answer" \/ job'[w].pc = IF job[w].req.method = "GET" /\ Found(w) > 0 THEN "sendopen" ELSE "answer"
      BY <2>1, StatCachedWorks
    <3> QED BY <3>1
  <2>2. CASE OpenToSend(w)
    BY <2>2, OpenToSendWorks
  <2>3. CASE \E n \in 0..MaxBody : SendBody(w, n)
    BY <2>3, SendBodyWorks
  <2> QED BY <2>1, <2>2, <2>3 DEF Reads
<1>2. Busy(w) /\ job'[w].req = job[w].req
  BY <1>1 DEF Works
<1>3. Untouched(job[w].req, b, View)
  BY <1>1 DEF Hopes, WholeOf, Fresh
<1>4. Untouched(job'[w].req, b, View')
  BY <1>1, <1>2, <1>3, UntouchedStays
<1>5. After(b, job[w].req) = b
  BY <1>1 DEF After, ReadOnly
<1>6. Outcome(job'[w], b, View')
  BY <1>2, <1>4, <1>5 DEF Outcome, Reached, Untouched
<1> QED BY <1>1, <1>4, <1>6 DEF WholeThen, WholeOf

\* Its next step, whatever it is.
LEMMA StepWhole ==
  ASSUME NodeInv, CacheOK, Nested, NEW w \in Procs, WorkerStep(w), faults \in Nat, faults' = 0, NEW b, Hopes(w, b)
  PROVE  WholeThen(w, b)
<1>1. ASSUME OpenForPut(w) \/ CreateForPut(w) \/ (\E n \in 1..MaxBody : WriteBody(w, n)) \/ WriteFails(w)
      PROVE  WholeThen(w, b)
  BY <1>1, OpenForPutWhole, CreateForPutWhole, WriteBodyWhole, WriteFailsWhole
<1>2. ASSUME MakeCollection(w) \/ StatForDelete(w) \/ Unlink(w) \/ RemoveOuter(w)
      PROVE  WholeThen(w, b)
  BY <1>2, MakeCollectionWhole, StatForDeleteWhole, UnlinkWhole, RemoveOuterWhole
<1>3. ASSUME NEW c \in Paths, DeleteChild(w, c) \/ RemoveInner(w, c) \/ CopyChild(w, c)
      PROVE  WholeThen(w, b)
  BY <1>3, DeleteChildWhole, RemoveInnerWhole, CopyChildWhole
<1>4. ASSUME StatSource(w) \/ StatDestination(w) \/ Rename(w) \/ OpenForCopy(w) \/ UnlinkSource(w)
      PROVE  WholeThen(w, b)
  BY <1>4, StatSourceWhole, StatDestinationWhole, RenameWhole, OpenForCopyWhole, UnlinkSourceWhole
<1>5. ASSUME (\E n \in 1..MaxBody : WriteCopy(w, n)) \/ CopyFails(w)
      PROVE  WholeThen(w, b)
  BY <1>5, WriteCopyWhole, CopyFailsWhole
<1>6. ASSUME MakeDestination(w) \/ CopiedDir(w)
      PROVE  WholeThen(w, b)
  BY <1>6, MakeDestinationWhole, CopiedDirWhole
<1>7. ASSUME Reads(w) PROVE WholeThen(w, b)
  BY <1>7, ReadsWhole
<1> QED BY Zenon, <1>1, <1>2, <1>3, <1>4, <1>5, <1>6, <1>7 DEF WorkerStep, Reads

-------------------------------------------------------------------------------
\* What is whole so far stays so while others work

LEMMA WholeAs ==
  ASSUME NEW j, JobOK(j), NEW b, NEW V, NEW E, NEW V1, NEW E1, WholeOf(j, b, V, E),
         \A q \in Scope(j.req) : V1[q] = V[q] /\ E1[q] = E[q],
         j.pc = "open" /\ Len(j.req.path) > 2 => V1[Front(j.req.path)].is = V[Front(j.req.path)].is
  PROVE  WholeOf(j, b, V1, E1)
<1> DEFINE r == j.req
<1>1. r \in Load /\ r.path \in Scope(r) /\ Source(r) \subseteq Scope(r) /\ Below(r.path) \subseteq Scope(r)
  BY RequestIs, SourceIs DEF JobOK
<1>2. r.method \in {"COPY", "MOVE"} => j.to \in Scope(r) /\ r.to \in Scope(r)
  BY RequestIs DEF JobOK
<1>3. Untouched(r, b, V) => Untouched(r, b, V1)
  BY DEF Untouched
<1>4. j.pc = "write" => Writing(j, b, V1, E1)
  BY <1>1, <1>3 DEF WholeOf, Writing
<1>5. j.pc = "copydata" => Copying(j, b, V1, E1)
  BY <1>1, <1>2 DEF WholeOf, Copying
<1>6. j.pc = "copydir" => CopyingDir(j, b, V1)
  <2> SUFFICES ASSUME j.pc = "copydir" PROVE CopyingDir(j, b, V1)
    OBVIOUS
  <2>1. CopyingDir(j, b, V) /\ r.method \in {"COPY", "MOVE"}
    BY DEF WholeOf
  <2>2. \A c \in Listing(j, b) : Append(r.to, Last(c)) \in Scope(r)
    BY <1>1, <2>1, CopyNames DEF Listing
  <2> QED BY <1>2, <2>1, <2>2 DEF CopyingDir
<1>7. j.pc = "empty" => Emptying(j, b, V1)
  <2> SUFFICES ASSUME j.pc = "empty" PROVE Emptying(j, b, V1)
    OBVIOUS
  <2>1. Emptying(j, b, V) /\ j.dirs \subseteq Scope(r)
    BY <1>1 DEF WholeOf, JobOK
  <2> QED BY <1>1, <2>1 DEF Emptying
<1>8. j.pc = "unlinksource" => \A q \in Scope(r) : V1[q] = Copied(b, r)[q]
  BY DEF WholeOf
<1>9. j.pc = "answer" => Outcome(j, b, V1)
  BY <1>3 DEF WholeOf, Outcome, Reached
<1>10. j.pc = "open" /\ Len(r.path) > 2 => V1[Front(r.path)].is = b[Front(r.path)].is
  BY DEF WholeOf
<1> QED BY <1>3, <1>4, <1>5, <1>6, <1>7, <1>8, <1>9, <1>10 DEF WholeOf

\* A request that met no rival, as long as nothing has failed.
SoFar(w) ==
  Watched(w) /\ faults = 0 =>
    LET b == seen[w].before
    IN  Past(b) /\ (Fair(b, job[w].req) => WholeOf(job[w], b, View, entry))

\* Failures are counted.
LEMMA FaultsGrow ==
  ASSUME faults \in Nat, TreeNext
  PROVE  faults' \in Nat /\ (faults' = 0 => faults = 0)
<1>1. ASSUME NEW w \in Procs, WorkerStep(w) PROVE faults' \in {faults, faults + 1}
  BY Zenon, <1>1 DEF WorkerStep, OpenForPut, CreateForPut, WriteBody, WriteFails, MakeCollection, StatForDelete, Unlink,
     DeleteChild, RemoveInner, RemoveOuter, StatSource, StatDestination, Rename, OpenForCopy, WriteCopy, CopyFails,
     UnlinkSource, MakeDestination, CopyChild, CopiedDir, StatCached, OpenToSend, SendBody
<1>2. ASSUME NEW w \in Procs, Answer(w) \/ Clock(w) \/ Dies(w) PROVE faults' \in {faults, faults + 1}
  BY <1>2 DEF Answer, Clock, Second, Cleanup, Dies
<1>3. ASSUME NEW w \in Procs, NEW r \in Load, Take(w, r) PROVE faults' \in {faults, faults + 1}
  BY <1>3 DEF Take
<1>4. faults' \in {faults, faults + 1}
  BY <1>1, <1>2, <1>3, NextKinds
<1> QED BY <1>4

\* Nor does a step of the others' change what its name is in.
LEMMA QuietAbove ==
  ASSUME NodeInv, Separate, NEW w \in Procs, NEW v \in Procs, Watched(w), Busy(v), v # w, Foot(v),
         ReadOnly(job[v].req) => Unchanged, Len(job[w].req.path) > 2
  PROVE  entry'[Front(job[w].req.path)] = entry[Front(job[w].req.path)]
<1>1. job[w].req \in Load /\ job[w].req.path \in Paths /\ job[w].req.path \in Scope(job[w].req)
  BY JobIs DEF Watched
<1>2. PICK f \in Paths : f = Front(job[w].req.path) /\ job[w].req.path \in Below(f)
  BY <1>1, FrontIs
<1>3. CASE ReadOnly(job[v].req)
  BY <1>3 DEF Unchanged
<1>4. CASE ~ReadOnly(job[v].req)
  <2>1. Scope(job[w].req) \cap Scope(job[v].req) = {}
    BY <1>4 DEF Separate, Reading
  <2>2. f \notin Scope(job[v].req)
    <3> SUFFICES ASSUME f \in Scope(job[v].req) PROVE FALSE
      OBVIOUS
    <3>1. PICK n \in NamesOf(job[v].req) : IsPrefix(n, f)
      BY DEF Scope
    <3>2. n \in Paths
      <4>1. job[v].req \in Load
        BY JobIs
      <4> QED BY <3>1, <4>1, RequestIs
    <3>3. IsPrefix(n, job[w].req.path)
      BY <1>1, <1>2, <3>1, <3>2, PrefixTrans DEF Below
    <3>4. job[w].req.path \in Scope(job[v].req)
      BY <1>1, <3>1, <3>3 DEF Scope
    <3> QED BY <1>1, <2>1, <3>4
  <2> QED BY <1>2, <2>2 DEF Foot
<1> QED BY <1>3, <1>4

\* What it is after a step.
LEMMA WholeNext ==
  ASSUME NEW w \in Procs, (Watched(w) /\ faults = 0)' =>
           Past(seen'[w].before) /\ (Fair(seen'[w].before, job'[w].req) => WholeOf(job'[w], seen'[w].before, View', entry'))
  PROVE  SoFar(w)'
BY Zenon DEF SoFar, Past, NestedIn, Below, Fair, Stops, Hollow, IntoItself, Into, Listed, WholeOf, Untouched, Writing, Copying,
   CopyingDir, Listing, Emptying, Base, Copied, Copies, Outcome, Reached, After, Removed, Scope, NamesOf, Source, Ranged, File

LEMMA WholeStays ==
  ASSUME NodeInv, NodeInv', SeenOK, Remember, NEW w \in Procs, SoFar(w), Busy(w), Busy(w)', job'[w] = job[w],
         faults' = 0 => faults = 0, Watched(w) => \A q \in Scope(job[w].req) : Stays(q),
         Watched(w) /\ Len(job[w].req.path) > 2 => entry'[Front(job[w].req.path)] = entry[Front(job[w].req.path)]
  PROVE  SoFar(w)'
<1>1. seen'[w].before = seen[w].before /\ (seen'[w].alone => seen[w].alone)
  BY SeenIs
<1>2. PICK b : b = seen[w].before
  OBVIOUS
<1>3. (Watched(w) /\ faults = 0)' => Watched(w) /\ faults = 0
  BY <1>1 DEF Watched, Ranged
<1>4. ASSUME Watched(w), Fair(b, job[w].req), WholeOf(job[w], b, View, entry)
      PROVE  WholeOf(job[w], b, View', entry')
  <2>1. JobOK(job[w]) /\ job[w].req.path \in Paths
    BY JobIs
  <2>2. \A q \in Scope(job[w].req) : View'[q] = View[q] /\ entry'[q] = entry[q]
    BY <1>4, JobIs, ViewStays DEF Stays
  <2>3. ASSUME Len(job[w].req.path) > 2
        PROVE  View'[Front(job[w].req.path)].is = View[Front(job[w].req.path)].is
    <3>1. PICK f \in Paths : f = Front(job[w].req.path)
      BY <2>1, <2>3, FrontIs
    <3>2. entry'[f] = entry[f]
      BY <1>4, <2>3, <3>1
    <3>3. View'[f].is = View[f].is
      <4>1. entry[f] \in Inodes \cup {Absent, Directory}
        BY TreeIs
      <4>2. /\ View[f] = CASE entry[f] = Absent -> Nothing [] entry[f] = Directory -> Collection [] OTHER -> File(data[entry[f]])
            /\ View'[f] = CASE entry'[f] = Absent -> Nothing [] entry'[f] = Directory -> Collection [] OTHER -> File(data'[entry'[f]])
        BY DEF View, ViewOf
      <4>3. \A s : File(s).is = "file"
        BY DEF File
      <4> QED BY <3>2, <4>2, <4>3
    <3> QED BY <3>1, <3>3
  <2> QED BY <1>4, <2>1, <2>2, <2>3, WholeAs
<1>5. (Watched(w) /\ faults = 0)' => Past(b) /\ (Fair(b, job[w].req) => WholeOf(job[w], b, View', entry'))
  BY <1>2, <1>3, <1>4 DEF SoFar
<1> QED BY <1>1, <1>2, <1>5, WholeNext

LEMMA WholeStep ==
  ASSUME NodeInv, NodeInv', CacheOK, SeenOK, Separate, Nested, Remember, faults \in Nat, faults' = 0 => faults = 0,
         NEW w \in Procs, SoFar(w), NEW u \in Procs, WorkerStep(u)
  PROVE  SoFar(w)'
<1>1. Foot(u) /\ Works(u) /\ (ReadOnly(job[u].req) => Unchanged)
  BY WorkerStepWorks
<1>2. Busy(w)' => Busy(w) /\ job'[w].req = job[w].req
  BY <1>1 DEF Works, Busy
<1>3. CASE ~Busy(w)'
  <2>1. ~Watched(w)'
    BY <1>3 DEF Watched
  <2> QED BY <2>1, WholeNext
<1>4. CASE Busy(w)' /\ u # w
  <2>1. Busy(w) /\ job'[w] = job[w]
    BY <1>1, <1>2, <1>4 DEF Works
  <2>2. Watched(w) => \A q \in Scope(job[w].req) : Stays(q)
    BY <1>1, <1>4, Quiet DEF Works
  <2>3. Watched(w) /\ Len(job[w].req.path) > 2 => entry'[Front(job[w].req.path)] = entry[Front(job[w].req.path)]
    BY <1>1, <1>4, QuietAbove DEF Works
  <2> QED BY <1>4, <2>1, <2>2, <2>3, WholeStays
<1>5. CASE Busy(w)' /\ u = w
  <2> SUFFICES ASSUME (Watched(w) /\ faults = 0)'
               PROVE  /\ Past(seen'[w].before)
                      /\ Fair(seen'[w].before, job'[w].req) => WholeOf(job'[w], seen'[w].before, View', entry')
    BY WholeNext
  <2>1. seen'[w].before = seen[w].before /\ (seen'[w].alone => seen[w].alone)
    BY <1>2, <1>5, SeenIs
  <2>2. Watched(w) /\ faults = 0 /\ faults' = 0
    BY <1>2, <1>5, <2>1 DEF Watched, Ranged
  <2>3. PICK b : b = seen[w].before
    OBVIOUS
  <2>4. Past(b) /\ (Fair(b, job[w].req) => WholeOf(job[w], b, View, entry))
    BY <2>2, <2>3 DEF SoFar
  <2>5. ASSUME Fair(b, job[w].req) PROVE WholeThen(w, b)
    <3>1. job[w].req \in Load
      BY <2>2, JobIs DEF Watched
    <3>2. Hopes(w, b)
      BY <2>2, <2>4, <2>5, <3>1 DEF Hopes, Watched
    <3> QED BY <1>5, <2>2, <3>2, StepWhole
  <2> QED BY <1>2, <1>5, <2>1, <2>3, <2>4, <2>5 DEF WholeThen
<1> QED BY <1>3, <1>4, <1>5

LEMMA WholeRests ==
  ASSUME NodeInv, NodeInv', SeenOK, Remember, Rests, faults' = 0 => faults = 0, NEW w \in Procs, SoFar(w)
  PROVE  SoFar(w)'
<1>1. CASE ~Busy(w)'
  <2>1. ~Watched(w)'
    BY <1>1 DEF Watched
  <2> QED BY <2>1, WholeNext
<1>2. CASE Busy(w)'
  <2>1. Busy(w) /\ job'[w] = job[w] /\ \A q \in Paths : Stays(q)
    BY <1>2 DEF Rests
  <2>2. job[w].req.path \in Paths /\ \A q \in Scope(job[w].req) : Stays(q)
    BY <2>1, JobIs
  <2>3. Len(job[w].req.path) > 2 => entry'[Front(job[w].req.path)] = entry[Front(job[w].req.path)]
    BY <2>1, <2>2, FrontIs DEF Stays
  <2> QED BY <1>2, <2>1, <2>2, <2>3, WholeStays
<1> QED BY <1>1, <1>2

\* When it comes, nothing is changed yet.
LEMMA WholeTake ==
  ASSUME NodeInv, NodeInv', SeenOK, Nested, Remember, faults' = 0 => faults = 0,
         NEW u \in Procs, NEW r \in Load, Take(u, r), NEW w \in Procs, SoFar(w)
  PROVE  SoFar(w)'
<1>1. /\ (\A q \in Paths : Stays(q)) /\ ~Busy(u) /\ Busy(u)' /\ (\A v \in Procs : v # u => job'[v] = job[v])
      /\ job'[u].req = r /\ job'[u].pc = FirstCall(r) /\ job'[u].done = 0
  BY TakeIs
<1>2. CASE w = u
  <2>1. seen'[u].before = View
    BY <1>1, SeenNew
  <2>2. Past(View)
    BY NowIsPast
  <2>3. View' = View
    BY <1>1, ViewStays DEF View, ViewOf
  <2>4. job'[u].pc \in {"open", "mkdir", "cache", "stat"} /\ job'[u].dirs = {} /\ ~job'[u].bad
    <3>1. FirstCall(r) \in {"open", "mkdir", "cache", "stat"}
      BY DEF FirstCall
    <3>2. PICK j : j = [req |-> r, pc |-> FirstCall(r), status |-> 0, fd |-> NoFd, src |-> NoFd, done |-> 0,
                        got |-> <<>>, size |-> 0, to |-> r.to, todo |-> {}, dirs |-> {}, bad |-> FALSE]
      OBVIOUS
    <3>3. j.dirs = {} /\ j.bad = FALSE
      BY <3>2
    <3>4. job'[u] = j
      <4>1. job' = [job EXCEPT ![u] = j] /\ DOMAIN job = Procs
        BY <3>2 DEF Take, NodeInv, JobsOK
      <4> QED BY <4>1
    <3> QED BY <1>1, <3>1, <3>3, <3>4
  <2>5. WholeOf(job'[u], View, View', entry')
    BY <1>1, <2>3, <2>4 DEF WholeOf, Untouched
  <2> QED BY <1>2, <2>1, <2>2, <2>5, WholeNext
<1>3. CASE w # u /\ Busy(w)'
  <2>1. job'[w] = job[w] /\ Busy(w)
    BY <1>1, <1>3 DEF Busy
  <2>2. job[w].req.path \in Paths /\ \A q \in Scope(job[w].req) : Stays(q)
    BY <1>1, <2>1, JobIs
  <2>3. Len(job[w].req.path) > 2 => entry'[Front(job[w].req.path)] = entry[Front(job[w].req.path)]
    BY <1>1, <2>2, FrontIs DEF Stays
  <2> QED BY <1>3, <2>1, <2>2, <2>3, WholeStays
<1>4. CASE ~Busy(w)'
  <2>1. ~Watched(w)'
    BY <1>4 DEF Watched
  <2> QED BY <2>1, WholeNext
<1> QED BY <1>1, <1>2, <1>3, <1>4

LEMMA WholeAll ==
  ASSUME NodeInv, CacheOK, SeenOK, Separate, Nested, faults \in Nat, TreeNext, \A w \in Procs : SoFar(w)
  PROVE  \A w \in Procs : SoFar(w)'
<1>1. NodeInv' /\ Remember /\ (faults' = 0 => faults = 0)
  BY NodeInvStays, FaultsGrow DEF TreeNext
<1> QED BY <1>1, NextKinds, WholeStep, WholeRests, WholeTake, AnswerRests, ClockRests, DiesRests

-------------------------------------------------------------------------------
\* Sections of a file

\* A section of a file, of a request that met no rival.
Section(w) == Busy(w) /\ seen[w].alone /\ Ranged(job[w].req)

\* Two sections of one file.
Shares(r, s) == /\ Ranged(s) /\ s.path = r.path
                /\ r.off + Len(r.body) <= s.off \/ s.off + Len(s.body) <= r.off

\* What it has to do with others: they read, or have other names and write to other files, or
\* write to another part of the file.
Apart(w, v) ==
  \/ ReadOnly(job[v].req)
  \/ /\ Scope(job[w].req) \cap Scope(job[v].req) = {}
     /\ \A q \in Scope(job[w].req) : entry[q] \in Inodes => entry[q] # job[v].fd
  \/ Shares(job[w].req, job[v].req) /\ entry[job[w].req.path] \in Inodes
SectionsApart == \A w, v \in Procs : Section(w) /\ Busy(v) /\ v # w => Apart(w, v)

\* So much of the body is in its place.
InPlace(r, n, s) == \A k \in 1..n : r.off + k <= Len(s) /\ s[r.off + k] = r.body[k]

\* A refusal finds no file; when there is one, no section of it is refused.
SectionOf(j, b, V, E) ==
  LET r == j.req
      f == E[r.path] \in Inodes
  IN  /\ j.pc \in {"open", "create"} => j.done = 0
      /\ j.pc = "open" => f \/ Untouched(r, b, V)
      /\ j.pc = "create" => E[r.path] = Absent /\ Untouched(r, b, V)
      /\ j.pc = "write" => /\ f /\ j.fd = E[r.path] /\ j.status = 200
                           /\ j.done <= Len(r.body) /\ InPlace(r, j.done, V[r.path].has)
      /\ j.pc = "answer" => IF j.status \in 200..206
                            THEN f /\ InPlace(r, Len(r.body), V[r.path].has)
                            ELSE ~f /\ Untouched(r, b, V)
Placed(w) == Section(w) /\ faults = 0 => SectionOf(job[w], seen[w].before, View, entry)

LEMMA RangedIs ==
  ASSUME NEW r \in Load, Ranged(r)
  PROVE  /\ r.off \in Nat /\ Offset(r) = r.off /\ r.body \in Seq(Nat) /\ Len(r.body) \in Nat /\ r.method = "PUT"
         /\ \A i \in 1..Len(r.body) : r.body[i] \in Nat
BY RequestIs, LenProperties, ElementOfSeq DEF Ranged, Offset

\* What a write() changes, and what it does not.
LEMMA OverlayKeeps ==
  ASSUME NEW s \in Seq(Nat), NEW o \in Nat, NEW us \in Seq(Nat), NEW t, t = Overlay(s, o, us)
  PROVE  /\ t \in Seq(Nat) /\ Len(t) \in Nat /\ Len(s) \in Nat /\ Len(s) <= Len(t)
         /\ \A i \in 1..Len(s) : i <= o \/ i > o + Len(us) => t[i] = s[i]
         /\ \A k \in 1..Len(us) : o + k <= Len(t) /\ t[o + k] = us[k]
<1>1. PICK l \in Nat : l = Len(s)
  BY LenProperties
<1>2. PICK m \in Nat : m = Len(us) /\ (us = <<>> <=> m = 0)
  BY LenProperties, EmptySeq
<1>3. PICK n \in Nat : n = IF m = 0 \/ l >= o + m THEN l ELSE o + m
  BY <1>1, <1>2
<1>4. t = [i \in 1..n |-> IF i > o /\ i <= o + m THEN us[i - o] ELSE IF i <= l THEN s[i] ELSE 0]
  BY <1>1, <1>2, <1>3 DEF Overlay
<1>5. t \in Seq(Nat)
  BY OverlayTyped
<1>6. Len(t) \in Nat /\ DOMAIN t = 1..Len(t) /\ DOMAIN t = 1..n
  BY <1>4, <1>5, LenProperties
<1>7. Len(t) = n
  <2>1. PICK k \in Nat : k = Len(t) /\ 1..k = 1..n
    BY <1>6
  <2>2. (k \in 1..k <=> k > 0) /\ (k \in 1..n <=> k > 0 /\ k <= n) /\ (n \in 1..n <=> n > 0) /\ (n \in 1..k <=> n > 0 /\ n <= k)
    OBVIOUS
  <2>3. (k > 0 => k <= n) /\ (n > 0 => n <= k)
    BY Zenon, <2>1, <2>2
  <2> QED BY <2>1, <2>3
<1>8. l <= n
  BY <1>3
<1>9. ASSUME NEW i \in 1..l, i <= o \/ i > o + m PROVE t[i] = s[i]
  <2>1. i \in 1..n /\ ~(i > o /\ i <= o + m) /\ i <= l
    BY <1>8, <1>9
  <2> QED BY <1>4, <2>1
<1>10. ASSUME NEW k \in 1..m PROVE o + k <= n /\ t[o + k] = us[k]
  <2>1. o + k <= n /\ o + k \in 1..n /\ o + k > o /\ o + k <= o + m /\ (o + k) - o = k
    BY <1>3
  <2> QED BY <1>4, <2>1
<1> QED BY <1>1, <1>2, <1>5, <1>7, <1>8, <1>9, <1>10

Overlaid(s, o, us, t) ==
  /\ Len(t) \in Nat /\ Len(s) \in Nat /\ Len(s) <= Len(t)
  /\ \A i \in 1..Len(s) : i <= o \/ i > o + Len(us) => t[i] = s[i]
  /\ \A k \in 1..Len(us) : o + k <= Len(t) /\ t[o + k] = us[k]

LEMMA OverlayIs ==
  ASSUME NEW s \in Seq(Nat), NEW o \in Nat, NEW us \in Seq(Nat)
  PROVE  Overlaid(s, o, us, Overlay(s, o, us))
BY OverlayKeeps DEF Overlaid

\* A step of write().
LEMMA WroteIs ==
  ASSUME NodeInv, NEW v \in Procs, NEW n \in 1..MaxBody, WriteBody(v, n)
  PROVE  LET j == job[v]
             r == j.req
             us == SubSeq(r.body, j.done + 1, j.done + n)
         IN  /\ Busy(v) /\ j.pc = "write" /\ r \in Load /\ j.fd \in Inodes /\ j.done \in Nat /\ n \in Nat /\ n > 0
             /\ j.done + n <= Len(r.body) /\ Len(r.body) \in Nat /\ Offset(r) \in Nat
             /\ us \in Seq(Nat) /\ Len(us) = n /\ \A k \in 1..n : us[k] = r.body[j.done + k]
             /\ entry' = entry
             /\ \A q \in Paths : entry[q] \in Inodes =>
                  data'[entry[q]] = IF entry[q] = j.fd THEN Overlay(data[j.fd], Offset(r) + j.done, us) ELSE data[entry[q]]
<1>1. Busy(v) /\ job[v].fd # NoFd /\ job[v].pc = "write"
  BY DEF WriteBody, At, Busy
<1>2. JobOK(job[v]) /\ job[v].req \in Load
  BY <1>1, JobIs
<1>3. job[v].fd \in Inodes /\ job[v].done \in Nat
  BY <1>1, <1>2 DEF JobOK
<1>4. job[v].req.body \in Seq(Nat) /\ Offset(job[v].req) \in Nat /\ Len(job[v].req.body) \in Nat
  BY <1>2, RequestIs, LenProperties
<1>5. PICK m \in Nat : m = job[v].done
  BY <1>3
<1>6. PICK s \in Seq(Nat) : s = job[v].req.body
  BY <1>4
<1>7. PICK l \in Nat : l = Len(s)
  BY <1>4, <1>6
<1>8. n \in 1..(l - m)
  BY <1>5, <1>6, <1>7 DEF WriteBody
<1>9. n \in Nat /\ n > 0 /\ m + n <= l
  BY <1>8
<1>10. PICK us : us = SubSeq(s, m + 1, m + n)
  OBVIOUS
<1>11. us \in Seq(Nat) /\ Len(us) = n /\ \A k \in 1..n : us[k] = s[m + k]
  <2>1. m + 1 \in Int /\ m + n \in Int /\ \A i \in (m + 1)..(m + n) : i \in 1..l
    BY <1>9
  <2>2. \A i \in (m + 1)..(m + n) : s[i] \in Nat
    BY <1>7, <2>1, ElementOfSeq
  <2>3. /\ SubSeq(s, m + 1, m + n) \in Seq(Nat)
        /\ Len(SubSeq(s, m + 1, m + n)) = IF m + 1 <= m + n THEN (m + n) - (m + 1) + 1 ELSE 0
        /\ \A i \in 1 .. (m + n) - (m + 1) + 1 : SubSeq(s, m + 1, m + n)[i] = s[(m + 1) + i - 1]
    BY <2>1, <2>2, SubSeqProperties
  <2>4. us \in Seq(Nat) /\ Len(us) = n
    BY <1>9, <1>10, <2>3
  <2>5. \A i \in 1..n : us[i] = s[m + i]
    BY <1>9, <1>10, <2>3
  <2> QED BY <2>4, <2>5
<1>12. PICK o \in Nat : o = Offset(job[v].req) + m
  BY <1>4
<1>13. PICK t \in Seq(Nat) : t = Overlay(data[job[v].fd], o, us)
  BY <1>3, <1>11, TreeIs, OverlayTyped
<1>14. PICK d : d = [data EXCEPT ![job[v].fd] = t]
  OBVIOUS
<1>15. d \in [Inodes -> Seq(Nat)] /\ \A i \in Inodes : d[i] = IF i = job[v].fd THEN t ELSE data[i]
  BY <1>3, <1>14, TreeIs
<1>16. Becomes(entry, d)
  BY <1>5, <1>6, <1>10, <1>12, <1>13, <1>14 DEF WriteBody
<1>17. entry' = entry /\ \A q \in Paths : entry[q] \in Inodes => data'[entry[q]] = d[entry[q]]
  BY <1>15, <1>16, TreeIs, BecomesIs
<1>18. \A q \in Paths : entry[q] \in Inodes => data'[entry[q]] = IF entry[q] = job[v].fd THEN t ELSE data[entry[q]]
  BY <1>15, <1>17
<1> QED BY <1>1, <1>2, <1>3, <1>4, <1>5, <1>6, <1>7, <1>9, <1>10, <1>11, <1>12, <1>13, <1>17, <1>18

\* The steps of a PUT.
LEMMA PutSteps ==
  ASSUME NEW v \in Procs, WorkerStep(v), job[v].req.method = "PUT"
  PROVE  OpenForPut(v) \/ CreateForPut(v) \/ (\E n \in 1..MaxBody : WriteBody(v, n)) \/ WriteFails(v)
<1>1. \A pc, methods : At(v, pc, methods) /\ "PUT" \notin methods => FALSE
  BY DEF At
<1>2. ASSUME MakeCollection(v) PROVE FALSE
  <2>1. At(v, "mkdir", {"MKCOL"})
    BY <1>2 DEF MakeCollection
  <2> QED BY <1>1, <2>1
<1>3. ASSUME StatForDelete(v) \/ Unlink(v) PROVE FALSE
  <2>1. \E pc : At(v, pc, {"DELETE"})
    BY <1>3 DEF StatForDelete, Unlink
  <2> QED BY <1>1, <2>1
<1>4. ASSUME (\E c \in Paths : DeleteChild(v, c) \/ RemoveInner(v, c)) \/ RemoveOuter(v) PROVE FALSE
  <2>1. At(v, "empty", {"DELETE", "MOVE"})
    BY <1>4 DEF DeleteChild, RemoveInner, RemoveOuter
  <2> QED BY <1>1, <2>1
<1>5. ASSUME StatSource(v) \/ StatDestination(v) \/ OpenForCopy(v) \/ (\E n \in 1..MaxBody : WriteCopy(v, n)) \/ CopyFails(v)
             \/ MakeDestination(v) \/ (\E c \in Paths : CopyChild(v, c)) \/ CopiedDir(v)
      PROVE  FALSE
  <2>1. \E pc : At(v, pc, {"COPY", "MOVE"})
    BY Zenon, <1>5 DEF StatSource, StatDestination, OpenForCopy, WriteCopy, CopyFails, MakeDestination, CopyChild, CopiedDir
  <2> QED BY SMTT(30), <1>1, <2>1
<1>6. ASSUME Rename(v) \/ UnlinkSource(v) PROVE FALSE
  <2>1. \E pc : At(v, pc, {"MOVE"})
    BY <1>6 DEF Rename, UnlinkSource
  <2> QED BY <1>1, <2>1
<1>7. ASSUME StatCached(v) \/ OpenToSend(v) \/ (\E n \in 0..MaxBody : SendBody(v, n)) PROVE FALSE
  <2>1. \E pc : At(v, pc, {"GET", "HEAD"}) \/ At(v, pc, {"GET"})
    BY Zenon, <1>7 DEF StatCached, OpenToSend, SendBody
  <2> QED BY SMTT(30), <1>1, <2>1
<1> QED BY Zenon, <1>2, <1>3, <1>4, <1>5, <1>6, <1>7 DEF WorkerStep

\* A section of a file that exists.
LEMMA RangedStep ==
  ASSUME NodeInv, NEW v \in Procs, Busy(v), WorkerStep(v), Ranged(job[v].req), entry[job[v].req.path] \in Inodes
  PROVE  /\ entry' = entry
         /\ \/ \A q \in Paths : entry[q] \in Inodes => data'[entry[q]] = data[entry[q]]
            \/ \E n \in 1..MaxBody : WriteBody(v, n)
<1>1. job[v].req \in Load /\ job[v].req.path \in Paths /\ job[v].req.method = "PUT"
  BY JobIs, RangedIs
<1>2. Unchanged => entry' = entry /\ \A q \in Paths : entry[q] \in Inodes => data'[entry[q]] = data[entry[q]]
  BY DEF Unchanged
<1>3. CASE OpenForPut(v)
  <2>1. Becomes(entry, data) \/ Unchanged
    BY <1>3 DEF OpenForPut, Truncated
  <2>2. Becomes(entry, data) => entry' = entry /\ \A q \in Paths : entry[q] \in Inodes => data'[entry[q]] = data[entry[q]]
    BY TreeIs, BecomesIs
  <2> QED BY <1>2, <2>1, <2>2
<1>4. CASE CreateForPut(v)
  BY <1>2, <1>4, NodeNumbers DEF CreateForPut
<1>5. CASE \E n \in 1..MaxBody : WriteBody(v, n)
  BY <1>5, WroteIs
<1>6. CASE WriteFails(v)
  BY <1>2, <1>6 DEF WriteFails
<1> QED BY <1>1, <1>3, <1>4, <1>5, <1>6, PutSteps

\* What there is of a request's part of a file stays.
Keeps(r, s, t) ==
  \A k \in 1..Len(r.body) : r.off + k <= Len(s) => r.off + k <= Len(t) /\ t[r.off + k] = s[r.off + k]

LEMMA SharedStep ==
  ASSUME NodeInv, NEW r \in Load, Ranged(r), NEW v \in Procs, Busy(v), WorkerStep(v), Shares(r, job[v].req),
         entry[r.path] \in Inodes
  PROVE  entry' = entry /\ Keeps(r, data[entry[r.path]], data'[entry[r.path]])
<1>1. /\ job[v].req \in Load /\ Ranged(job[v].req) /\ job[v].req.path = r.path /\ r.path \in Paths
      /\ r.off + Len(r.body) <= job[v].req.off \/ job[v].req.off + Len(job[v].req.body) <= r.off
  BY JobIs, RequestIs DEF Shares
<1>2. PICK i \in Inodes : i = entry[r.path]
  OBVIOUS
<1>3. entry' = entry
  BY <1>1, RangedStep
<1>4. CASE data'[i] = data[i]
  BY <1>2, <1>3, <1>4 DEF Keeps
<1>5. CASE data'[i] # data[i]
  <2>1. PICK n \in 1..MaxBody : WriteBody(v, n)
    BY <1>1, <1>2, <1>5, RangedStep
  <2>2. PICK us \in Seq(Nat) : us = SubSeq(job[v].req.body, job[v].done + 1, job[v].done + n)
    BY <2>1, WroteIs
  <2>3. PICK off \in Nat : off = job[v].req.off /\ off = Offset(job[v].req)
    BY <1>1, RangedIs
  <2>4. PICK m \in Nat : m = job[v].done
    BY <2>1, WroteIs
  <2>5. PICK l \in Nat : l = Len(job[v].req.body)
    BY <2>1, WroteIs
  <2>6. n \in Nat /\ n > 0 /\ m + n <= l /\ Len(us) = n /\ data'[i] = Overlay(data[i], off + m, us)
    <3>1. /\ n \in Nat /\ n > 0 /\ m + n <= l /\ Len(us) = n
          /\ data'[i] = IF i = job[v].fd THEN Overlay(data[job[v].fd], Offset(job[v].req) + job[v].done, us) ELSE data[i]
      BY <1>1, <1>2, <2>1, <2>2, <2>4, <2>5, WroteIs
    <3> QED BY <1>5, <2>3, <2>4, <3>1
  <2>7. PICK s \in Seq(Nat) : s = data[i]
    BY TreeIs
  <2>8. PICK o \in Nat : o = off + m
    OBVIOUS
  <2>9. PICK t : t = data'[i]
    OBVIOUS
  <2>10. /\ Len(t) \in Nat /\ Len(s) \in Nat /\ Len(s) <= Len(t)
         /\ \A k \in 1..Len(s) : k <= o \/ k > o + n => t[k] = s[k]
    <3>1. t = Overlay(s, o, us)
      BY <2>6, <2>7, <2>8, <2>9
    <3>4. Overlaid(s, o, us, t)
      BY Zenon, <3>1, OverlayIs
    <3>2. /\ Len(t) \in Nat /\ Len(s) \in Nat /\ Len(s) <= Len(t)
          /\ \A k \in 1..Len(s) : k <= o \/ k > o + Len(us) => t[k] = s[k]
      BY <3>4 DEF Overlaid
    <3>3. Len(us) = n
      BY <2>6
    <3> QED BY Zenon, <3>2, <3>3
  <2>11. PICK own \in Nat : own = r.off
    BY RangedIs
  <2>12. PICK len \in Nat : len = Len(r.body)
    BY RangedIs
  <2>13. own + len <= off \/ off + l <= own
    BY <1>1, <2>3, <2>5, <2>11, <2>12
  <2>14. ASSUME NEW k \in 1..len, own + k <= Len(s) PROVE own + k <= Len(t) /\ t[own + k] = s[own + k]
    <3>1. own + k \in 1..Len(s) /\ (own + k <= o \/ own + k > o + n)
      BY <2>6, <2>8, <2>10, <2>13, <2>14
    <3> QED BY <2>10, <2>14, <3>1
  <2> QED BY <1>2, <1>3, <2>7, <2>9, <2>11, <2>12, <2>14 DEF Keeps
<1> QED BY <1>3, <1>4, <1>5, <1>2

\* What the others do while a section is written.
LEMMA Calm ==
  ASSUME NodeInv, CacheOK, SectionsApart, NEW w \in Procs, NEW v \in Procs, Section(w), v # w, WorkerStep(v)
  PROVE  LET r == job[w].req
         IN  /\ \A q \in Scope(r) : entry'[q] = entry[q]
             /\ \/ \A q \in Scope(r) : Stays(q)
                \/ entry[r.path] \in Inodes /\ Keeps(r, data[entry[r.path]], data'[entry[r.path]])
<1>1. Foot(v) /\ Busy(v) /\ (ReadOnly(job[v].req) => Unchanged)
  BY WorkerStepWorks DEF Works
<1>2. Busy(w) /\ job[w].req \in Load /\ Scope(job[w].req) \subseteq Paths /\ Ranged(job[w].req) /\ Apart(w, v)
  BY <1>1, JobIs DEF Section, SectionsApart
<1>3. CASE ReadOnly(job[v].req)
  BY <1>1, <1>3 DEF Unchanged, Stays
<1>4. CASE /\ Scope(job[w].req) \cap Scope(job[v].req) = {}
           /\ \A q \in Scope(job[w].req) : entry[q] \in Inodes => entry[q] # job[v].fd
  <2> SUFFICES ASSUME NEW q \in Scope(job[w].req) PROVE Stays(q)
    BY DEF Stays
  <2>1. q \in Paths /\ q \notin Scope(job[v].req)
    BY <1>2, <1>4
  <2> QED BY <1>1, <1>4, <2>1 DEF Foot, Stays
<1>5. CASE Shares(job[w].req, job[v].req) /\ entry[job[w].req.path] \in Inodes
  BY <1>1, <1>2, <1>5, SharedStep
<1> QED BY <1>2, <1>3, <1>4, <1>5 DEF Apart

-------------------------------------------------------------------------------
\* Sections stay apart from other requests

LEMMA NamesApart ==
  ASSUME NEW r \in Load, NEW s \in Load, \A a \in NamesOf(r), b \in NamesOf(s) : ~IsPrefix(a, b) /\ ~IsPrefix(b, a)
  PROVE  Scope(r) \cap Scope(s) = {}
<1> SUFFICES ASSUME NEW q \in Paths, NEW a \in NamesOf(r), NEW b \in NamesOf(s), IsPrefix(a, q), IsPrefix(b, q)
             PROVE  FALSE
  BY DEF Scope
<1>1. a \in Paths /\ b \in Paths
  BY RequestIs
<1> QED BY <1>1, PrefixesComparable

LEMMA NoConflict ==
  ASSUME NEW r \in Load, NEW s \in Load, Ranged(r), ~Conflict(r, s) \/ ~Conflict(s, r)
  PROVE  Scope(r) \cap Scope(s) = {} \/ (Shares(r, s) /\ entry[r.path] \in Inodes)
<1>1. ~ReadOnly(r)
  BY DEF Ranged, ReadOnly
<1>2. CASE \A a \in NamesOf(r), b \in NamesOf(s) : ~IsPrefix(a, b) /\ ~IsPrefix(b, a)
  BY <1>2, NamesApart
<1>3. CASE ~ \A a \in NamesOf(r), b \in NamesOf(s) : ~IsPrefix(a, b) /\ ~IsPrefix(b, a)
  <2>1. CASE ~Conflict(r, s)
    BY <1>1, <1>3, <2>1 DEF Conflict, Shares, IsFile
  <2>2. CASE ~Conflict(s, r)
    BY <1>1, <1>3, <2>2 DEF Conflict, Shares, IsFile
  <2> QED BY <2>1, <2>2
<1> QED BY <1>2, <1>3

LEMMA ApartStep ==
  ASSUME NodeInv, CacheOK, SeenOK, SectionsApart, Remember, NEW u \in Procs, WorkerStep(u)
  PROVE  SectionsApart'
<1>1. Foot(u) /\ Works(u)
  BY WorkerStepWorks
<1>2. \A v \in Procs : (Busy(v)' <=> Busy(v)) /\ job'[v].req = job[v].req /\ (v # u => job'[v] = job[v])
  BY <1>1 DEF Works, Busy
<1>3. \A v \in Procs : Section(v)' => Section(v)
  BY <1>2, SeenIs DEF Section, Ranged
<1> SUFFICES ASSUME NEW w \in Procs, NEW v \in Procs, Section(w), Busy(v), v # w, ~ReadOnly(job[v].req)
             PROVE  \/ /\ Scope(job[w].req) \cap Scope(job[v].req) = {}
                       /\ \A q \in Scope(job[w].req) : entry'[q] \in Inodes => entry'[q] # job'[v].fd
                    \/ Shares(job[w].req, job[v].req) /\ entry'[job[w].req.path] \in Inodes
  BY <1>2, <1>3 DEF SectionsApart, Apart, ReadOnly, Scope, NamesOf, Shares, Ranged
<1>4. /\ Busy(w) /\ job[w].req.path \in Scope(job[w].req) /\ Ranged(job[w].req) /\ Busy(u)
      /\ Scope(job[w].req) \subseteq Paths /\ Scope(job[v].req) \subseteq Paths
  BY <1>1, JobIs DEF Section, Works
<1>5. u # w => \A q \in Scope(job[w].req) : entry'[q] = entry[q]
  BY Calm
<1>6. CASE Shares(job[w].req, job[v].req) /\ entry[job[w].req.path] \in Inodes
  <2>1. entry'[job[w].req.path] = entry[job[w].req.path]
    BY <1>4, <1>5, <1>6, RangedStep
  <2> QED BY <1>6, <2>1
<1>7. CASE /\ Scope(job[w].req) \cap Scope(job[v].req) = {}
           /\ \A q \in Scope(job[w].req) : entry[q] \in Inodes => entry[q] # job[v].fd
  <2> SUFFICES ASSUME NEW q \in Scope(job[w].req), entry'[q] \in Inodes PROVE entry'[q] # job'[v].fd
    BY <1>7
  <2>1. CASE u # w /\ u # v
    BY <1>2, <1>5, <1>7, <2>1
  <2>2. CASE u = v
    <3>1. entry'[q] = entry[q]
      BY <1>5, <2>2
    <3>2. job'[v].fd \in {NoFd, job[v].fd} \/ \E p \in Scope(job[v].req) : entry'[p] = job'[v].fd
      BY <1>1, <2>2 DEF Works
    <3>3. NoLinks(entry') /\ NoFd \notin Inodes
      BY <1>1, NodeNumbers DEF Foot, TreeOK
    <3>4. CASE job'[v].fd \in {NoFd, job[v].fd}
      BY <1>7, <3>1, <3>3, <3>4
    <3>5. CASE \E p \in Scope(job[v].req) : entry'[p] = job'[v].fd
      BY <1>4, <1>7, <3>3, <3>5 DEF NoLinks
    <3> QED BY <3>2, <3>4, <3>5
  <2>3. CASE u = w
    <3>1. job'[v] = job[v]
      BY <1>2, <2>3
    <3>2. Free(entry'[q]) \/ \E p \in Scope(job[w].req) : entry[p] = entry'[q]
      BY <1>1, <2>3 DEF Foot
    <3>3. CASE Free(entry'[q])
      BY <3>1, <3>3 DEF Free
    <3>4. CASE \E p \in Scope(job[w].req) : entry[p] = entry'[q]
      BY <1>7, <3>1, <3>4
    <3> QED BY <3>2, <3>3, <3>4
  <2> QED BY <2>1, <2>2, <2>3
<1> QED BY <1>6, <1>7 DEF SectionsApart, Apart

\* When two requests go on as they are, nothing changes between them.
LEMMA ApartSame ==
  ASSUME SectionsApart, \A q \in Paths : entry'[q] = entry[q], NEW w \in Procs, NEW v \in Procs, Section(w), Busy(v), v # w,
         Scope(job[w].req) \subseteq Paths, job[w].req.path \in Paths, job'[w] = job[w], job'[v] = job[v]
  PROVE  Apart(w, v)'
<1>1. Apart(w, v)
  BY DEF SectionsApart
<1> QED BY <1>1 DEF Apart, ReadOnly, Scope, NamesOf, Shares, Ranged

LEMMA ApartRests ==
  ASSUME NodeInv, SeenOK, SectionsApart, Remember, Rests
  PROVE  SectionsApart'
<1> SUFFICES ASSUME NEW w \in Procs, NEW v \in Procs, Section(w)', Busy(v)', v # w PROVE Apart(w, v)'
  BY DEF SectionsApart
<1>1. Busy(w)'
  BY DEF Section
<1>2. Busy(w) /\ job'[w] = job[w] /\ Busy(v) /\ job'[v] = job[v] /\ \A q \in Paths : entry'[q] = entry[q]
  BY <1>1 DEF Rests, Stays
<1>3. Section(w)
  BY <1>1, <1>2, SeenIs DEF Section, Ranged
<1>4. Scope(job[w].req) \subseteq Paths /\ job[w].req.path \in Paths
  BY <1>2, JobIs
<1> QED BY <1>2, <1>3, <1>4, ApartSame

LEMMA ApartTake ==
  ASSUME NodeInv, SeenOK, SectionsApart, Remember, NEW u \in Procs, NEW r \in Load, Take(u, r)
  PROVE  SectionsApart'
<1>1. /\ entry' = entry /\ ~Busy(u) /\ Busy(u)' /\ (\A v \in Procs : v # u => job'[v] = job[v])
      /\ job'[u].req = r /\ job'[u].fd = NoFd
  BY TakeIs DEF Unchanged
<1> SUFFICES ASSUME NEW w \in Procs, NEW v \in Procs, Section(w)', Busy(v)', v # w PROVE Apart(w, v)'
  BY DEF SectionsApart
<1>2. Busy(w)' /\ seen'[w].alone /\ Ranged(job'[w].req)
  BY DEF Section, Ranged
<1>3. Apart(w, v)' <=> \/ ReadOnly(job'[v].req)
                       \/ /\ Scope(job'[w].req) \cap Scope(job'[v].req) = {}
                          /\ \A q \in Scope(job'[w].req) : entry'[q] \in Inodes => entry'[q] # job'[v].fd
                       \/ Shares(job'[w].req, job'[v].req) /\ entry'[job'[w].req.path] \in Inodes
  BY DEF Apart, ReadOnly, Scope, NamesOf, Shares, Ranged
<1> SUFFICES ASSUME ~ReadOnly(job'[v].req)
             PROVE  \/ /\ Scope(job'[w].req) \cap Scope(job'[v].req) = {}
                       /\ \A q \in Scope(job'[w].req) : entry[q] \in Inodes => entry[q] # job'[v].fd
                    \/ Shares(job'[w].req, job'[v].req) /\ entry[job'[w].req.path] \in Inodes
  BY <1>1, <1>3
<1>4. CASE u = w
  <2>1. job'[v] = job[v] /\ Busy(v)
    BY <1>1, <1>4 DEF Busy
  <2>2. ~Rival(v, r)
    BY <1>1, <1>2, <1>4, SeenNew
  <2>3. ~Conflict(r, job[v].req) /\ ~WritesTo(v, r)
    BY <2>1, <2>2 DEF Rival, Busy
  <2>4. job[v].req \in Load /\ job'[w].req = r
    BY <1>1, <1>4, <2>1, JobIs
  <2>5. Scope(r) \cap Scope(job[v].req) = {} \/ (Shares(r, job[v].req) /\ entry[r.path] \in Inodes)
    BY <1>2, <2>3, <2>4, NoConflict
  <2>6. Scope(r) \cap Scope(job[v].req) = {} => \A q \in Scope(r) : entry[q] \in Inodes => entry[q] # job[v].fd
    BY <2>1, <2>3 DEF WritesTo, IsFile
  <2> QED BY <2>1, <2>4, <2>5, <2>6
<1>5. CASE u = v
  <2>1. job'[w] = job[w] /\ Busy(w) /\ job'[v].req = r
    BY <1>1, <1>2, <1>5 DEF Busy
  <2>2. Starts(v)
    BY <1>1, <1>5 DEF Starts, Busy
  <2>3. ~Conflict(r, job[w].req)
    BY <1>2, <2>1, <2>2, SeenIs
  <2>4. job[w].req \in Load
    BY <2>1, JobIs
  <2>5. Scope(job[w].req) \cap Scope(r) = {} \/ (Shares(job[w].req, r) /\ entry[job[w].req.path] \in Inodes)
    BY <1>2, <2>1, <2>3, <2>4, NoConflict
  <2>6. NoFd \notin Inodes
    BY NodeNumbers
  <2> QED BY <1>1, <1>5, <2>1, <2>5, <2>6
<1>6. CASE u # w /\ u # v
  <2>1. job'[w] = job[w] /\ job'[v] = job[v] /\ Busy(v) /\ Busy(w)
    BY <1>1, <1>2, <1>6 DEF Busy
  <2>2. Section(w)
    BY <1>2, <2>1, SeenIs DEF Section
  <2>3. Apart(w, v)
    BY <2>1, <2>2 DEF SectionsApart
  <2> QED BY <2>1, <2>3 DEF Apart
<1> QED BY <1>4, <1>5, <1>6

LEMMA ApartStays ==
  ASSUME NodeInv, CacheOK, SeenOK, SectionsApart, TreeNext
  PROVE  SectionsApart'
BY NextKinds, ApartStep, ApartRests, ApartTake, AnswerRests, ClockRests, DiesRests

-------------------------------------------------------------------------------
\* What a section has written stays in its place

LEMMA FileNext ==
  ASSUME NEW q \in Paths, entry'[q] \in Inodes
  PROVE  View'[q].has = data'[entry'[q]]
<1>1. View'[q] = CASE entry'[q] = Absent -> Nothing [] entry'[q] = Directory -> Collection [] OTHER -> File(data'[entry'[q]])
  BY DEF View, ViewOf
<1>2. entry'[q] # Absent /\ entry'[q] # Directory
  BY NodeNumbers
<1> QED BY <1>1, <1>2 DEF File

\* Its request, as far as it has come, and after its step.
Going(w, b) == Ranged(job[w].req) /\ SectionOf(job[w], b, View, entry)
Gone(w, b)  == SectionOf(job'[w], b, View', entry')

LEMMA OpenedSection ==
  ASSUME NodeInv, NEW w \in Procs, Busy(w), Ranged(job[w].req), NEW b, job[w].done = 0, NEW i \in Inodes,
         Opened(w, i, 200), entry'[job[w].req.path] = i
  PROVE  Gone(w, b)
<1>1. job'[w].req = job[w].req /\ job'[w].status = 200 /\ job'[w].done = 0
  BY OpenedGives
<1>2. \A n, s : n = 0 => InPlace(job[w].req, n, s)
  BY DEF InPlace
<1>3. job[w].req.body \in Seq(Nat) /\ Len(job[w].req.body) \in Nat
  BY JobIs, RangedIs
<1>4. CASE job[w].req.body = <<>>
  <2>1. job'[w].pc = "answer" /\ Len(job[w].req.body) = 0
    BY <1>4, OpenedGives, EmptySeq
  <2> QED BY <1>1, <1>2, <2>1 DEF Gone, SectionOf
<1>5. CASE job[w].req.body # <<>>
  <2>1. job'[w].pc = "write" /\ job'[w].fd = i
    BY <1>5, OpenedGives
  <2> QED BY <1>1, <1>2, <1>3, <2>1 DEF Gone, SectionOf
<1> QED BY <1>4, <1>5

LEMMA RefusedSection ==
  ASSUME NodeInv, NEW w \in Procs, Busy(w), NEW b, NEW s \in {403, 404}, Finish(w, s), Unchanged,
         Untouched(job[w].req, b, View), entry[job[w].req.path] \notin Inodes
  PROVE  Gone(w, b)
<1>1. job'[w].pc = "answer" /\ job'[w].status = s /\ job'[w].req = job[w].req
  BY FinishIs DEF Works
<1>2. Untouched(job[w].req, b, View') /\ entry' = entry
  BY UntouchedStays DEF Unchanged
<1> QED BY <1>1, <1>2 DEF Gone, SectionOf

LEMMA OpenSection ==
  ASSUME NodeInv, Nested, NEW w \in Procs, OpenForPut(w), NEW b, Going(w, b)
  PROVE  Gone(w, b)
<1>1. /\ Busy(w) /\ job[w].pc = "open" /\ Ranged(job[w].req) /\ job[w].done = 0
      /\ entry[job[w].req.path] \in Inodes \/ Untouched(job[w].req, b, View)
  BY DEF OpenForPut, At, Busy, Going, SectionOf
<1>2. PICK p \in Paths : p = job[w].req.path
  BY <1>1, JobIs
<1>3. CASE IsFile(p) /\ Opened(w, entry[p], 200) /\ Becomes(entry, Truncated(job[w].req))
  <2>1. entry[p] \in Inodes /\ entry' = entry
    BY <1>3, BecomesNames DEF IsFile
  <2> QED BY <1>1, <1>2, <1>3, <2>1, OpenedSection
<1>4. CASE (IsDir(p) \/ InFile(p)) /\ Finish(w, 403) /\ Unchanged
  <2>1. entry[p] \notin Inodes
    <3>1. CASE IsDir(p)
      BY <3>1, IsDirIs, NodeNumbers
    <3>2. CASE InFile(p)
      <4>1. Len(p) > 2 /\ entry[Front(p)] \in Inodes
        BY <3>2 DEF InFile, IsFile
      <4>2. Front(p) \in Paths /\ p \in Below(Front(p)) /\ entry[Front(p)] # Directory
        BY <4>1, FrontIs, NodeNumbers
      <4>3. entry[p] = Absent
        BY <4>2 DEF Nested, NestedIn
      <4> QED BY <4>3, NodeNumbers
    <3> QED BY <1>4, <3>1, <3>2
  <2> QED BY <1>1, <1>2, <1>4, <2>1, RefusedSection
<1>5. CASE entry[p] = Absent /\ Goto(w, "create") /\ Unchanged
  <2>1. job'[w].pc = "create" /\ job'[w].req = job[w].req /\ job'[w].done = 0
    BY <1>1, <1>5, GotoIs DEF Same
  <2>2. Untouched(job[w].req, b, View') /\ entry' = entry
    <3>1. Untouched(job[w].req, b, View)
      BY <1>1, <1>2, <1>5, NodeNumbers
    <3> QED BY <1>1, <1>5, <3>1, UntouchedStays DEF Unchanged
  <2> QED BY <1>2, <1>5, <2>1, <2>2 DEF Gone, SectionOf
<1> QED BY <1>1, <1>2, <1>3, <1>4, <1>5 DEF OpenForPut

LEMMA CreateSection ==
  ASSUME NodeInv, NEW w \in Procs, CreateForPut(w), NEW b, Going(w, b)
  PROVE  Gone(w, b)
<1>1. /\ Busy(w) /\ job[w].pc = "create" /\ Ranged(job[w].req) /\ job[w].done = 0
      /\ entry[job[w].req.path] = Absent /\ Untouched(job[w].req, b, View)
  BY DEF CreateForPut, At, Busy, Going, SectionOf
<1>2. job[w].req.path \in Paths
  BY <1>1, JobIs
<1>3. CASE /\ Opened(w, NewInode, 200)
           /\ Becomes([entry EXCEPT ![job[w].req.path] = NewInode], [data EXCEPT ![NewInode] = <<>>])
  <2>1. PICK i \in Inodes : i = NewInode
    BY NewInodeIsFree DEF Free
  <2>2. entry' = [entry EXCEPT ![job[w].req.path] = i]
    BY <1>3, <2>1, BecomesNames
  <2>3. entry'[job[w].req.path] = i
    BY <1>2, <2>2, TreeIs DEF Trees0
  <2> QED BY <1>1, <1>3, <2>1, <2>3, OpenedSection
<1>4. CASE Finish(w, 404) /\ Unchanged
  <2>1. entry[job[w].req.path] \notin Inodes
    BY <1>1, NodeNumbers
  <2> QED BY <1>1, <1>4, <2>1, RefusedSection
<1> QED BY <1>1, <1>3, <1>4 DEF CreateForPut

\* A write() after what is in its place.
LEMMA MoreInPlace ==
  ASSUME NEW r \in Load, Ranged(r), NEW s \in Seq(Nat), NEW m \in Nat, NEW n \in Nat, m + n <= Len(r.body),
         InPlace(r, m, s), NEW us \in Seq(Nat), Len(us) = n, \A k \in 1..n : us[k] = r.body[m + k]
  PROVE  InPlace(r, m + n, Overlay(s, r.off + m, us))
<1>1. PICK own \in Nat : own = r.off
  BY RangedIs
<1>2. PICK o \in Nat : o = own + m
  OBVIOUS
<1>3. PICK t : t = Overlay(s, o, us)
  OBVIOUS
<1>4. /\ Len(t) \in Nat /\ Len(s) \in Nat /\ Len(s) <= Len(t)
      /\ \A i \in 1..Len(s) : i <= o \/ i > o + Len(us) => t[i] = s[i]
      /\ \A k \in 1..Len(us) : o + k <= Len(t) /\ t[o + k] = us[k]
  <2>1. Overlaid(s, o, us, t)
    BY Zenon, <1>3, OverlayIs
  <2> QED BY <2>1 DEF Overlaid
<1>5. ASSUME NEW k \in 1..(m + n) PROVE own + k <= Len(t) /\ t[own + k] = r.body[k]
  <2>1. CASE k <= m
    <3>1. own + k <= Len(s) /\ s[own + k] = r.body[k]
      BY <1>1, <2>1 DEF InPlace
    <3>2. own + k \in 1..Len(s) /\ own + k <= o
      BY <1>2, <1>4, <2>1, <3>1
    <3> QED BY <1>4, <3>1, <3>2
  <2>2. CASE k > m
    <3>1. PICK h \in 1..n : h = k - m
      BY <2>2
    <3>2. o + h = own + k /\ m + h = k
      BY <1>2, <3>1
    <3>3. o + h <= Len(t) /\ t[o + h] = us[h] /\ us[h] = r.body[m + h]
      BY <1>4, <3>1
    <3> QED BY <3>2, <3>3
  <2> QED BY <2>1, <2>2
<1> QED BY <1>1, <1>2, <1>3, <1>5 DEF InPlace

LEMMA WriteSection ==
  ASSUME NodeInv, NEW w \in Procs, NEW n \in 1..MaxBody, WriteBody(w, n), NEW b, Going(w, b)
  PROVE  Gone(w, b)
<1>1. PICK m \in Nat : m = job[w].done
  BY WroteIs
<1>2. PICK us \in Seq(Nat) : us = SubSeq(job[w].req.body, job[w].done + 1, job[w].done + n)
  BY WroteIs
<1>3. /\ Busy(w) /\ job[w].pc = "write" /\ job[w].req \in Load /\ n \in Nat /\ n > 0 /\ m + n <= Len(job[w].req.body)
      /\ Len(job[w].req.body) \in Nat /\ Len(us) = n /\ \A k \in 1..n : us[k] = job[w].req.body[m + k]
  BY <1>1, <1>2, WroteIs
<1>4. PICK i \in Inodes : i = entry[job[w].req.path] /\ job[w].fd = i
  BY <1>3 DEF Going, SectionOf
<1>5. /\ Ranged(job[w].req) /\ job[w].status = 200 /\ InPlace(job[w].req, m, View[job[w].req.path].has)
      /\ job[w].req.path \in Paths
  BY <1>1, <1>3, JobIs DEF Going, SectionOf
<1>6. PICK s \in Seq(Nat) : s = data[i]
  BY TreeIs
<1>7. InPlace(job[w].req, m, s)
  BY <1>4, <1>5, <1>6, ViewIs
<1>8. PICK t : t = Overlay(s, job[w].req.off + m, us)
  OBVIOUS
<1>9. InPlace(job[w].req, m + n, t)
  BY ZenonT(60), <1>3, <1>5, <1>7, <1>8, MoreInPlace
<1>10. entry' = entry /\ View'[job[w].req.path].has = t
  <2>1. Offset(job[w].req) = job[w].req.off
    BY <1>3, <1>5, RangedIs
  <2>2. entry' = entry
    BY WroteIs
  <2>3. data'[i] = Overlay(data[i], Offset(job[w].req) + job[w].done, us)
    <3>1. \A q \in Paths : entry[q] \in Inodes =>
            data'[entry[q]] = IF entry[q] = job[w].fd THEN Overlay(data[job[w].fd], Offset(job[w].req) + job[w].done, us) ELSE data[entry[q]]
      BY <1>2, WroteIs
    <3> QED BY <1>4, <1>5, <3>1
  <2>4. data'[i] = t
    BY <1>1, <1>6, <1>8, <2>1, <2>3
  <2> QED BY <1>4, <1>5, <2>2, <2>4, FileNext
<1>11. CASE m + n = Len(job[w].req.body) /\ Finish(w, job[w].status)
  <2>1. job'[w].pc = "answer" /\ job'[w].status = 200 /\ job'[w].req = job[w].req
    BY <1>3, <1>5, <1>11, FinishIs DEF Works
  <2>2. InPlace(job[w].req, Len(job[w].req.body), t)
    BY <1>9, <1>11
  <2> QED BY <1>4, <1>10, <2>1, <2>2 DEF Gone, SectionOf
<1>12. CASE job' = [job EXCEPT ![w].done = @ + n]
  <2>1. job'[w] = [job[w] EXCEPT !.done = m + n]
    BY <1>1, <1>3, <1>12, JobIs
  <2>2. /\ job'[w].pc = "write" /\ job'[w].done = m + n /\ job'[w].status = 200 /\ job'[w].req = job[w].req
        /\ job'[w].fd = i
    BY <1>3, <1>4, <1>5, <2>1, JobIs DEF Fields
  <2> QED BY <1>3, <1>4, <1>9, <1>10, <2>2 DEF Gone, SectionOf
<1> QED BY <1>1, <1>11, <1>12 DEF WriteBody

LEMMA WriteFailsSection ==
  ASSUME NodeInv, NEW w \in Procs, WriteFails(w), faults \in Nat, faults' = 0, NEW b, Going(w, b)
  PROVE  FALSE
<1>1. job[w].pc = "write" /\ job[w].fd = NoFd
  BY DEF WriteFails, At
<1> QED BY <1>1, NodeNumbers DEF Going, SectionOf

LEMMA SectionGoes ==
  ASSUME NodeInv, Nested, NEW w \in Procs, Busy(w), WorkerStep(w), faults \in Nat, faults' = 0, NEW b, Going(w, b)
  PROVE  Gone(w, b)
<1>1. job[w].req.method = "PUT"
  BY DEF Going, Ranged
<1> QED BY <1>1, PutSteps, OpenSection, CreateSection, WriteSection, WriteFailsSection

LEMMA KeepsPlace ==
  ASSUME NEW r \in Load, Ranged(r), NEW n \in Nat, n <= Len(r.body), NEW s, NEW t, InPlace(r, n, s), Keeps(r, s, t)
  PROVE  InPlace(r, n, t)
<1>1. PICK l \in Nat : l = Len(r.body) /\ n <= l
  BY RangedIs
<1>2. \A k \in 1..n : k \in 1..l
  BY <1>1
<1> QED BY <1>1, <1>2 DEF InPlace, Keeps

LEMMA SectionAs ==
  ASSUME NEW j, JobOK(j), Ranged(j.req), NEW b, NEW V, NEW E, NEW V1, NEW E1, SectionOf(j, b, V, E),
         \A q \in Scope(j.req) : E1[q] = E[q],
         \/ \A q \in Scope(j.req) : V1[q] = V[q]
         \/ E[j.req.path] \in Inodes /\ Keeps(j.req, V[j.req.path].has, V1[j.req.path].has)
  PROVE  SectionOf(j, b, V1, E1)
<1> DEFINE r == j.req
<1>1. r \in Load /\ r.path \in Scope(r) /\ j.done \in Nat /\ E1[r.path] = E[r.path]
  BY RequestIs DEF JobOK
<1>2. Len(r.body) \in Nat /\ Len(r.body) <= Len(r.body)
  BY <1>1, RangedIs
<1>3. CASE \A q \in Scope(r) : V1[q] = V[q]
  BY <1>1, <1>3 DEF SectionOf, Untouched
<1>4. CASE E[r.path] \in Inodes /\ Keeps(r, V[r.path].has, V1[r.path].has)
  <2>1. E[r.path] # Absent
    BY <1>4, NodeNumbers
  <2>2. \A n \in Nat : n <= Len(r.body) /\ InPlace(r, n, V[r.path].has) => InPlace(r, n, V1[r.path].has)
    BY <1>1, <1>4, KeepsPlace
  <2> QED BY <1>1, <1>2, <1>4, <2>1, <2>2 DEF SectionOf
<1> QED BY <1>3, <1>4

\* What it is after a step.
LEMMA PlacedNext ==
  ASSUME NEW w \in Procs, (Section(w) /\ faults = 0)' => SectionOf(job'[w], seen'[w].before, View', entry')
  PROVE  Placed(w)'
BY Zenon DEF Placed, Section, SectionOf, Untouched, InPlace, Scope, NamesOf, Ranged

LEMMA PlacedStays ==
  ASSUME NodeInv, NodeInv', SeenOK, Remember, NEW w \in Procs, Placed(w), Busy(w), Busy(w)', job'[w] = job[w],
         faults' = 0 => faults = 0,
         Section(w) =>
           /\ \A q \in Scope(job[w].req) : entry'[q] = entry[q]
           /\ \/ \A q \in Scope(job[w].req) : Stays(q)
              \/ /\ entry[job[w].req.path] \in Inodes
                 /\ Keeps(job[w].req, data[entry[job[w].req.path]], data'[entry[job[w].req.path]])
  PROVE  Placed(w)'
<1>1. seen'[w].before = seen[w].before /\ (seen'[w].alone => seen[w].alone)
  BY SeenIs
<1>2. (Section(w) /\ faults = 0)' => Section(w) /\ faults = 0
  BY <1>1 DEF Section, Ranged
<1>3. PICK b : b = seen[w].before
  OBVIOUS
<1>4. ASSUME Section(w), SectionOf(job[w], b, View, entry) PROVE SectionOf(job[w], b, View', entry')
  <2>1. /\ JobOK(job[w]) /\ Ranged(job[w].req) /\ job[w].req.path \in Paths /\ job[w].req.path \in Scope(job[w].req)
        /\ Scope(job[w].req) \subseteq Paths
    BY <1>4, JobIs DEF Section
  <2>2. CASE \A q \in Scope(job[w].req) : Stays(q)
    <3>1. \A q \in Scope(job[w].req) : View'[q] = View[q]
      BY <2>1, <2>2, ViewStays
    <3> QED BY <1>4, <2>1, <3>1, SectionAs
  <2>3. CASE /\ entry[job[w].req.path] \in Inodes
             /\ Keeps(job[w].req, data[entry[job[w].req.path]], data'[entry[job[w].req.path]])
    <3>1. entry'[job[w].req.path] = entry[job[w].req.path]
      BY <1>4, <2>1
    <3>2. View[job[w].req.path].has = data[entry[job[w].req.path]]
      BY <2>1, <2>3, ViewIs
    <3>3. View'[job[w].req.path].has = data'[entry[job[w].req.path]]
      BY <2>1, <2>3, <3>1, FileNext
    <3>4. Keeps(job[w].req, View[job[w].req.path].has, View'[job[w].req.path].has)
      BY <2>3, <3>2, <3>3
    <3> QED BY <1>4, <2>1, <2>3, <3>4, SectionAs
  <2> QED BY <1>4, <2>2, <2>3
<1> QED BY <1>1, <1>2, <1>3, <1>4, PlacedNext DEF Placed

LEMMA PlacedStep ==
  ASSUME NodeInv, NodeInv', CacheOK, SeenOK, SectionsApart, Nested, Remember, faults \in Nat, faults' = 0 => faults = 0,
         NEW w \in Procs, Placed(w), NEW u \in Procs, WorkerStep(u)
  PROVE  Placed(w)'
<1>1. Works(u)
  BY WorkerStepWorks
<1>2. Busy(w)' => Busy(w) /\ job'[w].req = job[w].req
  BY <1>1 DEF Works, Busy
<1>3. CASE ~Busy(w)'
  <2>1. ~Section(w)'
    BY <1>3 DEF Section
  <2> QED BY <2>1, PlacedNext
<1>4. CASE Busy(w)' /\ u # w
  <2>1. Busy(w) /\ job'[w] = job[w]
    BY <1>1, <1>2, <1>4 DEF Works
  <2>2. Section(w) =>
           /\ \A q \in Scope(job[w].req) : entry'[q] = entry[q]
           /\ \/ \A q \in Scope(job[w].req) : Stays(q)
              \/ /\ entry[job[w].req.path] \in Inodes
                 /\ Keeps(job[w].req, data[entry[job[w].req.path]], data'[entry[job[w].req.path]])
    BY <1>4, Calm
  <2> QED BY <1>4, <2>1, <2>2, PlacedStays
<1>5. CASE Busy(w)' /\ u = w
  <2> SUFFICES ASSUME (Section(w) /\ faults = 0)'
               PROVE  SectionOf(job'[w], seen'[w].before, View', entry')
    BY PlacedNext
  <2>1. seen'[w].before = seen[w].before /\ (seen'[w].alone => seen[w].alone)
    BY <1>2, <1>5, SeenIs
  <2>2. Section(w) /\ faults = 0 /\ faults' = 0
    BY <1>2, <1>5, <2>1 DEF Section, Ranged
  <2>3. PICK b : b = seen[w].before
    OBVIOUS
  <2>4. Going(w, b) /\ Busy(w)
    BY <2>2, <2>3 DEF Placed, Going, Section
  <2>5. Gone(w, b)
    BY <1>5, <2>2, <2>4, SectionGoes
  <2> QED BY <2>1, <2>3, <2>5 DEF Gone
<1> QED BY <1>3, <1>4, <1>5

LEMMA PlacedRests ==
  ASSUME NodeInv, NodeInv', SeenOK, Remember, Rests, faults' = 0 => faults = 0, NEW w \in Procs, Placed(w)
  PROVE  Placed(w)'
<1>1. CASE ~Busy(w)'
  <2>1. ~Section(w)'
    BY <1>1 DEF Section
  <2> QED BY <2>1, PlacedNext
<1>2. CASE Busy(w)'
  <2>1. Busy(w) /\ job'[w] = job[w] /\ \A q \in Paths : Stays(q)
    BY <1>2 DEF Rests
  <2>2. \A q \in Scope(job[w].req) : Stays(q) /\ entry'[q] = entry[q]
    BY <2>1, JobIs DEF Stays
  <2> QED BY <1>2, <2>1, <2>2, PlacedStays
<1> QED BY <1>1, <1>2

LEMMA PlacedTake ==
  ASSUME NodeInv, NodeInv', SeenOK, Remember, faults' = 0 => faults = 0,
         NEW u \in Procs, NEW r \in Load, Take(u, r), NEW w \in Procs, Placed(w)
  PROVE  Placed(w)'
<1>1. /\ (\A q \in Paths : Stays(q)) /\ ~Busy(u) /\ Busy(u)' /\ (\A v \in Procs : v # u => job'[v] = job[v])
      /\ job'[u].req = r /\ job'[u].pc = FirstCall(r) /\ job'[u].done = 0
  BY TakeIs
<1>2. CASE w = u
  <2>1. seen'[u].before = View
    BY <1>1, SeenNew
  <2>2. View' = View
    BY <1>1, ViewStays DEF View, ViewOf
  <2>3. Ranged(r) => FirstCall(r) = "open"
    BY DEF Ranged, FirstCall, ReadOnly
  <2>4. (Section(u) /\ faults = 0)' => job'[u].pc = "open"
    BY <1>1, <2>3 DEF Section, Ranged
  <2>5. job'[u].pc = "open" => SectionOf(job'[u], View, View', entry')
    BY <1>1, <2>2 DEF SectionOf, Untouched
  <2> QED BY <1>2, <2>1, <2>4, <2>5, PlacedNext
<1>3. CASE w # u /\ Busy(w)'
  <2>1. job'[w] = job[w] /\ Busy(w)
    BY <1>1, <1>3 DEF Busy
  <2>2. \A q \in Scope(job[w].req) : Stays(q) /\ entry'[q] = entry[q]
    BY <1>1, <2>1, JobIs DEF Stays
  <2> QED BY <1>3, <2>1, <2>2, PlacedStays
<1>4. CASE ~Busy(w)'
  <2>1. ~Section(w)'
    BY <1>4 DEF Section
  <2> QED BY <2>1, PlacedNext
<1> QED BY <1>2, <1>3, <1>4

LEMMA PlacedAll ==
  ASSUME NodeInv, CacheOK, SeenOK, SectionsApart, Nested, faults \in Nat, TreeNext, \A w \in Procs : Placed(w)
  PROVE  \A w \in Procs : Placed(w)'
<1>1. NodeInv' /\ Remember /\ (faults' = 0 => faults = 0)
  BY NodeInvStays, FaultsGrow DEF TreeNext
<1> QED BY <1>1, NextKinds, PlacedStep, PlacedRests, PlacedTake, AnswerRests, ClockRests, DiesRests

-------------------------------------------------------------------------------
\* All or nothing

\* What holds at any time: TreeInv, and what each worker has done to the names of its request.
WholeInv == TreeInv /\ Nested /\ faults \in Nat /\ SectionsApart /\ \A w \in Procs : SoFar(w) /\ Placed(w)

LEMMA WholeInvInit ==
  ASSUME TreeInit
  PROVE  WholeInv
<1>1. \A w \in Procs : ~Busy(w)
  BY DEF TreeInit, NodeInit, Busy
<1>2. Nested
  BY LoadAssumption DEF TreeInit, Nested, NestedIn
<1>3. SectionsApart
  BY <1>1 DEF SectionsApart
<1>4. \A w \in Procs : SoFar(w) /\ Placed(w)
  BY <1>1 DEF SoFar, Watched, Placed, Section
<1>5. faults \in Nat
  BY DEF TreeInit, NodeInit
<1> QED BY <1>2, <1>3, <1>4, <1>5, TreeInvInit DEF WholeInv

LEMMA WholeInvNext ==
  ASSUME WholeInv, TreeNext
  PROVE  WholeInv'
<1>1. TreeInv /\ NodeInv /\ SeenOK /\ CacheOK /\ Separate /\ Nested /\ faults \in Nat /\ SectionsApart
  BY DEF WholeInv, TreeInv
<1>2. \A w \in Procs : SoFar(w)
  BY DEF WholeInv
<1>3. \A w \in Procs : Placed(w)
  BY DEF WholeInv
<1>4. TreeInv' /\ Nested' /\ faults' \in Nat /\ SectionsApart'
  BY <1>1, TreeInvNext, NestedStays, FaultsGrow, ApartStays
<1>5. \A w \in Procs : SoFar(w)'
  BY <1>1, <1>2, WholeAll
<1>6. \A w \in Procs : Placed(w)'
  BY <1>1, <1>3, PlacedAll
<1> QED BY <1>4, <1>5, <1>6 DEF WholeInv

LEMMA WholeInvStutters ==
  ASSUME WholeInv, UNCHANGED vars
  PROVE  WholeInv'
<1>1. UNCHANGED <<entry, data, job, seen, faults>>
  BY DEF vars, nodeVars
<1>2. View' = View
  BY <1>1 DEF View, ViewOf
<1>3. TreeInv'
  BY TreeInvStutters DEF WholeInv
<1>4. Nested' /\ faults' \in Nat
  BY <1>1 DEF WholeInv, Nested, NestedIn, Below
<1>5. SectionsApart'
  BY <1>1 DEF WholeInv, SectionsApart, Apart, Section, Busy, Ranged, ReadOnly, Scope, NamesOf, Shares
<1>6. ASSUME NEW w \in Procs PROVE SoFar(w)'
  <2>1. (Watched(w) /\ faults = 0)' => Watched(w) /\ faults = 0
    BY <1>1 DEF Watched, Busy, Ranged
  <2>2. SoFar(w)
    BY DEF WholeInv
  <2>3. (Watched(w) /\ faults = 0)' =>
           Past(seen'[w].before) /\ (Fair(seen'[w].before, job'[w].req) => WholeOf(job'[w], seen'[w].before, View', entry'))
    BY <1>1, <1>2, <2>1, <2>2 DEF SoFar
  <2> QED BY <2>3, WholeNext
<1>7. ASSUME NEW w \in Procs PROVE Placed(w)'
  <2>1. (Section(w) /\ faults = 0)' => Section(w) /\ faults = 0
    BY <1>1 DEF Section, Busy, Ranged
  <2>2. Placed(w)
    BY DEF WholeInv
  <2>3. (Section(w) /\ faults = 0)' => SectionOf(job'[w], seen'[w].before, View', entry')
    BY <1>1, <1>2, <2>1, <2>2 DEF Placed
  <2> QED BY <2>3, PlacedNext
<1> QED BY <1>3, <1>4, <1>5, <1>6, <1>7 DEF WholeInv

\* Of a request that met no rival, as long as nothing has failed, each name it may change is as it
\* was or as the system calls made so far have left it; and a section of a file is in its place as
\* far as it is written, since other sections written to the file at that time are of other parts of it.
THEOREM WholeInvariant == TreeSpec => []WholeInv
<1>1. WholeInv /\ [TreeNext]_vars => WholeInv'
  BY WholeInvNext, WholeInvStutters
<1> QED BY <1>1, WholeInvInit, PTL DEF TreeSpec

\* A request that is answered while no request it conflicts with has overlapped it, and no disk
\* has failed, has done what it means if the answer is a success, and nothing if it is a refusal,
\* however its system calls came between those of others.  (subrequest handler of mod_webdav.c.)
THEOREM AllOrNothingHolds == TreeSpec => []AllOrNothing
<1>1. WholeInv => AllOrNothing
  <2> SUFFICES ASSUME WholeInv, NEW w \in Procs, Undisturbed(w), faults = 0, Fair(seen[w].before, job[w].req)
               PROVE  LET j == job[w]
                          r == j.req
                          b == seen[w].before
                          done == j.status \in 200..206
                          want == IF done THEN After(b, r) ELSE b
                      IN  IF Ranged(r) /\ done
                          THEN \A u \in DOMAIN r.body : /\ r.off + u <= Len(View[r.path].has)
                                                        /\ View[r.path].has[r.off + u] = r.body[u]
                          ELSE \A q \in Scope(r) : View[q] = want[q]
    BY DEF AllOrNothing, Fair
  <2>1. Busy(w) /\ seen[w].alone /\ job[w].pc = "answer"
    BY DEF Undisturbed, Busy
  <2>2. job[w].req \in Load
    BY <2>1, JobIs DEF WholeInv, TreeInv
  <2>3. CASE Ranged(job[w].req)
    <3>1. SectionOf(job[w], seen[w].before, View, entry)
      BY <2>1, <2>3 DEF WholeInv, Placed, Section
    <3>2. DOMAIN job[w].req.body = 1..Len(job[w].req.body)
      BY <2>2, <2>3, RangedIs
    <3> QED BY <2>1, <2>3, <3>1, <3>2 DEF SectionOf, InPlace, Untouched
  <2>4. CASE ~Ranged(job[w].req)
    <3>1. WholeOf(job[w], seen[w].before, View, entry)
      BY <2>1, <2>4 DEF WholeInv, SoFar, Watched
    <3>2. Outcome(job[w], seen[w].before, View)
      BY <2>1, <3>1 DEF WholeOf
    <3> QED BY <2>4, <3>2 DEF Outcome, Reached, Untouched
  <2> QED BY <2>3, <2>4
<1> QED BY <1>1, WholeInvariant, PTL
================================================================================
