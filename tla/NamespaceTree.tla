--------------------------- MODULE NamespaceTree ---------------------------
(* More theorems about Namespace, for every number of inodes and blocks,    *)
(* every set of names and every layout of the carriers: the directories are *)
(* a tree, and their link counts are right.                                 *)
EXTENDS NamespaceProofs

-----------------------------------------------------------------------------
(* Where directories are, and how many links they have                      *)

\* The parent entries and the link counts.
Parents(ns, bs) == [d \in Inos |-> bs[Head(ns[d].blocks)].dotdot]
Counts(ns)      == [d \in Inos |-> ns[d].nlink]

\* No directory is below itself: of any inodes, one is named by none of them.
Acyclic(es) == \A S \in SUBSET Inos : S # {} => \E x \in S : \A e \in es : e.ino = x => e.dir \notin S

Pending(t, op)        == \E k \in DOMAIN t : t[k].do = op
DotdotPending(t, i)   == \E k \in DOMAIN t : t[k].do = "dotdot" /\ t[k].ino = i

\* A name is added to a directory that is not below the inode: U has that directory and
\* all that is above it.
LinksBelow(es, orph, t) ==
    \A k \in DOMAIN t : t[k].do = "link" =>
        /\ t[k].dir \notin orph
        /\ \E U \in SUBSET Inos : /\ t[k].dir \in U /\ t[k].ino \notin U
                                  /\ \A e \in es : e.ino \in U => e.dir \in U

\* ".." is where the directory is, or will be once the plan has set it,
Agrees(es, dirs, par, t) ==
    /\ par[Root] = Root
    /\ \A e \in es \ Leaving(es, t) : e.ino \in dirs =>
          par[e.ino] = e.dir \/ (DotdotPending(t, e.ino) /\ ~Pending(t, "link"))
    /\ \A k \in DOMAIN t : t[k].do = "link" /\ t[k].ino \in dirs =>
          par[t[k].ino] = t[k].dir \/ DotdotPending(t, t[k].ino)
    /\ \A k \in DOMAIN t : t[k].do = "dir" => 2 \in DOMAIN t /\ t[2].dir = t[1].parent

\* and that is right after the directory has its new name and has lost the old one.
DotdotsOK(es, dirs, t) ==
    \A k \in DOMAIN t : t[k].do = "dotdot" =>
        /\ t[k].ino \in dirs \ {Root}
        /\ \A j \in DOMAIN t : t[j].do = "link" =>
              /\ k = j + 2 /\ Follows(t, j, "remove")
              /\ t[j].ino = t[k].ino /\ t[j].dir = t[k].parent
        /\ ~Pending(t, "link") =>
              /\ k = 1 \/ (k = 2 /\ t[1].do = "remove")
              /\ \A e \in es \ Leaving(es, t) : e.ino = t[k].ino => e.dir = t[k].parent

Placed(es, dirs, orph, par, t) ==
    /\ Acyclic(es)
    /\ \A e \in es : e.dir \notin orph \cup Loose(t)
    /\ LinksBelow(es, orph, t)
    /\ Agrees(es, dirs, par, t)
    /\ DotdotsOK(es, dirs, t)

\* The directories in directory d; the entry that the plan removes first; and the
\* changes of link counts that it makes before anything can fail.
Kids(es, dirs, d) == {c \in dirs \ {Root} : \E e \in es : e.ino = c /\ e.dir = d}
Gone(es, t)       == {e \in es : t # <<>> /\ t[1].do = "remove" /\ Of(e, t[1])}
Owed(t, op, d) ==
    \E k \in DOMAIN t : /\ t[k].do = op /\ t[k].ino = d
                        /\ \A j \in DOMAIN t : j < k => t[j].do \notin {"link", "flush"}
Owes(t, op, d) == IF Owed(t, op, d) THEN 1 ELSE 0
After(t, k, op, d) == \E m \in DOMAIN t : m > k /\ t[m].do = op /\ t[m].ino = d

\* A directory gets another parent.
Moved(dirs, t, k) ==
    /\ t[k].ino \in dirs \/ t[1].do = "dir"
    /\ Follows(t, k, "remove") => t[k + 1].dir # t[k].dir

\* The link count of a directory, with what the plan still owes it.
CountsOK(es, dirs, nl, t) ==
    \A d \in dirs :
        nl[d] + Owes(t, "more", d) = 2 + Cardinality(Kids(es \ Gone(es, t), dirs, d)) + Owes(t, "less", d)

\* What is owed is paid once, and before a carrier is saved; nothing is owed when a file is freed.
OrderOK(t) ==
    /\ \A k \in DOMAIN t : t[k].do = "drop" /\ k + 1 \in DOMAIN t => t[k + 1].do \in {"link", "flush"}
    /\ \A k, m \in DOMAIN t : k < m /\ t[k].do = t[m].do /\ t[k].do \in {"more", "less"} =>
          \E j \in DOMAIN t : k < j /\ j < m /\ t[j].do \in {"link", "flush"}
    /\ \A k, m \in DOMAIN t : k < m /\ t[k].do = "flush" /\ t[m].do \in {"more", "less"} =>
          \E j \in DOMAIN t : k < j /\ j < m /\ t[j].do = "link"

\* After a directory got its new name, its new parent has one link more and its old one
\* has one less.
LinkCountsOK(dirs, t) ==
    \A k \in DOMAIN t : t[k].do = "link" =>
        \A d \in Inos :
            /\ After(t, k, "more", d) <=> d = t[k].dir /\ Moved(dirs, t, k)
            /\ After(t, k, "less", d) <=> Follows(t, k, "remove") /\ d = t[k + 1].dir /\ Moved(dirs, t, k)

Counted(es, dirs, nl, t) == CountsOK(es, dirs, nl, t) /\ OrderOK(t) /\ LinkCountsOK(dirs, t)

\* par and nl are what ".." and the link counts are meant to be: what they are, but in
\* the directories where a failed rename did not change them.
Meant(ns, bs, old, off, par, nl) ==
    /\ nl \in [Inos -> Nat] /\ Root \notin old
    /\ \A d \in DirsIn(ns) \ old : par[d] = Parents(ns, bs)[d]
    /\ \A d \in DirsIn(ns) \ off : nl[d] = Counts(ns)[d]

Fits(ns, bs, orph, par, nl, t) ==
    /\ Placed(EntriesIn(ns, bs), DirsIn(ns), orph, par, t)
    /\ Counted(EntriesIn(ns, bs), DirsIn(ns), nl, t)

Sound(ns, bs, orph, old, off, t) ==
    /\ \A d \in DirsIn(ns) : ns[d].blocks # <<>>
    /\ \E par, nl : Meant(ns, bs, old, off, par, nl) /\ Fits(ns, bs, orph, par, nl, t)

TreeInv ==
    /\ ~torn => Sound(inode, data, orphans, stale, miscounted, todo)
    /\ whole => Sound(disk.inode, disk.data, disk.orphans, disk.stale, disk.miscounted, <<>>)

\* Changes after the first.
LEMMA LaterChanges ==
    ASSUME NEW t, NEW u, Rest(u, t)
    PROVE  /\ \A op : Pending(u, op) => Pending(t, op)
           /\ \A op : Pending(t, op) /\ t[1].do # op => Pending(u, op)
           /\ \A i : DotdotPending(u, i) => DotdotPending(t, i)
           /\ \A i : DotdotPending(t, i) /\ ~(t[1].do = "dotdot" /\ t[1].ino = i) => DotdotPending(u, i)
           /\ \A k \in DOMAIN u : \A op : Follows(u, k, op) <=> Follows(t, k + 1, op)
<1>1. \A k \in DOMAIN t : k # 1 => k - 1 \in DOMAIN u /\ u[k - 1] = t[k]
  <2> SUFFICES ASSUME NEW k \in DOMAIN t, k # 1 PROVE k - 1 \in DOMAIN u /\ u[k - 1] = t[k]
    OBVIOUS
  <2>1. k - 1 \in DOMAIN u /\ k \in Nat /\ (k - 1) + 1 = k
    BY DEF Rest
  <2> QED
    BY <2>1 DEF Rest
<1>2. \A k \in DOMAIN u : k + 1 \in DOMAIN t /\ u[k] = t[k + 1]
  BY DEF Rest
<1>3. ASSUME NEW k \in DOMAIN u, NEW op
      PROVE  Follows(u, k, op) <=> Follows(t, k + 1, op)
  <2>1. k + 1 \in DOMAIN t /\ k \in Nat /\ (k + 1) + 1 # 1 /\ ((k + 1) + 1) - 1 = k + 1
    BY <1>2 DEF Rest
  <2> QED
    BY <1>1, <1>2, <2>1 DEF Follows
<1> QED
  BY <1>1, <1>2, <1>3 DEF Pending, DotdotPending

\* Fewer entries are as acyclic, and links are as much below.
LEMMA FewerEntries ==
    ASSUME NEW es, NEW es2 \in SUBSET es, NEW orph, NEW t, NEW u, Rest(u, t)
    PROVE  /\ Acyclic(es) => Acyclic(es2)
           /\ LinksBelow(es, orph, t) => LinksBelow(es2, orph, u)
<1>1. Acyclic(es) => Acyclic(es2)
  BY DEF Acyclic
<1>2. LinksBelow(es, orph, t) => LinksBelow(es2, orph, u)
  BY DEF LinksBelow, Rest
<1> QED
  BY <1>1, <1>2

\* No ".." is set now, or it is the only one left and no name is added any more.
LEMMA FirstDotdot ==
    ASSUME NEW es, NEW dirs, NEW t, NEW u, Rest(u, t), DotdotsOK(es, dirs, t)
    PROVE  /\ t[1].do = "dotdot" =>
                 /\ ~Pending(t, "link") /\ ~Pending(u, "dotdot")
                 /\ t[1].ino \in dirs \ {Root}
                 /\ \A e \in es \ Leaving(es, t) : e.ino = t[1].ino => e.dir = t[1].parent
           /\ t[1].do \notin {"dotdot", "remove"} /\ ~Pending(t, "link") => ~Pending(t, "dotdot")
<1>1. \A k \in DOMAIN t : k \in Nat \ {0}
  BY DEF Rest
<1>2. 1 \in DOMAIN t
  BY DEF Rest
<1>3. ASSUME t[1].do = "dotdot"
      PROVE  /\ ~Pending(t, "link") /\ ~Pending(u, "dotdot")
             /\ t[1].ino \in dirs \ {Root}
             /\ \A e \in es \ Leaving(es, t) : e.ino = t[1].ino => e.dir = t[1].parent
  <2>1. \A j \in DOMAIN t : t[j].do = "link" => 1 = j + 2
    BY <1>2, <1>3 DEF DotdotsOK
  <2>2. ~Pending(t, "link")
    BY <1>1, <2>1 DEF Pending
  <2>3. \A k \in DOMAIN t : t[k].do = "dotdot" => k = 1
    BY <1>3, <2>2 DEF DotdotsOK
  <2>4. \A k \in DOMAIN u : k + 1 \in DOMAIN t /\ u[k] = t[k + 1] /\ k + 1 # 1
    BY DEF Rest
  <2>5. ~Pending(u, "dotdot")
    BY <2>3, <2>4 DEF Pending
  <2> QED
    BY <1>2, <1>3, <2>2, <2>5 DEF DotdotsOK
<1>4. ASSUME t[1].do \notin {"dotdot", "remove"}, ~Pending(t, "link")
      PROVE  ~Pending(t, "dotdot")
  BY <1>4 DEF DotdotsOK, Pending
<1> QED
  BY <1>3, <1>4

\* The dotdots after a change that is neither, with the entries that stay.
LEMMA DotdotsRest ==
    ASSUME NEW es, NEW es2, NEW dirs, NEW dirs2, NEW t, NEW u, Rest(u, t), DotdotsOK(es, dirs, t),
           t[1].do \notin {"dotdot", "link"},
           es2 \ Leaving(es2, u) \subseteq es \ Leaving(es, t),
           \A k \in DOMAIN t : t[k].do = "dotdot" => t[k].ino \in dirs2
    PROVE  DotdotsOK(es2, dirs2, u)
<1> SUFFICES ASSUME NEW k \in DOMAIN u, u[k].do = "dotdot"
             PROVE  /\ u[k].ino \in dirs2 \ {Root}
                    /\ \A j \in DOMAIN u : u[j].do = "link" =>
                          /\ k = j + 2 /\ Follows(u, j, "remove")
                          /\ u[j].ino = u[k].ino /\ u[j].dir = u[k].parent
                    /\ ~Pending(u, "link") =>
                          /\ k = 1 \/ (k = 2 /\ u[1].do = "remove")
                          /\ \A e \in es2 \ Leaving(es2, u) : e.ino = u[k].ino => e.dir = u[k].parent
  BY DEF DotdotsOK
<1>1. k + 1 \in DOMAIN t /\ u[k] = t[k + 1] /\ t[k + 1].do = "dotdot" /\ k \in Nat \ {0}
  BY DEF Rest
<1>2. /\ t[k + 1].ino \in dirs \ {Root}
      /\ \A j \in DOMAIN t : t[j].do = "link" =>
            /\ k + 1 = j + 2 /\ Follows(t, j, "remove")
            /\ t[j].ino = t[k + 1].ino /\ t[j].dir = t[k + 1].parent
      /\ ~Pending(t, "link") =>
            /\ k + 1 = 1 \/ (k + 1 = 2 /\ t[1].do = "remove")
            /\ \A e \in es \ Leaving(es, t) : e.ino = t[k + 1].ino => e.dir = t[k + 1].parent
  BY <1>1 DEF DotdotsOK
<1>3. ASSUME NEW j \in DOMAIN u, u[j].do = "link"
      PROVE  /\ k = j + 2 /\ Follows(u, j, "remove")
             /\ u[j].ino = u[k].ino /\ u[j].dir = u[k].parent
  <2>1. j + 1 \in DOMAIN t /\ u[j] = t[j + 1] /\ t[j + 1].do = "link" /\ j \in Nat
    BY <1>3 DEF Rest
  <2>2. /\ k + 1 = (j + 1) + 2 /\ Follows(t, j + 1, "remove")
        /\ t[j + 1].ino = t[k + 1].ino /\ t[j + 1].dir = t[k + 1].parent
    BY <1>2, <2>1
  <2>3. k = j + 2
    BY <1>1, <2>1, <2>2
  <2> QED
    BY <1>1, <1>3, <2>1, <2>2, <2>3, LaterChanges
<1>4. ASSUME ~Pending(u, "link")
      PROVE  /\ k = 1 \/ (k = 2 /\ u[1].do = "remove")
             /\ \A e \in es2 \ Leaving(es2, u) : e.ino = u[k].ino => e.dir = u[k].parent
  <2>1. ~Pending(t, "link")
    BY <1>4, LaterChanges
  <2>2. k = 1
    BY <1>1, <1>2, <2>1
  <2> QED
    BY <1>1, <1>2, <2>1, <2>2
<1> QED
  BY <1>1, <1>2, <1>3, <1>4

\* What the invariant of the tree says of the first change and of the second.
LEMMA LooseAndLeaving ==
    ASSUME NEW es, NEW live, NEW dirs, NEW orph, NEW t, NEW u, InTree(es, live, dirs, orph, t), Rest(u, t)
    PROVE  /\ \A k \in DOMAIN u : ~Makes(u[k])
           /\ t[1].do # "remove" => Leaving(es, t) = {}
           /\ t[1].do # "link" => \A es2 : Leaving(es2, u) = {} /\ Gone(es2, u) = {}
           /\ Quiet(t[1]) \/ Unlinks(t[1]) => Loose(u) = {}
<1>1. PlanOK(es, live, dirs, orph, t) /\ 1 \in DOMAIN t
  BY DEF InTree, Rest
<1>2. \A k \in DOMAIN u : ~Makes(u[k])
  BY <1>1, PlanRest
<1>3. ASSUME t[1].do # "link", NEW es2
      PROVE  Leaving(es2, u) = {} /\ Gone(es2, u) = {}
  <2>1. 1 \in DOMAIN u => u[1].do # "remove"
    BY <1>1, <1>3, PlanRest
  <2> QED
    BY <2>1 DEF Leaving, Gone, Rest
<1>4. ASSUME Quiet(t[1]) \/ Unlinks(t[1])
      PROVE  Loose(u) = {}
  <2>1. ~Makes(t[1]) /\ t[1].do # "remove"
    BY <1>4 DEF Quiet, Unlinks, Makes
  <2>2. 1 \in DOMAIN u => ~Unlinks(u[1]) /\ (u[1].do = "link" => Follows(u, 1, "remove"))
    BY <1>1, <2>1, PlanRest
  <2> QED
    BY <2>2 DEF Loose, Rest
<1>5. t[1].do # "remove" => Leaving(es, t) = {}
  BY DEF Leaving
<1> QED
  BY <1>2, <1>3, <1>4, <1>5

\* A link count, ".." or a carrier.
LEMMA PlacedAfterQuiet ==
    ASSUME NEW es, NEW live, NEW dirs, NEW orph, NEW par, NEW par2, NEW t, NEW u,
           InTree(es, live, dirs, orph, t), Rest(u, t), Quiet(t[1]), Placed(es, dirs, orph, par, t),
           \A d \in dirs : par2[d] = IF t[1].do = "dotdot" /\ d = t[1].ino THEN t[1].parent ELSE par[d]
    PROVE  Placed(es, dirs, orph, par2, u)
<1>1. /\ Acyclic(es) /\ LinksBelow(es, orph, t) /\ Agrees(es, dirs, par, t) /\ DotdotsOK(es, dirs, t)
      /\ \A e \in es : e.dir \notin orph
  BY DEF Placed
<1>2. /\ t[1].do \notin {"link", "remove", "dir"} /\ Root \in dirs
      /\ \A k \in DOMAIN u : u[k].do # "dir"
      /\ Leaving(es, t) = {} /\ Leaving(es, u) = {} /\ Loose(u) = {}
  BY LooseAndLeaving DEF Quiet, InTree, Makes
<1>3. LinksBelow(es, orph, u)
  BY <1>1, FewerEntries
<1>4. CASE t[1].do = "dotdot"
  <2>1. /\ ~Pending(t, "link") /\ ~Pending(u, "link") /\ ~Pending(u, "dotdot")
        /\ t[1].ino \in dirs \ {Root}
        /\ \A e \in es : e.ino = t[1].ino => e.dir = t[1].parent
    BY <1>1, <1>2, <1>4, FirstDotdot, LaterChanges
  <2>2. DotdotsOK(es, dirs, u)
    BY <2>1 DEF DotdotsOK, Pending
  <2>3. \A e \in es : e.ino \in dirs /\ e.ino # t[1].ino => par[e.ino] = e.dir
    <3> SUFFICES ASSUME NEW e \in es, e.ino \in dirs, e.ino # t[1].ino PROVE par[e.ino] = e.dir
      OBVIOUS
    <3>1. ~DotdotPending(u, e.ino)
      BY <2>1 DEF Pending, DotdotPending
    <3>2. ~DotdotPending(t, e.ino)
      BY <3>1, LaterChanges
    <3> QED
      BY <1>1, <1>2, <3>2 DEF Agrees
  <2>4. \A k \in DOMAIN u : u[k].do # "link"
    BY <2>1 DEF Pending
  <2>5. par2[Root] = Root
    BY <1>1, <1>2, <2>1 DEF Agrees
  <2>6. Agrees(es, dirs, par2, u)
    BY <1>2, <1>4, <2>1, <2>3, <2>4, <2>5 DEF Agrees
  <2> QED
    BY <1>1, <1>2, <1>3, <2>2, <2>6 DEF Placed
<1>5. CASE t[1].do # "dotdot"
  <2>1. \A d \in dirs : par2[d] = par[d]
    BY <1>5
  <2>2. DotdotsOK(es, dirs, u)
    <3>1. \A k \in DOMAIN t : t[k].do = "dotdot" => t[k].ino \in dirs
      BY <1>1 DEF DotdotsOK
    <3> QED
      BY <1>1, <1>2, <1>5, <3>1, DotdotsRest
  <2>3. /\ Pending(u, "link") <=> Pending(t, "link")
        /\ \A i : DotdotPending(u, i) <=> DotdotPending(t, i)
    BY <1>2, <1>5, LaterChanges
  <2>4. \A k \in DOMAIN u : k + 1 \in DOMAIN t /\ u[k] = t[k + 1]
    BY DEF Rest
  <2>5. Agrees(es, dirs, par2, u)
    BY <1>1, <1>2, <2>1, <2>3, <2>4 DEF Agrees
  <2> QED
    BY <1>1, <1>2, <1>3, <2>2, <2>5 DEF Placed
<1> QED
  BY <1>4, <1>5

\* An inode is made.
LEMMA PlacedAfterMaking ==
    ASSUME NEW es, NEW live, NEW dirs, NEW orph, NEW par, NEW par2, NEW t, NEW u, NEW dirs2,
           InTree(es, live, dirs, orph, t), Rest(u, t), Makes(t[1]), Placed(es, dirs, orph, par, t),
           dirs2 = IF t[1].do = "dir" THEN dirs \cup {t[1].ino} ELSE dirs,
           \A d \in dirs : par2[d] = par[d],
           t[1].do = "dir" => par2[t[1].ino] = t[1].parent
    PROVE  Placed(es, dirs2, orph, par2, u)
<1> DEFINE i == t[1].ino
<1>1. /\ Acyclic(es) /\ LinksBelow(es, orph, t) /\ Agrees(es, dirs, par, t) /\ DotdotsOK(es, dirs, t)
      /\ \A e \in es : e.dir \notin orph
  BY DEF Placed
<1>2. /\ t[1].do \notin {"link", "remove", "dotdot"} /\ Root \in dirs /\ dirs \subseteq live
      /\ \A k \in DOMAIN u : u[k].do # "dir"
      /\ Leaving(es, t) = {} /\ Leaving(es, u) = {}
      /\ \A e \in es : e.dir \in dirs /\ e.ino \in live
  BY LooseAndLeaving DEF Makes, InTree
<1>3. /\ i \notin live /\ 2 \in DOMAIN t /\ t[2].do = "link" /\ t[2].ino = i /\ ~Follows(t, 2, "remove")
      /\ 1 \in DOMAIN u /\ u[1] = t[2]
  BY DEF InTree, PlanOK, MakesOK, Follows, Rest
<1>4. Pending(t, "link") /\ Pending(u, "link") /\ ~Pending(t, "dotdot") /\ ~Pending(u, "dotdot")
  <2>1. Pending(t, "link") /\ Pending(u, "link")
    BY <1>3 DEF Pending
  <2>2. ~Pending(t, "dotdot")
    BY <1>1, <1>3 DEF DotdotsOK, Pending
  <2> QED
    BY <2>1, <2>2, LaterChanges
<1>5. LinksBelow(es, orph, u)
  BY <1>1, FewerEntries
<1>6. Loose(u) \subseteq {i}
  BY <1>3 DEF Loose
<1>7. \A k \in DOMAIN u : u[k].do = "link" => k = 1
  BY <1>3, PlanRest DEF InTree
<1>8. \A e \in es : e.ino \in dirs => par[e.ino] = e.dir
  BY <1>1, <1>2, <1>4 DEF Agrees
<1>9. i \in dirs2 => par2[i] = t[2].dir
  <2>1. 1 \in DOMAIN t /\ (i \in dirs2 => t[1].do = "dir")
    BY <1>2, <1>3 DEF Rest
  <2> QED
    BY <1>1, <2>1 DEF Agrees
<1>10. Agrees(es, dirs2, par2, u)
  <2>1. par2[Root] = Root
    BY <1>1, <1>2 DEF Agrees
  <2>2. \A e \in es : e.ino \in dirs2 => par2[e.ino] = e.dir
    BY <1>2, <1>3, <1>8
  <2>3. \A k \in DOMAIN u : u[k].do = "link" /\ u[k].ino \in dirs2 => par2[u[k].ino] = u[k].dir
    BY <1>3, <1>7, <1>9
  <2> QED
    BY <1>2, <2>1, <2>2, <2>3 DEF Agrees
<1>11. DotdotsOK(es, dirs2, u)
  BY <1>4 DEF DotdotsOK, Pending
<1> QED
  BY <1>1, <1>2, <1>3, <1>5, <1>6, <1>10, <1>11 DEF Placed

\* A name for an inode that is not above the directory closes no loop.
LEMMA AcyclicLink ==
    ASSUME NEW es, Acyclic(es), NEW e0, NEW U \in SUBSET Inos, e0.dir \in U, e0.ino \notin U,
           \A e \in es : e.ino \in U => e.dir \in U
    PROVE  Acyclic(es \cup {e0})
<1> SUFFICES ASSUME NEW S \in SUBSET Inos, S # {}
             PROVE  \E x \in S : \A e \in es \cup {e0} : e.ino = x => e.dir \notin S
  BY DEF Acyclic
<1>1. CASE S \cap U # {}
  <2>1. PICK x \in S \cap U : \A e \in es : e.ino = x => e.dir \notin S \cap U
    <3>1. S \cap U \in SUBSET Inos
      OBVIOUS
    <3> QED
      BY <1>1, <3>1 DEF Acyclic
  <2>2. \A e \in es \cup {e0} : e.ino = x => e.dir \notin S
    BY <2>1
  <2> QED
    BY <2>1, <2>2
<1>2. CASE S \cap U = {}
  <2>1. PICK x \in S : \A e \in es : e.ino = x => e.dir \notin S
    BY DEF Acyclic
  <2>2. \A e \in es \cup {e0} : e.ino = x => e.dir \notin S
    BY <1>2, <2>1
  <2> QED
    BY <2>1, <2>2
<1> QED
  BY <1>1, <1>2

\* What is left of a plan after its link.
LEMMA AfterTheLink ==
    ASSUME NEW es, NEW live, NEW dirs, NEW orph, NEW t, NEW u,
           InTree(es, live, dirs, orph, t), Rest(u, t), t[1].do = "link"
    PROVE  /\ \A k \in DOMAIN u : ~Makes(u[k]) /\ ~Unlinks(u[k]) /\ u[k].do # "link"
           /\ \A k \in DOMAIN u : u[k].do = "remove" => k = 1
           /\ Follows(t, 1, "remove") =>
                 /\ u # <<>> /\ 1 \in DOMAIN u /\ u[1].do = "remove" /\ u[1] = t[2] /\ Loose(t) = {}
                 /\ \E e1 \in es : /\ Of(e1, u[1]) /\ e1.ino = t[1].ino
                                   /\ \A e \in es : Of(e, u[1]) \/ e.ino = t[1].ino => e = e1
                 /\ <<u[1].dir, u[1].name>> # <<t[1].dir, t[1].name>>
           /\ ~Follows(t, 1, "remove") =>
                 /\ ~(1 \in DOMAIN u /\ u[1].do = "remove")
                 /\ Loose(t) = {t[1].ino} /\ \A e \in es : e.ino # t[1].ino
           /\ Loose(u) = {}
           /\ \A es2 : Leaving(es2, u) = Gone(es2, u)
<1>1. PlanOK(es, live, dirs, orph, t) /\ ~Makes(t[1]) /\ ~Unlinks(t[1]) /\ t[1].do # "remove" /\ 1 \in DOMAIN t
  BY DEF InTree, Makes, Unlinks, Rest
<1>2. \A k \in DOMAIN u : ~Makes(u[k]) /\ ~Unlinks(u[k]) /\ u[k].do # "link"
  BY <1>1, PlanRest
<1>3. \A k \in DOMAIN u : u[k].do = "remove" => k = 1
  <2>1. \A k \in DOMAIN t : t[k].do = "link" => k = 1
    BY <1>1 DEF PlanOK, LinksOK
  <2> QED
    BY <1>1, <2>1, PlanRest
<1>4. Leaving(es, t) = {} /\ Tree(es, live, orph \cup Loose(t)) /\ \A e, f \in es : Of(e, f) => e = f
  <2>1. Leaving(es, t) = {}
    BY <1>1 DEF Leaving
  <2> QED
    BY <2>1 DEF InTree
<1>5. ASSUME Follows(t, 1, "remove")
      PROVE  /\ u # <<>> /\ 1 \in DOMAIN u /\ u[1].do = "remove" /\ u[1] = t[2] /\ Loose(t) = {}
             /\ \E e1 \in es : /\ Of(e1, u[1]) /\ e1.ino = t[1].ino
                               /\ \A e \in es : Of(e, u[1]) \/ e.ino = t[1].ino => e = e1
             /\ <<u[1].dir, u[1].name>> # <<t[1].dir, t[1].name>>
  <2>1. 1 \in DOMAIN u /\ u[1].do = "remove" /\ u[1] = t[2] /\ u # <<>>
    BY <1>5 DEF Follows, Rest
  <2>2. /\ <<u[1].dir, u[1].name>> # <<t[1].dir, t[1].name>>
        /\ \E e \in es : Of(e, u[1]) /\ e.ino = t[1].ino
    BY <1>1, <2>1, PlanRest
  <2>3. PICK e1 \in es : Of(e1, u[1]) /\ e1.ino = t[1].ino
    BY <2>2
  <2>4. \A e \in es : Of(e, u[1]) => e = e1
    BY <1>4, <2>3 DEF Of
  <2>5. \A e \in es : e.ino = t[1].ino => e = e1
    BY <1>4, <2>3 DEF Tree
  <2>6. Loose(t) = {}
    BY <1>1, <1>5 DEF Loose
  <2> QED
    BY <2>1, <2>2, <2>3, <2>4, <2>5, <2>6
<1>6. ASSUME ~Follows(t, 1, "remove")
      PROVE  /\ ~(1 \in DOMAIN u /\ u[1].do = "remove")
             /\ Loose(t) = {t[1].ino} /\ \A e \in es : e.ino # t[1].ino
  <2>1. ~(1 \in DOMAIN u /\ u[1].do = "remove")
    BY <1>6 DEF Follows, Rest
  <2>2. Loose(t) = {t[1].ino}
    BY <1>6 DEF Loose, Rest
  <2>3. t[1].ino \in live \ {Root} /\ \A e \in es : e.ino # t[1].ino
    BY <1>4, <2>2 DEF Tree
  <2> QED
    BY <2>1, <2>2, <2>3
<1>7. Loose(u) = {}
  BY <1>2 DEF Loose, Rest
<1>8. \A es2 : Leaving(es2, u) = Gone(es2, u)
  BY <1>2 DEF Leaving, Gone
<1> QED
  BY <1>2, <1>3, <1>5, <1>6, <1>7, <1>8

\* A name is added.
LEMMA PlacedAfterLink ==
    ASSUME NEW es, NEW live, NEW dirs, NEW orph, NEW par, NEW par2, NEW t, NEW u, NEW e0,
           InTree(es, live, dirs, orph, t), Rest(u, t), t[1].do = "link", Placed(es, dirs, orph, par, t),
           Of(e0, t[1]), e0.ino = t[1].ino,
           \A d \in dirs : par2[d] = par[d]
    PROVE  Placed(es \cup {e0}, dirs, orph, par2, u)
<1> DEFINE i   == t[1].ino
           es2 == es \cup {e0}
<1>1. /\ Acyclic(es) /\ LinksBelow(es, orph, t) /\ Agrees(es, dirs, par, t) /\ DotdotsOK(es, dirs, t)
      /\ \A e \in es : e.dir \notin orph
  BY DEF Placed
<1>2. /\ 1 \in DOMAIN t /\ Leaving(es, t) = {} /\ Root \in dirs /\ Pending(t, "link") /\ ~Pending(u, "link")
      /\ \A k \in DOMAIN u : u[k].do # "dir" /\ u[k].do # "link"
      /\ e0.dir = t[1].dir /\ Loose(u) = {}
  <2>1. 1 \in DOMAIN t
    BY DEF Rest
  <2>2. \A k \in DOMAIN u : ~Makes(u[k]) /\ ~Unlinks(u[k]) /\ u[k].do # "link"
    BY AfterTheLink
  <2>3. Loose(u) = {}
    BY AfterTheLink
  <2>6. Root \in dirs /\ Leaving(es, t) = {}
    BY DEF Leaving, InTree
  <2>4. Pending(t, "link") /\ ~Pending(u, "link")
    BY <2>1, <2>2 DEF Pending
  <2>5. e0.dir = t[1].dir
    BY DEF Of
  <2> QED
    BY <2>1, <2>2, <2>3, <2>4, <2>5, <2>6 DEF Makes
<1>3. e0.dir \notin orph /\ Acyclic(es2)
  BY <1>1, <1>2, AcyclicLink DEF LinksBelow
<1>4. LinksBelow(es2, orph, u)
  BY <1>2 DEF LinksBelow
<1>5. \A d : DotdotPending(u, d) <=> DotdotPending(t, d)
  BY LaterChanges
<1>6. \A e \in es : e.ino \in dirs => par[e.ino] = e.dir
  BY <1>1, <1>2 DEF Agrees
<1>7. Agrees(es2, dirs, par2, u)
  <2>1. par2[Root] = Root
    BY <1>1, <1>2 DEF Agrees
  <2>2. i \in dirs => par[i] = e0.dir \/ DotdotPending(t, i)
    BY <1>1, <1>2 DEF Agrees
  <2>3. \A e \in es2 : e.ino \in dirs => par[e.ino] = e.dir \/ DotdotPending(u, e.ino)
    BY <1>5, <1>6, <2>2
  <2> QED
    BY <1>2, <2>1, <2>3 DEF Agrees
<1>8. DotdotsOK(es2, dirs, u)
  <2> SUFFICES ASSUME NEW k \in DOMAIN u, u[k].do = "dotdot"
               PROVE  /\ u[k].ino \in dirs \ {Root}
                      /\ k = 2 /\ u[1].do = "remove"
                      /\ \A e \in es2 \ Leaving(es2, u) : e.ino = u[k].ino => e.dir = u[k].parent
    BY <1>2 DEF DotdotsOK
  <2>1. k + 1 \in DOMAIN t /\ u[k] = t[k + 1] /\ k \in Nat
    BY DEF Rest
  <2>2. /\ u[k].ino \in dirs \ {Root} /\ k + 1 = 1 + 2 /\ Follows(t, 1, "remove")
        /\ i = u[k].ino /\ t[1].dir = u[k].parent
    BY <1>1, <1>2, <2>1 DEF DotdotsOK
  <2>3. k = 2
    BY <2>1, <2>2
  <2>4. PICK e1 \in es : Of(e1, u[1]) /\ \A e \in es : e.ino = i => e = e1
    BY <2>2, AfterTheLink
  <2>5. u # <<>> /\ u[1].do = "remove" /\ ~(2 \in DOMAIN u /\ Unlinks(u[2]))
    BY <2>2, AfterTheLink
  <2>6. e1 \in Leaving(es2, u)
    BY <2>4, <2>5 DEF Leaving
  <2>7. \A e \in es2 \ Leaving(es2, u) : e.ino = i => e = e0
    BY <2>4, <2>6
  <2> QED
    BY <1>2, <2>2, <2>3, <2>5, <2>7
<1> QED
  BY <1>1, <1>2, <1>3, <1>4, <1>7, <1>8 DEF Placed

\* A name is removed.
LEMMA PlacedAfterRemove ==
    ASSUME NEW es, NEW live, NEW dirs, NEW orph, NEW par, NEW par2, NEW t, NEW u, NEW e1 \in es,
           InTree(es, live, dirs, orph, t), Rest(u, t), t[1].do = "remove", Of(e1, t[1]),
           Placed(es, dirs, orph, par, t),
           \A d \in dirs : par2[d] = par[d]
    PROVE  Placed(es \ {e1}, dirs, orph, par2, u)
<1> DEFINE es2 == es \ {e1}
<1>1. /\ Acyclic(es) /\ LinksBelow(es, orph, t) /\ Agrees(es, dirs, par, t) /\ DotdotsOK(es, dirs, t)
      /\ \A e \in es : e.dir \notin orph
  BY DEF Placed
<1>2. /\ 1 \in DOMAIN t /\ Root \in dirs /\ PlanOK(es, live, dirs, orph, t)
      /\ \A k \in DOMAIN u : u[k].do # "dir"
      /\ Leaving(es2, u) = {}
      /\ \A e \in es : Of(e, t[1]) => e = e1
  <2>1. Root \in dirs /\ PlanOK(es, live, dirs, orph, t) /\ \A e, f \in es : Of(e, f) => e = f
    BY DEF InTree
  <2>2. \A e \in es : Of(e, t[1]) => e = e1
    BY <2>1 DEF Of
  <2>3. (\A k \in DOMAIN u : ~Makes(u[k])) /\ Leaving(es2, u) = {}
    BY LooseAndLeaving
  <2>4. 1 \in DOMAIN t
    BY DEF Rest
  <2> QED
    BY <2>1, <2>2, <2>3, <2>4 DEF Makes
<1>3. Acyclic(es2) /\ LinksBelow(es2, orph, u)
  BY <1>1, FewerEntries
<1>4. es2 \subseteq es \ Leaving(es, t)
  BY <1>2 DEF Leaving
<1>5. \A e \in es2 : e.dir \notin orph \cup Loose(u)
  <2>1. 1 \in DOMAIN u => ~(u[1].do = "link" /\ ~Follows(u, 1, "remove"))
    BY <1>2, PlanRest DEF Makes
  <2>2. 1 \in DOMAIN u /\ Unlinks(u[1]) => \A e \in es : e.dir # u[1].ino
    BY <1>2, PlanRest
  <2>3. \A e \in es2 : e.dir \notin Loose(u)
    BY <2>1, <2>2 DEF Loose, Rest
  <2> QED
    BY <1>1, <2>3
<1>6. DotdotsOK(es2, dirs, u)
  <2>1. \A k \in DOMAIN t : t[k].do = "dotdot" => t[k].ino \in dirs
    BY <1>1 DEF DotdotsOK
  <2> QED
    BY <1>1, <1>2, <1>4, <2>1, DotdotsRest
<1>7. Agrees(es2, dirs, par2, u)
  <2>1. /\ Pending(u, "link") <=> Pending(t, "link")
        /\ \A i : DotdotPending(u, i) <=> DotdotPending(t, i)
    BY LaterChanges
  <2>2. \A k \in DOMAIN u : k + 1 \in DOMAIN t /\ u[k] = t[k + 1]
    BY DEF Rest
  <2>3. par2[Root] = Root
    BY <1>1, <1>2 DEF Agrees
  <2>4. \A e \in es2 : e.ino \in dirs =>
           par2[e.ino] = e.dir \/ (DotdotPending(u, e.ino) /\ ~Pending(u, "link"))
    BY <1>1, <1>4, <2>1 DEF Agrees
  <2>5. \A k \in DOMAIN u : u[k].do = "link" /\ u[k].ino \in dirs =>
           par2[u[k].ino] = u[k].dir \/ DotdotPending(u, u[k].ino)
    BY <1>1, <2>1, <2>2 DEF Agrees
  <2> QED
    BY <1>2, <2>3, <2>4, <2>5 DEF Agrees
<1> QED
  BY <1>3, <1>5, <1>6, <1>7 DEF Placed

\* An inode is freed.
LEMMA PlacedAfterFree ==
    ASSUME NEW es, NEW live, NEW dirs, NEW orph, NEW par, NEW par2, NEW t, NEW u,
           InTree(es, live, dirs, orph, t), Rest(u, t), Unlinks(t[1]), Placed(es, dirs, orph, par, t),
           \A d \in dirs \ {t[1].ino} : par2[d] = par[d]
    PROVE  Placed(es, dirs \ {t[1].ino}, orph, par2, u)
<1> DEFINE i     == t[1].ino
           dirs2 == dirs \ {i}
<1>1. /\ Acyclic(es) /\ LinksBelow(es, orph, t) /\ Agrees(es, dirs, par, t) /\ DotdotsOK(es, dirs, t)
      /\ \A e \in es : e.dir \notin orph
  BY DEF Placed
<1>2. /\ t[1].do \notin {"link", "remove", "dotdot", "dir"} /\ 1 \in DOMAIN t
      /\ \A k \in DOMAIN u : u[k].do # "dir"
      /\ Leaving(es, t) = {} /\ Leaving(es, u) = {} /\ Loose(u) = {}
  BY LooseAndLeaving DEF Unlinks, Makes, Rest
<1>3. /\ i # Root /\ Root \in dirs
      /\ \A k \in DOMAIN t : t[k].do = "link" => t[k].ino # i
  BY <1>2 DEF InTree, PlanOK, UnlinksOK, LinksOK
<1>4. LinksBelow(es, orph, u)
  BY <1>1, FewerEntries
<1>5. /\ Pending(u, "link") <=> Pending(t, "link")
      /\ \A d : DotdotPending(u, d) <=> DotdotPending(t, d)
  BY <1>2, LaterChanges
<1>6. DotdotsOK(es, dirs2, u)
  <2>1. \A k \in DOMAIN t : t[k].do = "dotdot" => t[k].ino \in dirs2
    <3> SUFFICES ASSUME NEW k \in DOMAIN t, t[k].do = "dotdot" PROVE t[k].ino \in dirs2
      OBVIOUS
    <3>1. Pending(t, "link")
      <4>1. Pending(t, "dotdot")
        BY DEF Pending
      <4> QED
        BY <1>1, <1>2, <4>1, FirstDotdot
    <3>2. PICK j \in DOMAIN t : t[j].do = "link"
      BY <3>1 DEF Pending
    <3>3. t[k].ino \in dirs /\ t[j].ino = t[k].ino
      BY <1>1, <3>2 DEF DotdotsOK
    <3> QED
      BY <1>3, <3>2, <3>3
  <2> QED
    BY <1>1, <1>2, <2>1, DotdotsRest
<1>7. \A k \in DOMAIN u : k + 1 \in DOMAIN t /\ u[k] = t[k + 1]
  BY DEF Rest
<1>8. Agrees(es, dirs2, par2, u)
  <2>1. par2[Root] = Root
    BY <1>1, <1>3 DEF Agrees
  <2>2. \A e \in es : e.ino \in dirs2 =>
           par2[e.ino] = e.dir \/ (DotdotPending(u, e.ino) /\ ~Pending(u, "link"))
    BY <1>1, <1>2, <1>5 DEF Agrees
  <2>3. \A k \in DOMAIN u : u[k].do = "link" /\ u[k].ino \in dirs2 =>
           par2[u[k].ino] = u[k].dir \/ DotdotPending(u, u[k].ino)
    BY <1>1, <1>5, <1>7 DEF Agrees
  <2> QED
    BY <1>2, <2>1, <2>2, <2>3 DEF Agrees
<1> QED
  BY <1>1, <1>2, <1>4, <1>6, <1>8 DEF Placed

\* The rest of a plan is given up, where a name was to be added, an inode to be made, a file
\* to be freed or a carrier to be saved.
LEMMA PlacedAfterGivingUp ==
    ASSUME NEW es, NEW live, NEW dirs, NEW orph, NEW orph2, NEW par, NEW t,
           InTree(es, live, dirs, orph, t), t # <<>>, 1 \in DOMAIN t,
           t[1].do \in {"link", "dir", "drop", "flush"},
           Placed(es, dirs, orph, par, t), orph2 \subseteq orph \cup Loose(t)
    PROVE  Placed(es, dirs, orph2, par, <<>>)
<1>1. /\ Acyclic(es) /\ LinksBelow(es, orph, t) /\ Agrees(es, dirs, par, t) /\ DotdotsOK(es, dirs, t)
      /\ \A e \in es : e.dir \notin orph \cup Loose(t)
  BY DEF Placed
<1>2. Leaving(es, t) = {} /\ Leaving(es, <<>>) = {} /\ Loose(<<>>) = {}
  BY DEF Leaving, Loose
<1>3. DOMAIN <<>> = {}
  OBVIOUS
<1>4. Pending(t, "link") \/ ~Pending(t, "dotdot")
  <2>1. CASE t[1].do = "link"
    BY <2>1 DEF Pending
  <2>2. CASE t[1].do = "dir"
    <3>1. Follows(t, 1, "link")
      BY <2>2 DEF InTree, PlanOK, MakesOK, Makes
    <3> QED
      BY <3>1 DEF Pending, Follows
  <2>3. CASE t[1].do \in {"drop", "flush"}
    BY <1>1, <2>3 DEF DotdotsOK, Pending
  <2> QED
    BY <2>1, <2>2, <2>3
<1>5. \A e \in es : e.ino \in dirs => par[e.ino] = e.dir
  BY <1>1, <1>2, <1>4 DEF Agrees, Pending, DotdotPending
<1>6. par[Root] = Root
  BY <1>1 DEF Agrees
<1>7. LinksBelow(es, orph2, <<>>) /\ Agrees(es, dirs, par, <<>>) /\ DotdotsOK(es, dirs, <<>>)
  BY <1>2, <1>3, <1>5, <1>6 DEF LinksBelow, Agrees, DotdotsOK
<1> QED
  BY <1>1, <1>2, <1>7 DEF Placed

\* The rest of a plan is given up when no ".." is to be set.
LEMMA PlacedToRest ==
    ASSUME NEW es, NEW dirs, NEW orph, NEW par, NEW t, Placed(es, dirs, orph, par, t),
           Leaving(es, t) = {}, ~Pending(t, "dotdot")
    PROVE  Placed(es, dirs, orph, par, <<>>)
<1>1. /\ Acyclic(es) /\ Agrees(es, dirs, par, t) /\ \A e \in es : e.dir \notin orph
      /\ Leaving(es, <<>>) = {} /\ Loose(<<>>) = {} /\ DOMAIN <<>> = {}
  BY DEF Placed, Leaving, Loose
<1>2. \A e \in es : e.ino \in dirs => par[e.ino] = e.dir
  BY <1>1 DEF Agrees, Pending, DotdotPending
<1>3. par[Root] = Root
  BY <1>1 DEF Agrees
<1>4. LinksBelow(es, orph, <<>>) /\ Agrees(es, dirs, par, <<>>) /\ DotdotsOK(es, dirs, <<>>)
  BY <1>1, <1>2, <1>3 DEF LinksBelow, Agrees, DotdotsOK
<1> QED
  BY <1>1, <1>4 DEF Placed

\* What is owed after the first change.
LEMMA OwedLater ==
    ASSUME NEW t, NEW u, Rest(u, t), NEW op \in {"more", "less"}, NEW d
    PROVE  /\ t[1].do \notin {"link", "flush"} =>
                 /\ Owed(u, op, d) => Owed(t, op, d)
                 /\ Owed(t, op, d) /\ ~(t[1].do = op /\ t[1].ino = d) => Owed(u, op, d)
           /\ t[1].do \in {"link", "flush"} => ~Owed(t, op, d)
           /\ t[1].do = op /\ t[1].ino = d => Owed(t, op, d)
<1>1. /\ 1 \in DOMAIN t /\ \A k \in DOMAIN t : k \in Nat \ {0}
      /\ \A k \in DOMAIN u : k + 1 \in DOMAIN t /\ u[k] = t[k + 1] /\ k \in Nat \ {0}
      /\ \A k \in DOMAIN t : k # 1 => k - 1 \in DOMAIN u
  BY DEF Rest
<1>2. \A k \in DOMAIN t : k # 1 => k - 1 \in DOMAIN u /\ u[k - 1] = t[k]
  <2> SUFFICES ASSUME NEW k \in DOMAIN t, k # 1 PROVE u[k - 1] = t[k]
    BY <1>1
  <2>1. (k - 1) + 1 = k /\ k - 1 \in DOMAIN u
    BY <1>1
  <2> QED
    BY <1>1, <2>1
<1>3. ASSUME t[1].do \notin {"link", "flush"}, Owed(u, op, d)
      PROVE  Owed(t, op, d)
  <2>1. PICK k \in DOMAIN u : /\ u[k].do = op /\ u[k].ino = d
                              /\ \A j \in DOMAIN u : j < k => u[j].do \notin {"link", "flush"}
    BY <1>3 DEF Owed
  <2>2. \A j \in DOMAIN t : j < k + 1 => t[j].do \notin {"link", "flush"}
    <3> SUFFICES ASSUME NEW j \in DOMAIN t, j < k + 1, j # 1 PROVE t[j].do \notin {"link", "flush"}
      BY <1>3
    <3>1. j - 1 < k /\ j - 1 \in DOMAIN u /\ u[j - 1] = t[j]
      BY <1>1, <1>2
    <3> QED
      BY <2>1, <3>1
  <2> QED
    BY <1>1, <2>1, <2>2 DEF Owed
<1>4. ASSUME t[1].do \notin {"link", "flush"}, Owed(t, op, d), ~(t[1].do = op /\ t[1].ino = d)
      PROVE  Owed(u, op, d)
  <2>1. PICK k \in DOMAIN t : /\ t[k].do = op /\ t[k].ino = d
                              /\ \A j \in DOMAIN t : j < k => t[j].do \notin {"link", "flush"}
    BY <1>4 DEF Owed
  <2>2. k # 1 /\ k - 1 \in DOMAIN u /\ u[k - 1] = t[k]
    BY <1>2, <1>4, <2>1
  <2>3. \A j \in DOMAIN u : j < k - 1 => u[j].do \notin {"link", "flush"}
    <3> SUFFICES ASSUME NEW j \in DOMAIN u, j < k - 1 PROVE u[j].do \notin {"link", "flush"}
      OBVIOUS
    <3>1. j + 1 < k /\ j + 1 \in DOMAIN t /\ u[j] = t[j + 1]
      BY <1>1
    <3> QED
      BY <2>1, <3>1
  <2> QED
    BY <2>1, <2>2, <2>3 DEF Owed
<1>5. t[1].do \in {"link", "flush"} => ~Owed(t, op, d)
  <2> SUFFICES ASSUME t[1].do \in {"link", "flush"}, NEW k \in DOMAIN t, t[k].do = op,
                      \A j \in DOMAIN t : j < k => t[j].do \notin {"link", "flush"}
               PROVE  FALSE
    BY DEF Owed
  <2>1. k # 1 /\ 1 < k
    BY <1>1
  <2> QED
    BY <1>1, <2>1
<1>6. t[1].do = op /\ t[1].ino = d => Owed(t, op, d)
  <2>1. \A j \in DOMAIN t : ~(j < 1)
    BY <1>1
  <2> QED
    BY <1>1, <2>1 DEF Owed
<1> QED
  BY <1>3, <1>4, <1>5, <1>6

\* The order of the changes after the first one.
LEMMA OrderRest ==
    ASSUME NEW t, NEW u, Rest(u, t), OrderOK(t)
    PROVE  /\ OrderOK(u)
           /\ \A op \in {"more", "less"} : \A d :
                 t[1].do = "flush" \/ (t[1].do = op) => ~Owed(u, op, d)
<1>1. /\ 1 \in DOMAIN t /\ \A k \in DOMAIN t : k \in Nat \ {0}
      /\ \A k \in DOMAIN u : k + 1 \in DOMAIN t /\ u[k] = t[k + 1] /\ k \in Nat \ {0}
  BY DEF Rest
<1>2. \A k \in DOMAIN t : k # 1 => k - 1 \in DOMAIN u /\ u[k - 1] = t[k]
  <2> SUFFICES ASSUME NEW k \in DOMAIN t, k # 1 PROVE k - 1 \in DOMAIN u /\ u[k - 1] = t[k]
    OBVIOUS
  <2>1. (k - 1) + 1 = k /\ k - 1 \in DOMAIN u
    BY <1>1 DEF Rest
  <2> QED
    BY <1>1, <2>1
<1>3. ASSUME NEW k \in DOMAIN u, NEW m \in DOMAIN u, k < m,
             u[k].do = u[m].do, u[k].do \in {"more", "less"}
      PROVE  \E j \in DOMAIN u : k < j /\ j < m /\ u[j].do \in {"link", "flush"}
  <2>1. k + 1 \in DOMAIN t /\ m + 1 \in DOMAIN t /\ k + 1 < m + 1 /\ u[k] = t[k + 1] /\ u[m] = t[m + 1]
    BY <1>1, <1>3
  <2>2. PICK j \in DOMAIN t : k + 1 < j /\ j < m + 1 /\ t[j].do \in {"link", "flush"}
    BY <1>3, <2>1 DEF OrderOK
  <2>3. j # 1 /\ k < j - 1 /\ j - 1 < m
    BY <1>1, <2>2
  <2> QED
    BY <1>2, <2>2, <2>3
<1>4. ASSUME NEW k \in DOMAIN u, NEW m \in DOMAIN u, k < m, u[k].do = "flush", u[m].do \in {"more", "less"}
      PROVE  \E j \in DOMAIN u : k < j /\ j < m /\ u[j].do = "link"
  <2>1. k + 1 \in DOMAIN t /\ m + 1 \in DOMAIN t /\ k + 1 < m + 1 /\ u[k] = t[k + 1] /\ u[m] = t[m + 1]
    BY <1>1, <1>4
  <2>2. PICK j \in DOMAIN t : k + 1 < j /\ j < m + 1 /\ t[j].do = "link"
    BY <1>4, <2>1 DEF OrderOK
  <2>3. j # 1 /\ k < j - 1 /\ j - 1 < m
    BY <1>1, <2>2
  <2> QED
    BY <1>2, <2>2, <2>3
<1>6. ASSUME NEW k \in DOMAIN u, u[k].do = "drop", k + 1 \in DOMAIN u
      PROVE  u[k + 1].do \in {"link", "flush"}
  <2>1. /\ k + 1 \in DOMAIN t /\ u[k] = t[k + 1]
        /\ (k + 1) + 1 \in DOMAIN t /\ u[k + 1] = t[(k + 1) + 1]
    BY <1>1, <1>6
  <2> QED
    BY <1>6, <2>1 DEF OrderOK
<1>5. ASSUME NEW op \in {"more", "less"}, NEW d, t[1].do = "flush" \/ t[1].do = op
      PROVE  ~Owed(u, op, d)
  <2> SUFFICES ASSUME NEW k \in DOMAIN u, u[k].do = op,
                      \A j \in DOMAIN u : j < k => u[j].do \notin {"link", "flush"}
               PROVE  FALSE
    BY DEF Owed
  <2>1. k + 1 \in DOMAIN t /\ t[k + 1].do = op /\ 1 < k + 1 /\ k \in Nat
    BY <1>1
  <2>2. PICK j \in DOMAIN t : 1 < j /\ j < k + 1 /\ t[j].do \in {"link", "flush"}
    <3>1. CASE t[1].do = "flush"
      BY <1>1, <2>1, <3>1 DEF OrderOK
    <3>2. CASE t[1].do = op
      BY <1>1, <2>1, <3>2 DEF OrderOK
    <3> QED
      BY <1>5, <3>1, <3>2
  <2>3. j # 1 /\ j - 1 < k
    BY <1>1, <2>1, <2>2
  <2> QED
    BY <1>2, <2>2, <2>3
<1> QED
  BY <1>3, <1>4, <1>5, <1>6 DEF OrderOK

\* What follows a link that is not the first change.
LEMMA LinkCountsRest ==
    ASSUME NEW t, NEW u, NEW dirs, NEW dirs2, Rest(u, t), t[1].do # "link", LinkCountsOK(dirs, t),
           \A k \in DOMAIN u : u[k].do = "link" =>
               (u[k].ino \in dirs2 \/ u[1].do = "dir" <=> u[k].ino \in dirs \/ t[1].do = "dir")
    PROVE  LinkCountsOK(dirs2, u)
<1> SUFFICES ASSUME NEW k \in DOMAIN u, u[k].do = "link", NEW d \in Inos
             PROVE  /\ After(u, k, "more", d) <=> d = u[k].dir /\ Moved(dirs2, u, k)
                    /\ After(u, k, "less", d) <=> Follows(u, k, "remove") /\ d = u[k + 1].dir /\ Moved(dirs2, u, k)
  BY DEF LinkCountsOK
<1>1. /\ \A m \in DOMAIN u : m + 1 \in DOMAIN t /\ u[m] = t[m + 1] /\ m \in Nat \ {0}
      /\ \A m \in DOMAIN t : m \in Nat \ {0} /\ (m # 1 => m - 1 \in DOMAIN u /\ u[m - 1] = t[m])
  <2>1. \A m \in DOMAIN u : m + 1 \in DOMAIN t /\ u[m] = t[m + 1] /\ m \in Nat \ {0}
    BY DEF Rest
  <2>2. ASSUME NEW m \in DOMAIN t, m # 1
        PROVE  m - 1 \in DOMAIN u /\ u[m - 1] = t[m]
    <3>1. m - 1 \in DOMAIN u /\ (m - 1) + 1 = m
      BY <2>2 DEF Rest
    <3> QED
      BY <2>1, <3>1
  <2> QED
    BY <2>1, <2>2 DEF Rest
<1>2. k + 1 \in DOMAIN t /\ u[k] = t[k + 1] /\ t[k + 1].do = "link" /\ k \in Nat \ {0}
  BY <1>1
<1>3. \A op : After(u, k, op, d) <=> After(t, k + 1, op, d)
  <2>1. ASSUME NEW op, After(u, k, op, d)
        PROVE  After(t, k + 1, op, d)
    BY <1>1, <1>2, <2>1 DEF After
  <2>2. ASSUME NEW op, After(t, k + 1, op, d)
        PROVE  After(u, k, op, d)
    <3>1. PICK m \in DOMAIN t : m > k + 1 /\ t[m].do = op /\ t[m].ino = d
      BY <2>2 DEF After
    <3>2. m # 1 /\ m - 1 > k
      BY <1>1, <1>2, <3>1
    <3> QED
      BY <1>1, <3>1, <3>2 DEF After
  <2> QED
    BY <2>1, <2>2
<1>4. Follows(u, k, "remove") <=> Follows(t, k + 1, "remove")
  BY LaterChanges
<1>5. Follows(u, k, "remove") => u[k + 1] = t[(k + 1) + 1]
  BY <1>1 DEF Follows
<1>6. Moved(dirs2, u, k) <=> Moved(dirs, t, k + 1)
  BY <1>2, <1>4, <1>5 DEF Moved
<1>7. /\ After(t, k + 1, "more", d) <=> d = t[k + 1].dir /\ Moved(dirs, t, k + 1)
      /\ After(t, k + 1, "less", d) <=>
            Follows(t, k + 1, "remove") /\ d = t[(k + 1) + 1].dir /\ Moved(dirs, t, k + 1)
  BY <1>2 DEF LinkCountsOK
<1> QED
  BY <1>2, <1>3, <1>4, <1>5, <1>6, <1>7

\* There are finitely many directories in a directory; one more, or one less.
LEMMA KidsCounted ==
    ASSUME NEW dirs \in SUBSET Inos, NEW es, NEW d
    PROVE  /\ Cardinality(Kids(es, dirs, d)) \in Nat
           /\ \A c : c \notin Kids(es, dirs, d) =>
                 Cardinality(Kids(es, dirs, d) \cup {c}) = Cardinality(Kids(es, dirs, d)) + 1
           /\ \A c : c \in Kids(es, dirs, d) =>
                 Cardinality(Kids(es, dirs, d) \ {c}) = Cardinality(Kids(es, dirs, d)) - 1
<1>1. IsFiniteSet(Inos)
  BY FS_Interval, NamespaceAssumption DEF Inos
<1>2. Kids(es, dirs, d) \subseteq Inos
  BY DEF Kids
<1>3. IsFiniteSet(Kids(es, dirs, d))
  BY <1>1, <1>2, FS_Subset
<1>4. Cardinality(Kids(es, dirs, d)) \in Nat
  BY <1>3, FS_CardinalityType
<1>5. \A c : c \notin Kids(es, dirs, d) =>
         Cardinality(Kids(es, dirs, d) \cup {c}) = Cardinality(Kids(es, dirs, d)) + 1
  BY <1>3, FS_AddElement
<1>6. \A c : c \in Kids(es, dirs, d) =>
         Cardinality(Kids(es, dirs, d) \ {c}) = Cardinality(Kids(es, dirs, d)) - 1
  BY <1>3, FS_RemoveElement
<1> QED
  BY <1>4, <1>5, <1>6

\* The count that a change leaves.
CountAfter(op, n) == IF op = "more" THEN n + 1 ELSE IF op = "less" /\ n # 0 THEN n - 1 ELSE n

\* A link count, ".." or a carrier.
LEMMA CountedAfterQuiet ==
    ASSUME NEW es, NEW live, NEW dirs \in SUBSET Inos, NEW orph, NEW nl \in [Inos -> Nat], NEW nl2, NEW t, NEW u,
           InTree(es, live, dirs, orph, t), Rest(u, t), Quiet(t[1]), Counted(es, dirs, nl, t),
           \A d \in dirs : nl2[d] = IF t[1].do \in {"more", "less"} /\ d = t[1].ino
                                    THEN CountAfter(t[1].do, nl[d]) ELSE nl[d]
    PROVE  Counted(es, dirs, nl2, u)
<1>1. CountsOK(es, dirs, nl, t) /\ OrderOK(t) /\ LinkCountsOK(dirs, t)
  BY DEF Counted
<1>2. t[1].do \in {"more", "less", "dotdot", "flush"} /\ Gone(es, t) = {} /\ Gone(es, u) = {}
  <2>1. t[1].do \in {"more", "less", "dotdot", "flush"}
    BY DEF Quiet
  <2> QED
    BY <2>1, LooseAndLeaving DEF Gone
<1>3. OrderOK(u)
  BY <1>1, OrderRest
<1>4. LinkCountsOK(dirs, u)
  <2>1. (\A k \in DOMAIN u : ~Makes(u[k])) /\ 1 \in DOMAIN t
    BY LooseAndLeaving DEF Rest
  <2>2. \A k \in DOMAIN u : u[k].do = "link" =>
            (u[k].ino \in dirs \/ u[1].do = "dir" <=> u[k].ino \in dirs \/ t[1].do = "dir")
    <3>1. \A k \in DOMAIN u : 1 \in DOMAIN u
      BY DEF Rest
    <3> QED
      BY <1>2, <2>1, <3>1 DEF Makes
  <2> QED
    BY <1>1, <1>2, <2>2, LinkCountsRest
<1>5. ASSUME NEW d \in dirs
      PROVE  nl2[d] + Owes(u, "more", d) = 2 + Cardinality(Kids(es \ Gone(es, u), dirs, d)) + Owes(u, "less", d)
  <2> DEFINE c == Cardinality(Kids(es, dirs, d))
  <2>1. nl[d] \in Nat /\ c \in Nat /\ es \ Gone(es, u) = es /\ es \ Gone(es, t) = es
    BY <1>2, KidsCounted
  <2>2. nl[d] + Owes(t, "more", d) = 2 + c + Owes(t, "less", d)
    BY <1>1, <2>1 DEF CountsOK
  <2> HIDE DEF c
  <2> SUFFICES nl2[d] + Owes(u, "more", d) = 2 + c + Owes(u, "less", d)
    BY <2>1 DEF c
  <2>3. CASE t[1].do = "flush"
    <3>1. ~Owed(t, "more", d) /\ ~Owed(t, "less", d)
      BY <2>3, OwedLater
    <3>2. ~Owed(u, "more", d) /\ ~Owed(u, "less", d)
      BY <1>1, <2>3, OrderRest
    <3> QED
      BY <2>1, <2>2, <2>3, <3>1, <3>2 DEF Owes
  <2>4. CASE t[1].do # "flush" /\ ~(t[1].do \in {"more", "less"} /\ t[1].ino = d)
    <3>1. (Owed(u, "more", d) <=> Owed(t, "more", d)) /\ (Owed(u, "less", d) <=> Owed(t, "less", d))
      BY <1>2, <2>4, OwedLater
    <3>2. nl2[d] = nl[d]
      BY <2>4
    <3> QED
      BY <2>1, <2>2, <3>1, <3>2 DEF Owes
  <2>5. CASE t[1].do = "more" /\ t[1].ino = d
    <3>1. Owed(t, "more", d) /\ (Owed(u, "less", d) <=> Owed(t, "less", d))
      BY <1>2, <2>5, OwedLater
    <3>2. ~Owed(u, "more", d)
      BY <1>1, <2>5, OrderRest
    <3>3. nl2[d] = nl[d] + 1
      BY <2>5 DEF CountAfter
    <3> QED
      BY <2>1, <2>2, <3>1, <3>2, <3>3 DEF Owes
  <2>6. CASE t[1].do = "less" /\ t[1].ino = d
    <3>1. Owed(t, "less", d) /\ (Owed(u, "more", d) <=> Owed(t, "more", d))
      BY <1>2, <2>6, OwedLater
    <3>2. ~Owed(u, "less", d)
      BY <1>1, <2>6, OrderRest
    <3>3. nl2[d] = IF nl[d] # 0 THEN nl[d] - 1 ELSE nl[d]
      BY <2>6 DEF CountAfter
    <3>4. Owes(t, "less", d) = 1 /\ Owes(u, "less", d) = 0
          /\ Owes(u, "more", d) = Owes(t, "more", d) /\ Owes(t, "more", d) \in {0, 1}
      BY <3>1, <3>2 DEF Owes
    <3> QED
      BY <2>1, <2>2, <3>3, <3>4
  <2> QED
    BY <1>2, <2>3, <2>4, <2>5, <2>6
<1> QED
  BY <1>3, <1>4, <1>5 DEF Counted, CountsOK

\* An inode is made.
LEMMA CountedAfterMaking ==
    ASSUME NEW es, NEW live, NEW dirs \in SUBSET Inos, NEW orph, NEW nl \in [Inos -> Nat], NEW nl2, NEW t, NEW u,
           NEW dirs2,
           InTree(es, live, dirs, orph, t), Rest(u, t), Makes(t[1]), Counted(es, dirs, nl, t),
           dirs2 = IF t[1].do = "dir" THEN dirs \cup {t[1].ino} ELSE dirs,
           \A d \in dirs : nl2[d] = nl[d],
           t[1].do = "dir" => nl2[t[1].ino] = 2
    PROVE  Counted(es, dirs2, nl2, u)
<1> DEFINE i == t[1].ino
<1>1. CountsOK(es, dirs, nl, t) /\ OrderOK(t) /\ LinkCountsOK(dirs, t)
  BY DEF Counted
<1>2. /\ i \notin live /\ 2 \in DOMAIN t /\ t[2].do = "link" /\ t[2].ino = i /\ ~Follows(t, 2, "remove")
      /\ 1 \in DOMAIN u /\ u[1] = t[2]
  BY DEF InTree, PlanOK, MakesOK, Follows, Rest
<1>3. /\ Root \in dirs /\ dirs \subseteq live /\ Gone(es, t) = {} /\ Gone(es, u) = {}
      /\ \A e \in es : e.dir \in dirs /\ e.ino \in live
      /\ t[1].do \in {"file", "dir"}
  <2>1. t[1].do \in {"file", "dir"} /\ Root \in dirs /\ dirs \subseteq live
        /\ \A e \in es : e.dir \in dirs /\ e.ino \in live
    BY DEF Makes, InTree
  <2> QED
    BY <2>1, LooseAndLeaving DEF Gone
<1>4. \A op \in {"more", "less"} : \A d : ~Owed(u, op, d) /\ ~Owed(t, op, d)
  <2>1. \A op \in {"more", "less"} : \A d : ~Owed(u, op, d)
    <3>1. \A k \in DOMAIN u : k \in Nat \ {0} /\ (k # 1 => 1 < k)
      BY DEF Rest
    <3> QED
      BY <1>2, <3>1 DEF Owed
  <2> QED
    BY <1>3, <2>1, OwedLater
<1>5. OrderOK(u)
  BY <1>1, OrderRest
<1>6. LinkCountsOK(dirs2, u)
  <2>1. \A k \in DOMAIN u : u[k].do = "link" => k = 1
    BY <1>2, PlanRest DEF InTree
  <2>2. u[1].ino \in dirs2 \/ u[1].do = "dir" <=> u[1].ino \in dirs \/ t[1].do = "dir"
    BY <1>2, <1>3
  <2> QED
    BY <1>1, <1>3, <2>1, <2>2, LinkCountsRest
<1>7. ASSUME NEW d \in dirs2
      PROVE  nl2[d] = 2 + Cardinality(Kids(es, dirs2, d))
  <2>1. Kids(es, dirs2, d) = Kids(es, dirs, d)
    BY <1>2, <1>3 DEF Kids
  <2>2. CASE d \in dirs
    <3>1. nl[d] + 0 = 2 + Cardinality(Kids(es \ Gone(es, t), dirs, d)) + 0
      BY <1>1, <1>4, <2>2 DEF CountsOK, Owes
    <3>2. es \ Gone(es, t) = es /\ nl2[d] = nl[d]
      BY <1>3, <2>2
    <3>4. nl[d] \in Nat /\ Cardinality(Kids(es, dirs, d)) \in Nat
      BY <2>2, KidsCounted
    <3>3. nl[d] + 0 = 2 + Cardinality(Kids(es, dirs, d)) + 0
      BY <3>1, <3>2
    <3> QED
      BY <2>1, <3>2, <3>3, <3>4
  <2>3. CASE d \notin dirs
    <3>1. d = i /\ t[1].do = "dir" /\ d \notin dirs
      BY <2>3
    <3>2. Kids(es, dirs, d) = {}
      BY <1>3, <3>1 DEF Kids
    <3>3. Cardinality(Kids(es, dirs2, d)) = 0
      BY <2>1, <3>2, FS_EmptySet
    <3> QED
      BY <3>1, <3>3
  <2> QED
    BY <2>2, <2>3
<1>8. CountsOK(es, dirs2, nl2, u)
  <2>1. es \ Gone(es, u) = es
    BY <1>3
  <2>2. \A d : Owes(u, "more", d) = 0 /\ Owes(u, "less", d) = 0
    BY <1>4 DEF Owes
  <2>3. \A d \in dirs2 : nl2[d] + 0 = 2 + Cardinality(Kids(es, dirs2, d)) + 0
    <3> SUFFICES ASSUME NEW d \in dirs2 PROVE nl2[d] + 0 = 2 + Cardinality(Kids(es, dirs2, d)) + 0
      OBVIOUS
    <3>1. Kids(es, dirs2, d) = Kids(es, dirs, d)
      BY <1>2, <1>3 DEF Kids
    <3>2. Cardinality(Kids(es, dirs2, d)) \in Nat
      BY <3>1, KidsCounted
    <3> QED
      BY <1>7, <3>2
  <2> QED
    BY <2>1, <2>2, <2>3 DEF CountsOK
<1> QED
  BY <1>5, <1>6, <1>8 DEF Counted

\* A name is removed.
LEMMA CountedAfterRemove ==
    ASSUME NEW es, NEW live, NEW dirs, NEW orph, NEW nl, NEW nl2, NEW t, NEW u, NEW e1 \in es,
           InTree(es, live, dirs, orph, t), Rest(u, t), t[1].do = "remove", Of(e1, t[1]),
           Counted(es, dirs, nl, t),
           \A d \in dirs : nl2[d] = nl[d]
    PROVE  Counted(es \ {e1}, dirs, nl2, u)
<1> DEFINE es2 == es \ {e1}
<1>1. CountsOK(es, dirs, nl, t) /\ OrderOK(t) /\ LinkCountsOK(dirs, t)
  BY DEF Counted
<1>2. OrderOK(u)
  BY <1>1, OrderRest
<1>3. (\A k \in DOMAIN u : ~Makes(u[k])) /\ Gone(es2, u) = {}
  BY LooseAndLeaving
<1>4. LinkCountsOK(dirs, u)
  <2>1. \A k \in DOMAIN u : u[1].do # "dir"
    BY <1>3 DEF Rest, Makes
  <2> QED
    BY <1>1, <2>1, LinkCountsRest
<1>5. es \ Gone(es, t) = es2 /\ es2 \ Gone(es2, u) = es2
  <2>1. \A e, f \in es : Of(e, f) => e = f
    BY DEF InTree
  <2>2. \A e \in es : Of(e, t[1]) => e = e1
    BY <2>1 DEF Of
  <2>3. Gone(es, t) = {e1}
    BY <2>2 DEF Gone, Rest
  <2> QED
    BY <1>3, <2>3
<1>6. \A d : Owes(u, "more", d) = Owes(t, "more", d) /\ Owes(u, "less", d) = Owes(t, "less", d)
  BY OwedLater DEF Owes
<1>7. CountsOK(es2, dirs, nl2, u)
  BY <1>1, <1>5, <1>6 DEF CountsOK
<1> QED
  BY <1>2, <1>4, <1>7 DEF Counted

\* An inode is freed.
LEMMA CountedAfterFree ==
    ASSUME NEW es, NEW live, NEW dirs, NEW orph, NEW nl, NEW nl2, NEW t, NEW u,
           InTree(es, live, dirs, orph, t), Rest(u, t), Unlinks(t[1]), Counted(es, dirs, nl, t),
           \A d \in dirs \ {t[1].ino} : nl2[d] = nl[d]
    PROVE  Counted(es, dirs \ {t[1].ino}, nl2, u)
<1> DEFINE i     == t[1].ino
           dirs2 == dirs \ {i}
<1>1. CountsOK(es, dirs, nl, t) /\ OrderOK(t) /\ LinkCountsOK(dirs, t)
  BY DEF Counted
<1>2. OrderOK(u)
  BY <1>1, OrderRest
<1>3. /\ t[1].do \in {"drop", "free"} /\ 1 \in DOMAIN t /\ Loose(t) = {i} /\ Leaving(es, t) = {}
      /\ Gone(es, t) = {} /\ Gone(es, u) = {} /\ \A k \in DOMAIN u : ~Makes(u[k])
  <2>1. t[1].do \in {"drop", "free"} /\ 1 \in DOMAIN t /\ t # <<>>
    BY DEF Rest, Unlinks
  <2>2. Loose(t) = {i} /\ Leaving(es, t) = {} /\ Gone(es, t) = {}
    BY <2>1 DEF Loose, Leaving, Gone, Unlinks
  <2> QED
    BY <2>1, <2>2, LooseAndLeaving
<1>4. \A e \in es : e.ino # i
  BY <1>3 DEF InTree, Tree
<1>5. \A k \in DOMAIN t : t[k].do = "link" => t[k].ino # i
  BY <1>3 DEF InTree, PlanOK, LinksOK
<1>6. LinkCountsOK(dirs2, u)
  <2>1. \A k \in DOMAIN u : u[1].do # "dir"
    BY <1>3 DEF Rest, Makes
  <2>2. \A k \in DOMAIN u : u[k].do = "link" => u[k].ino # i
    BY <1>5 DEF Rest
  <2> QED
    BY <1>1, <1>3, <2>1, <2>2, LinkCountsRest
<1>7. \A d : Kids(es, dirs2, d) = Kids(es, dirs, d)
  BY <1>4 DEF Kids
<1>8. \A d : Owes(u, "more", d) = Owes(t, "more", d) /\ Owes(u, "less", d) = Owes(t, "less", d)
  BY <1>3, OwedLater DEF Owes
<1>9. es \ Gone(es, t) = es /\ es \ Gone(es, u) = es
  BY <1>3
<1>10. CountsOK(es, dirs2, nl2, u)
  BY <1>1, <1>7, <1>8, <1>9 DEF CountsOK
<1> QED
  BY <1>2, <1>6, <1>10 DEF Counted

\* The rest of a plan is given up.
LEMMA CountedAfterGivingUp ==
    ASSUME NEW es, NEW live, NEW dirs, NEW orph, NEW nl, NEW t,
           InTree(es, live, dirs, orph, t), NEW u, Rest(u, t), t[1].do \in {"link", "dir", "drop", "flush"},
           Counted(es, dirs, nl, t)
    PROVE  Counted(es, dirs, nl, <<>>)
<1>1. \A op \in {"more", "less"} : \A d : ~Owed(t, op, d)
  <2>1. CASE t[1].do \in {"link", "flush"}
    BY <2>1, OwedLater
  <2>2. CASE t[1].do = "dir"
    <3>1. 1 \in DOMAIN u /\ u[1].do = "link"
      BY <2>2 DEF InTree, PlanOK, MakesOK, Makes, Follows, Rest
    <3>2. \A k \in DOMAIN u : k \in Nat \ {0} /\ (k # 1 => 1 < k)
      BY DEF Rest
    <3>3. \A op \in {"more", "less"} : \A d : ~Owed(u, op, d)
      BY <3>1, <3>2 DEF Owed
    <3> QED
      BY <2>2, <3>3, OwedLater
  <2>3. CASE t[1].do = "drop"
    <3>1. /\ 1 \in DOMAIN t /\ \A k \in DOMAIN u : k \in Nat \ {0} /\ (k # 1 => 1 < k)
          /\ \A k \in DOMAIN u : 1 \in DOMAIN u /\ 1 + 1 \in DOMAIN t /\ u[1] = t[1 + 1]
      BY DEF Rest
    <3>2. \A k \in DOMAIN u : u[1].do \in {"link", "flush"}
      BY <2>3, <3>1 DEF Counted, OrderOK
    <3>3. \A op \in {"more", "less"} : \A d : ~Owed(u, op, d)
      BY <3>1, <3>2 DEF Owed
    <3> QED
      BY <2>3, <3>3, OwedLater
  <2> QED
    BY <2>1, <2>2, <2>3
<1>2. Gone(es, t) = {} /\ Gone(es, <<>>) = {} /\ DOMAIN <<>> = {}
  BY DEF Gone
<1>3. \A op \in {"more", "less"} : \A d : Owes(t, op, d) = 0 /\ Owes(<<>>, op, d) = 0
  BY <1>1, <1>2 DEF Owes, Owed
<1>4. CountsOK(es, dirs, nl, <<>>)
  <2>1. \A d : es \ Gone(es, t) = es \ Gone(es, <<>>)
    BY <1>2
  <2> QED
    BY <1>3, <2>1 DEF Counted, CountsOK
<1>5. OrderOK(<<>>) /\ LinkCountsOK(dirs, <<>>)
  BY <1>2 DEF OrderOK, LinkCountsOK
<1> QED
  BY <1>4, <1>5 DEF Counted

\* The directories whose links the plan still changes, or more; and counts that are right there.
ToBeCounted(t, off) == \A k \in DOMAIN t : t[k].do \in {"more", "less"} => t[k].ino \in off
Recounted(es, dirs, off, nl, nl2) ==
    \A d \in dirs : nl2[d] = IF d \in off THEN 2 + Cardinality(Kids(es, dirs, d)) ELSE nl[d]

\* The rest of a rename is given up: the counts of all but the directories that it leaves
\* uncounted are right.
LEMMA CountedAfterFault ==
    ASSUME NEW es, NEW dirs \in SUBSET Inos, NEW nl \in [Inos -> Nat], NEW nl2, NEW t, NEW off,
           Quiet(t[1]), Counted(es, dirs, nl, t), ToBeCounted(t, off), Recounted(es, dirs, off, nl, nl2)
    PROVE  Counted(es, dirs, nl2, <<>>)
<1>1. Gone(es, t) = {} /\ Gone(es, <<>>) = {} /\ DOMAIN <<>> = {}
  BY DEF Gone, Quiet
<1>2. \A op \in {"more", "less"} : \A d : Owes(<<>>, op, d) = 0 /\ (d \notin off => Owes(t, op, d) = 0)
  BY <1>1 DEF Owes, Owed, ToBeCounted
<1>3. ASSUME NEW d \in dirs
      PROVE  nl2[d] + 0 = 2 + Cardinality(Kids(es, dirs, d)) + 0
  <2>1. Cardinality(Kids(es, dirs, d)) \in Nat /\ nl[d] \in Nat
    BY KidsCounted
  <2>2. es \ Gone(es, t) = es
    BY <1>1
  <2>3. d \notin off => nl[d] + 0 = 2 + Cardinality(Kids(es, dirs, d)) + 0
    BY <1>2, <2>2 DEF Counted, CountsOK
  <2>4. nl2[d] = IF d \in off THEN 2 + Cardinality(Kids(es, dirs, d)) ELSE nl[d]
    BY DEF Recounted
  <2> QED
    BY <2>1, <2>3, <2>4
<1>4. CountsOK(es, dirs, nl2, <<>>)
  <2>1. es \ Gone(es, <<>>) = es
    BY <1>1
  <2> QED
    BY <1>2, <1>3, <2>1 DEF CountsOK
<1>5. OrderOK(<<>>) /\ LinkCountsOK(dirs, <<>>)
  BY <1>1 DEF OrderOK, LinkCountsOK
<1> QED
  BY <1>4, <1>5 DEF Counted

\* What is owed once the name is there.
LEMMA OwedAfterLink ==
    ASSUME NEW t, NEW u, Rest(u, t), OrderOK(t), t[1].do = "link", \A k \in DOMAIN u : u[k].do # "link",
           NEW op \in {"more", "less"}, NEW d
    PROVE  Owed(u, op, d) <=> After(t, 1, op, d)
<1>1. /\ 1 \in DOMAIN t /\ \A k \in DOMAIN t : k \in Nat \ {0} /\ (k # 1 => k - 1 \in DOMAIN u)
      /\ \A k \in DOMAIN u : k + 1 \in DOMAIN t /\ u[k] = t[k + 1] /\ k \in Nat \ {0}
  BY DEF Rest
<1>2. Owed(u, op, d) => After(t, 1, op, d)
  <2> SUFFICES ASSUME NEW k \in DOMAIN u, u[k].do = op, u[k].ino = d PROVE After(t, 1, op, d)
    BY DEF Owed
  <2>1. k + 1 \in DOMAIN t /\ u[k] = t[k + 1] /\ k + 1 > 1
    BY <1>1
  <2> QED
    BY <2>1 DEF After
<1>3. After(t, 1, op, d) => Owed(u, op, d)
  <2> SUFFICES ASSUME NEW m \in DOMAIN t, m > 1, t[m].do = op, t[m].ino = d PROVE Owed(u, op, d)
    BY DEF After
  <2>1. m - 1 \in DOMAIN u /\ (m - 1) + 1 = m
    BY <1>1
  <2>2. u[m - 1] = t[m]
    BY <1>1, <2>1
  <2>3. ASSUME NEW j \in DOMAIN u, j < m - 1, u[j].do = "flush"
        PROVE  FALSE
    <3>1. m - 1 \in DOMAIN u /\ u[m - 1].do \in {"more", "less"}
      BY <2>1, <2>2
    <3>2. OrderOK(u)
      BY OrderRest
    <3>3. \E l \in DOMAIN u : u[l].do = "link"
      BY <2>3, <3>1, <3>2 DEF OrderOK
    <3> QED
      BY <3>3
  <2> QED
    BY <2>1, <2>2, <2>3 DEF Owed
<1> QED
  BY <1>2, <1>3

\* A name is added: the directories that are in one directory then.
LEMMA KidsAfterLink ==
    ASSUME NEW es, NEW live, NEW dirs, NEW orph, NEW t, NEW u, NEW e0, NEW d,
           InTree(es, live, dirs, orph, t), Rest(u, t), t[1].do = "link",
           Of(e0, t[1]), e0.ino = t[1].ino,
           NEW K, K = Kids(es, dirs, d), NEW K2, K2 = Kids((es \cup {e0}) \ Gone(es \cup {e0}, u), dirs, d)
    PROVE  /\ ~Moved(dirs, t, 1) => K2 = K
           /\ Moved(dirs, t, 1) /\ ~Follows(t, 1, "remove") =>
                 IF d = t[1].dir THEN t[1].ino \notin K /\ K2 = K \cup {t[1].ino} ELSE K2 = K
           /\ Moved(dirs, t, 1) /\ Follows(t, 1, "remove") =>
                 /\ t[2].dir # t[1].dir
                 /\ d = t[1].dir => t[1].ino \notin K /\ K2 = K \cup {t[1].ino}
                 /\ d = t[2].dir => t[1].ino \in K /\ K2 = K \ {t[1].ino}
                 /\ d \notin {t[1].dir, t[2].dir} => K2 = K
<1> DEFINE i    == t[1].ino
           es2  == es \cup {e0}
           stay == es2 \ Gone(es2, u)
<1>1. e0.dir = t[1].dir /\ e0.ino = i
  BY DEF Of
<1>2. Moved(dirs, t, 1) <=> i \in dirs /\ (Follows(t, 1, "remove") => t[2].dir # t[1].dir)
  BY DEF Moved
<1>3. CASE Follows(t, 1, "remove")
  <2>1. PICK e1 \in es : /\ Of(e1, u[1]) /\ e1.ino = i
                         /\ \A e \in es : Of(e, u[1]) \/ e.ino = i => e = e1
    BY <1>3, AfterTheLink
  <2>2. /\ u # <<>> /\ 1 \in DOMAIN u /\ u[1].do = "remove" /\ u[1] = t[2]
        /\ <<u[1].dir, u[1].name>> # <<t[1].dir, t[1].name>>
    BY <1>3, AfterTheLink
  <2>3. e1.dir = t[2].dir /\ i # Root
    BY <2>1, <2>2 DEF Of, InTree
  <2>4. ~Of(e0, u[1])
    BY <2>2 DEF Of
  <2>5. Gone(es2, u) = {e1}
    BY <2>1, <2>2, <2>4 DEF Gone
  <2>6. e0 # e1
    BY <2>1, <2>4
  <2>7. stay = (es \ {e1}) \cup {e0}
    BY <2>5, <2>6
  <2>8. \A c : c # i => (c \in K2 <=> c \in K)
    BY <1>1, <2>1, <2>7 DEF Kids
  <2>9. i \in K <=> i \in dirs /\ d = t[2].dir
    BY <2>1, <2>3 DEF Kids
  <2>10. i \in K2 <=> i \in dirs /\ d = t[1].dir
    BY <1>1, <2>1, <2>3, <2>7 DEF Kids
  <2> HIDE DEF i
  <2>11. ~Moved(dirs, t, 1) => K2 = K
    BY <1>2, <1>3, <2>8, <2>9, <2>10
  <2>12. Moved(dirs, t, 1) => /\ t[2].dir # t[1].dir
                              /\ d = t[1].dir => i \notin K /\ K2 = K \cup {i}
                              /\ d = t[2].dir => i \in K /\ K2 = K \ {i}
                              /\ d \notin {t[1].dir, t[2].dir} => K2 = K
    BY <1>2, <1>3, <2>8, <2>9, <2>10
  <2> QED
    BY <1>3, <2>11, <2>12 DEF i
<1>4. CASE ~Follows(t, 1, "remove")
  <2>1. /\ ~(1 \in DOMAIN u /\ u[1].do = "remove") /\ Loose(t) = {i}
        /\ \A e \in es : e.ino # i
    BY <1>4, AfterTheLink
  <2>2. stay = es2
    BY <2>1 DEF Gone, Rest
  <2>3. i # Root
    <3>1. t[1].do # "remove"
      OBVIOUS
    <3>2. Leaving(es, t) = {}
      BY <3>1 DEF Leaving
    <3> QED
      BY <2>1, <3>2 DEF InTree, Tree
  <2>4. \A c : c # i => (c \in K2 <=> c \in K)
    BY <1>1, <2>2 DEF Kids
  <2>5. i \notin K
    BY <2>1 DEF Kids
  <2>6. i \in K2 <=> i \in dirs /\ d = t[1].dir
    BY <1>1, <2>1, <2>2, <2>3 DEF Kids
  <2> HIDE DEF i
  <2>7. ~Moved(dirs, t, 1) => K2 = K
    BY <1>2, <1>4, <2>4, <2>5, <2>6
  <2>8. Moved(dirs, t, 1) => IF d = t[1].dir THEN i \notin K /\ K2 = K \cup {i} ELSE K2 = K
    BY <1>2, <1>4, <2>4, <2>5, <2>6
  <2> QED
    BY <1>4, <2>7, <2>8 DEF i
<1> QED
  BY <1>3, <1>4

\* A name is added.
LEMMA CountedAfterLink ==
    ASSUME NEW es, NEW live, NEW dirs \in SUBSET Inos, NEW orph, NEW nl \in [Inos -> Nat], NEW nl2, NEW t, NEW u, NEW e0,
           InTree(es, live, dirs, orph, t), Rest(u, t), t[1].do = "link", Counted(es, dirs, nl, t),
           Of(e0, t[1]), e0.ino = t[1].ino,
           \A d \in dirs : nl2[d] = nl[d]
    PROVE  Counted(es \cup {e0}, dirs, nl2, u)
<1> DEFINE i   == t[1].ino
           es2 == es \cup {e0}
<1>1. CountsOK(es, dirs, nl, t) /\ OrderOK(t) /\ LinkCountsOK(dirs, t)
  BY DEF Counted
<1>2. \A k \in DOMAIN u : u[k].do # "link"
  BY AfterTheLink
<1>3. OrderOK(u) /\ LinkCountsOK(dirs, u)
  BY <1>1, <1>2, OrderRest DEF LinkCountsOK
<1>4. ASSUME NEW d \in dirs
      PROVE  nl2[d] + Owes(u, "more", d) = 2 + Cardinality(Kids(es2 \ Gone(es2, u), dirs, d)) + Owes(u, "less", d)
  <2> DEFINE K  == Kids(es, dirs, d)
             K2 == Kids(es2 \ Gone(es2, u), dirs, d)
  <2>1. /\ Owed(u, "more", d) <=> d = t[1].dir /\ Moved(dirs, t, 1)
        /\ Owed(u, "less", d) <=> Follows(t, 1, "remove") /\ d = t[2].dir /\ Moved(dirs, t, 1)
    <3>1. (Owed(u, "more", d) <=> After(t, 1, "more", d)) /\ (Owed(u, "less", d) <=> After(t, 1, "less", d))
      BY <1>1, <1>2, OwedAfterLink
    <3>2. 1 \in DOMAIN t /\ d \in Inos
      BY DEF Rest
    <3> QED
      BY <1>1, <3>1, <3>2 DEF LinkCountsOK
  <2>2. nl[d] = 2 + Cardinality(K) /\ nl2[d] = nl[d] /\ Cardinality(K) \in Nat
    <3>1. ~Owed(t, "more", d) /\ ~Owed(t, "less", d)
      BY OwedLater
    <3>2. es \ Gone(es, t) = es
      BY DEF Gone
    <3>3. nl[d] + 0 = 2 + Cardinality(K) + 0
      BY <1>1, <3>1, <3>2 DEF CountsOK, Owes
    <3>4. nl[d] \in Nat /\ Cardinality(K) \in Nat
      BY KidsCounted
    <3> QED
      BY <3>3, <3>4
  <2>3. /\ \A c : c \notin K => Cardinality(K \cup {c}) = Cardinality(K) + 1
        /\ \A c : c \in K => Cardinality(K \ {c}) = Cardinality(K) - 1
    BY KidsCounted
  <2> HIDE DEF K, K2
  <2>4. /\ ~Moved(dirs, t, 1) => K2 = K
        /\ Moved(dirs, t, 1) /\ ~Follows(t, 1, "remove") =>
              IF d = t[1].dir THEN i \notin K /\ K2 = K \cup {i} ELSE K2 = K
        /\ Moved(dirs, t, 1) /\ Follows(t, 1, "remove") =>
              /\ t[2].dir # t[1].dir
              /\ d = t[1].dir => i \notin K /\ K2 = K \cup {i}
              /\ d = t[2].dir => i \in K /\ K2 = K \ {i}
              /\ d \notin {t[1].dir, t[2].dir} => K2 = K
    BY KidsAfterLink DEF K, K2
  <2> HIDE DEF i
  <2> SUFFICES nl2[d] + Owes(u, "more", d) = 2 + Cardinality(K2) + Owes(u, "less", d)
    BY DEF K2
  <2>5. CASE ~Moved(dirs, t, 1)
    BY <2>1, <2>2, <2>4, <2>5 DEF Owes
  <2>6. CASE Moved(dirs, t, 1) /\ d = t[1].dir
    <3>1. Cardinality(K2) = Cardinality(K) + 1
      BY <2>3, <2>4, <2>6
    <3>2. Owes(u, "more", d) = 1 /\ Owes(u, "less", d) = 0
      BY <2>1, <2>4, <2>6 DEF Owes
    <3> QED
      BY <2>2, <3>1, <3>2
  <2>7. CASE Moved(dirs, t, 1) /\ d # t[1].dir /\ Follows(t, 1, "remove") /\ d = t[2].dir
    <3>1. Cardinality(K2) = Cardinality(K) - 1
      BY <2>3, <2>4, <2>7
    <3>2. Owes(u, "more", d) = 0 /\ Owes(u, "less", d) = 1
      BY <2>1, <2>7 DEF Owes
    <3> QED
      BY <2>2, <3>1, <3>2
  <2>8. CASE Moved(dirs, t, 1) /\ d # t[1].dir /\ ~(Follows(t, 1, "remove") /\ d = t[2].dir)
    <3>1. K2 = K
      BY <2>4, <2>8
    <3>2. Owes(u, "more", d) = 0 /\ Owes(u, "less", d) = 0
      BY <2>1, <2>8 DEF Owes
    <3> QED
      BY <2>2, <3>1, <3>2
  <2> QED
    BY <2>5, <2>6, <2>7, <2>8
<1>5. CountsOK(es2, dirs, nl2, u)
  BY <1>4 DEF CountsOK
<1> QED
  BY <1>3, <1>5 DEF Counted

\* At rest, a link count is two more than there are directories,
LEMMA CountsAtRest ==
    ASSUME NEW es, NEW dirs \in SUBSET Inos, NEW nl, Counted(es, dirs, nl, <<>>)
    PROVE  \A d \in dirs : /\ nl[d] + 0 = 2 + Cardinality(Kids(es, dirs, d)) + 0
                           /\ Cardinality(Kids(es, dirs, d)) \in Nat
<1>1. DOMAIN <<>> = {} /\ Gone(es, <<>>) = {} /\ es \ Gone(es, <<>>) = es
  BY DEF Gone
<1>2. \A op, d : Owes(<<>>, op, d) = 0
  BY <1>1 DEF Owes, Owed
<1>3. \A d \in dirs : nl[d] + 0 = 2 + Cardinality(Kids(es, dirs, d)) + 0
  BY <1>1, <1>2 DEF Counted, CountsOK
<1> QED
  BY <1>3, KidsCounted

\* and ".." is the directory that names it.
LEMMA PlacedAtRest ==
    ASSUME NEW es, NEW dirs, NEW orph, NEW par, Placed(es, dirs, orph, par, <<>>)
    PROVE  /\ par[Root] = Root
           /\ \A e \in es : e.ino \in dirs => par[e.ino] = e.dir
           /\ \A e \in es : e.dir \notin orph
           /\ Acyclic(es)
<1>1. DOMAIN <<>> = {} /\ Leaving(es, <<>>) = {}
  BY DEF Leaving
<1>2. \A i : ~DotdotPending(<<>>, i)
  BY <1>1 DEF DotdotPending
<1>3. \A e \in es : e.ino \in dirs => par[e.ino] = e.dir
  BY <1>1, <1>2 DEF Placed, Agrees
<1> QED
  BY <1>3 DEF Placed, Agrees

\* create and mkdir.
IsMaking(t, N) ==
    /\ N \in Nat /\ DOMAIN t = 1..N /\ N > 1
    /\ Makes(t[1]) /\ t[2].do = "link" /\ t[2].ino = t[1].ino
    /\ t[1].do = "dir" => N > 2 /\ t[1].parent = t[2].dir /\ t[3].do = "more" /\ t[3].ino = t[2].dir
    /\ \A k \in DOMAIN t : k > 2 => t[k].do = "flush" \/ (k = 3 /\ t[1].do = "dir")

\* create and mkdir.
LEMMA SoundToMake ==
    ASSUME NEW es, NEW live, NEW dirs \in SUBSET Inos, NEW orph, NEW par, NEW nl, NEW t, NEW N,
           InTree(es, live, dirs, orph, <<>>),
           Placed(es, dirs, orph, par, <<>>), Counted(es, dirs, nl, <<>>),
           IsMaking(t, N), t[1].ino \notin live, t[2].dir \in Inos \ orph, t[2].dir \in dirs
    PROVE  Placed(es, dirs, orph, par, t) /\ Counted(es, dirs, nl, t)
<1> DEFINE i == t[1].ino
<1>1. /\ par[Root] = Root /\ Acyclic(es)
      /\ \A e \in es : e.ino \in dirs => par[e.ino] = e.dir
      /\ \A e \in es : e.dir \notin orph
      /\ \A d \in dirs : nl[d] + 0 = 2 + Cardinality(Kids(es, dirs, d)) + 0
  BY PlacedAtRest, CountsAtRest
<1>2. /\ N \in Nat /\ DOMAIN t = 1..N /\ N > 1 /\ 1 \in DOMAIN t /\ 2 \in DOMAIN t
      /\ t[1].do \in {"file", "dir"} /\ t[2].do = "link" /\ t[2].ino = i
      /\ t[1].do = "dir" => 3 \in DOMAIN t /\ t[1].parent = t[2].dir /\ t[3].do = "more" /\ t[3].ino = t[2].dir
      /\ \A k \in DOMAIN t : k > 2 => t[k].do = "flush" \/ (k = 3 /\ t[1].do = "dir")
  BY DEF IsMaking, Makes
<1>3. /\ \A k \in DOMAIN t : k \in Nat \ {0} /\ (k = 1 \/ k = 2 \/ k > 2)
      /\ \A k \in DOMAIN t : t[k].do = "link" <=> k = 2
      /\ \A k \in DOMAIN t : t[k].do = "dir" => k = 1
      /\ \A k \in DOMAIN t : t[k].do \notin {"dotdot", "remove", "less", "drop"}
      /\ \A k \in DOMAIN t : t[k].do = "more" <=> k = 3 /\ t[1].do = "dir"
      /\ \A k \in DOMAIN t : t[k].do = "flush" => k > 2
  <2> SUFFICES ASSUME NEW k \in DOMAIN t
               PROVE  /\ k \in Nat \ {0} /\ (k = 1 \/ k = 2 \/ k > 2)
                      /\ t[k].do = "link" <=> k = 2
                      /\ t[k].do = "dir" => k = 1
                      /\ t[k].do \notin {"dotdot", "remove", "less", "drop"}
                      /\ t[k].do = "more" <=> k = 3 /\ t[1].do = "dir"
                      /\ t[k].do = "flush" => k > 2
    OBVIOUS
  <2>1. k \in Nat \ {0} /\ (k = 1 \/ k = 2 \/ k > 2)
    BY <1>2
  <2> QED
    BY <1>2, <2>1
<1>4. /\ Leaving(es, t) = {} /\ Gone(es, t) = {} /\ Loose(t) = {} /\ ~Follows(t, 2, "remove")
      /\ dirs \subseteq live /\ \A e \in es : e.dir \in dirs /\ e.ino \in live
  <2>1. t[1].do # "remove" /\ t[1].do # "link" /\ ~Unlinks(t[1])
    BY <1>2 DEF Unlinks
  <2>2. dirs \subseteq live /\ \A e \in es : e.dir \in dirs /\ e.ino \in live
    BY DEF InTree
  <2> QED
    BY <1>3, <2>1, <2>2 DEF Leaving, Gone, Loose, Follows
<1>5. LinksBelow(es, orph, t)
  <2> DEFINE U == Inos \ {i}
  <2>1. U \in SUBSET Inos /\ i \notin U /\ t[2].dir \in U
    BY <1>4
  <2>2. \A e \in es : e.ino \in U => e.dir \in U
    BY <1>4
  <2>3. \A k \in DOMAIN t : t[k].do = "link" => k = 2
    BY <1>3
  <2> HIDE DEF U
  <2> QED
    BY <1>2, <2>1, <2>2, <2>3 DEF LinksBelow
<1>7. Agrees(es, dirs, par, t)
  <2>1. \A k \in DOMAIN t : t[k].do = "link" => t[k].ino \notin dirs
    BY <1>2, <1>3, <1>4
  <2>2. \A k \in DOMAIN t : t[k].do = "dir" => 2 \in DOMAIN t /\ t[2].dir = t[1].parent
    BY <1>2, <1>3
  <2> QED
    BY <1>1, <2>1, <2>2 DEF Agrees
<1>8. DotdotsOK(es, dirs, t)
  BY <1>3 DEF DotdotsOK
<1>9. Placed(es, dirs, orph, par, t)
  BY <1>1, <1>4, <1>5, <1>7, <1>8 DEF Placed
<1>10. \A op \in {"more", "less"} : \A d : ~Owed(t, op, d)
  <2>1. \A k \in DOMAIN t : t[k].do \in {"more", "less"} => 2 < k
    BY <1>3
  <2> QED
    BY <1>2, <2>1 DEF Owed
<1>11. CountsOK(es, dirs, nl, t)
  <2>1. es \ Gone(es, t) = es
    BY <1>4
  <2>2. \A op \in {"more", "less"} : \A d : Owes(t, op, d) = 0
    BY <1>10 DEF Owes
  <2> QED
    BY <1>1, <2>1, <2>2 DEF CountsOK
<1>12. OrderOK(t)
  <2>1. ASSUME NEW k \in DOMAIN t, NEW m \in DOMAIN t, k < m, t[k].do = t[m].do, t[k].do \in {"more", "less"}
        PROVE  FALSE
    <3>1. k = 3 /\ m = 3
      BY <1>3, <2>1
    <3> QED
      BY <2>1, <3>1
  <2>2. ASSUME NEW k \in DOMAIN t, NEW m \in DOMAIN t, k < m, t[k].do = "flush", t[m].do \in {"more", "less"}
        PROVE  FALSE
    <3>1. m = 3 /\ k > 2 /\ k \in Nat
      BY <1>3, <2>2
    <3> QED
      BY <2>2, <3>1
  <2> QED
    BY <1>3, <2>1, <2>2 DEF OrderOK
<1>13. LinkCountsOK(dirs, t)
  <2>1. Moved(dirs, t, 2) <=> t[1].do = "dir"
    BY <1>2, <1>4 DEF Moved
  <2>2. \A d : ~After(t, 2, "less", d)
    BY <1>3 DEF After
  <2>3. \A d : After(t, 2, "more", d) <=> d = t[2].dir /\ t[1].do = "dir"
    <3>1. \A d : After(t, 2, "more", d) => d = t[2].dir /\ t[1].do = "dir"
      BY <1>2, <1>3 DEF After
    <3>2. t[1].do = "dir" => After(t, 2, "more", t[2].dir)
      BY <1>2 DEF After
    <3> QED
      BY <3>1, <3>2
  <2>4. \A k \in DOMAIN t : t[k].do = "link" => k = 2
    BY <1>3
  <2> QED
    BY <1>4, <2>1, <2>2, <2>3, <2>4 DEF LinkCountsOK
<1> QED
  BY <1>9, <1>11, <1>12, <1>13 DEF Counted

\* The changes before L remove a name and what it is of.
IsRemoving(es, dirs, t, L) ==
    /\ L \in Nat /\ L > 2 /\ 1..(L - 1) \subseteq DOMAIN t
    /\ t[1].do = "remove" /\ Unlinks(t[2]) /\ \E e \in es : Of(e, t[1]) /\ e.ino = t[2].ino
    /\ t[2].ino \in dirs => t[2].do = "free" /\ L > 3 /\ t[3].do = "less" /\ t[3].ino = t[1].dir
    /\ \A k \in 1..(L - 1) : k > 2 => t[k].do = "flush" \/ (k = 3 /\ t[2].ino \in dirs)

\* Where unlink and rmdir change what.
LEMMA RemovingIs ==
    ASSUME NEW es, NEW dirs, NEW t, NEW L, IsRemoving(es, dirs, t, L), NEW k \in 1..(L - 1)
    PROVE  /\ k \in Nat /\ k \in DOMAIN t
           /\ t[k].do \notin {"link", "dotdot", "more", "file", "dir"}
           /\ t[k].do = "less" <=> k = 3 /\ t[2].ino \in dirs
           /\ t[k].do = "flush" => k > 2
           /\ t[k].do = "drop" => k = 2 /\ (3 \in 1..(L - 1) => t[3].do = "flush")
<1>1. k = 1 \/ k = 2 \/ k > 2
  OBVIOUS
<1> QED
  BY <1>1 DEF IsRemoving, Unlinks

\* The link counts that unlink and rmdir owe, alone or before a rename.
LEMMA CountsToRemove ==
    ASSUME NEW es, NEW live, NEW dirs \in SUBSET Inos, NEW orph, NEW nl \in [Inos -> Nat], NEW t, NEW L,
           InTree(es, live, dirs, orph, <<>>), Counted(es, dirs, nl, <<>>), IsRemoving(es, dirs, t, L),
           DOMAIN t \subseteq Nat \ {0}, L \in DOMAIN t \/ \A k \in DOMAIN t : k < L,
           L \in DOMAIN t => t[L].do = "link"
    PROVE  CountsOK(es, dirs, nl, t)
<1>1. \A d \in dirs : nl[d] = 2 + Cardinality(Kids(es, dirs, d)) /\ Cardinality(Kids(es, dirs, d)) \in Nat
  <2> SUFFICES ASSUME NEW d \in dirs
               PROVE  nl[d] = 2 + Cardinality(Kids(es, dirs, d)) /\ Cardinality(Kids(es, dirs, d)) \in Nat
    OBVIOUS
  <2>1. /\ nl[d] + 0 = 2 + Cardinality(Kids(es, dirs, d)) + 0
        /\ nl[d] \in Nat /\ Cardinality(Kids(es, dirs, d)) \in Nat
    BY CountsAtRest
  <2> QED
    BY <2>1
<1>2. PICK e1 \in es : Of(e1, t[1]) /\ e1.ino = t[2].ino
  BY DEF IsRemoving
<1>3. /\ t # <<>> /\ t[1].do = "remove" /\ L \in Nat /\ L > 2 /\ e1.dir = t[1].dir /\ e1.ino # Root
      /\ t[2].ino \in dirs => L > 3 /\ t[3].do = "less" /\ t[3].ino = t[1].dir
  <2>1. 1 \in 1..(L - 1)
    BY DEF IsRemoving
  <2>2. 1 \in DOMAIN t
    BY <2>1 DEF IsRemoving
  <2>3. t # <<>>
    BY <2>2
  <2> QED
    BY <1>2, <2>3 DEF IsRemoving, InTree, Of
<1>4. \A e \in es : (Of(e, t[1]) \/ e.ino = e1.ino) => e = e1
  <2>1. Leaving(es, <<>>) = {}
    BY DEF Leaving
  <2>2. \A e, f \in es : (Of(e, f) => e = f) /\ (e.ino = f.ino => e = f)
    BY <2>1 DEF InTree, Tree
  <2> QED
    BY <1>2, <2>2 DEF Of
<1>5. Gone(es, t) = {e1}
  BY <1>2, <1>3, <1>4 DEF Gone
<1>6. ASSUME NEW op \in {"more", "less"}, NEW d
      PROVE  Owed(t, op, d) <=> op = "less" /\ t[2].ino \in dirs /\ d = t[1].dir
  <2>1. ASSUME NEW k \in DOMAIN t, t[k].do = op, t[k].ino = d,
               \A j \in DOMAIN t : j < k => t[j].do \notin {"link", "flush"}
        PROVE  op = "less" /\ t[2].ino \in dirs /\ d = t[1].dir
    <3>1. k \in Nat \ {0} /\ ~(L \in DOMAIN t /\ L < k) /\ k # L
      BY <2>1
    <3>2. k \in 1..(L - 1)
      BY <1>3, <3>1
    <3>3. k = 3 /\ t[2].ino \in dirs /\ op = "less"
      BY <2>1, <3>2, RemovingIs
    <3> QED
      BY <1>3, <2>1, <3>3
  <2>2. ASSUME t[2].ino \in dirs
        PROVE  Owed(t, "less", t[1].dir)
    <3>1. 3 \in 1..(L - 1)
      BY <1>3, <2>2
    <3>2. 3 \in DOMAIN t
      BY <3>1 DEF IsRemoving
    <3>3. \A j \in DOMAIN t : j < 3 => t[j].do \notin {"link", "flush"}
      <4> SUFFICES ASSUME NEW j \in DOMAIN t, j < 3 PROVE t[j].do \notin {"link", "flush"}
        OBVIOUS
      <4>1. j \in 1..(L - 1) /\ ~(j > 2)
        BY <1>3
      <4> QED
        BY <4>1, RemovingIs
    <3> QED
      BY <1>3, <2>2, <3>2, <3>3 DEF Owed
  <2> QED
    BY <2>1, <2>2 DEF Owed
<1>7. ASSUME NEW d \in dirs
      PROVE  nl[d] + Owes(t, "more", d) = 2 + Cardinality(Kids(es \ Gone(es, t), dirs, d)) + Owes(t, "less", d)
  <2> DEFINE K  == Kids(es, dirs, d)
             K2 == Kids(es \ Gone(es, t), dirs, d)
  <2>1. Owes(t, "more", d) = 0
    BY <1>6 DEF Owes
  <2>2. \A c : c # e1.ino => (c \in K2 <=> c \in K)
    BY <1>4, <1>5 DEF Kids
  <2>3. e1.ino \notin K2
    BY <1>4, <1>5 DEF Kids
  <2>4. e1.ino \in K <=> e1.ino \in dirs /\ d = e1.dir
    BY <1>3, <1>4 DEF Kids
  <2>5. e1.ino \in K => Cardinality(K \ {e1.ino}) = Cardinality(K) - 1
    BY KidsCounted
  <2>6. nl[d] = 2 + Cardinality(K) /\ Cardinality(K) \in Nat
    BY <1>1
  <2> HIDE DEF K, K2
  <2> SUFFICES nl[d] + 0 = 2 + Cardinality(K2) + Owes(t, "less", d)
    BY <2>1 DEF K2
  <2>7. CASE e1.ino \in K
    <3>1. K2 = K \ {e1.ino}
      BY <2>2, <2>3
    <3>2. Owes(t, "less", d) = 1
      BY <1>2, <1>3, <1>6, <2>4, <2>7 DEF Owes
    <3> QED
      BY <2>5, <2>6, <2>7, <3>1, <3>2
  <2>8. CASE e1.ino \notin K
    <3>1. \A c : c \in K2 <=> c \in K
      BY <2>2, <2>3, <2>8
    <3>3. K2 = K
      BY <3>1
    <3>2. Owes(t, "less", d) = 0
      BY <1>2, <1>3, <1>6, <2>4, <2>8 DEF Owes
    <3> QED
      BY <2>6, <3>2, <3>3
  <2> QED
    BY <2>7, <2>8
<1> QED
  BY <1>7 DEF CountsOK

\* unlink and rmdir.
LEMMA SoundToRemove ==
    ASSUME NEW es, NEW live, NEW dirs \in SUBSET Inos, NEW orph, NEW par, NEW nl \in [Inos -> Nat], NEW t, NEW L,
           InTree(es, live, dirs, orph, <<>>),
           Placed(es, dirs, orph, par, <<>>), Counted(es, dirs, nl, <<>>),
           IsRemoving(es, dirs, t, L), DOMAIN t = 1..(L - 1)
    PROVE  Placed(es, dirs, orph, par, t) /\ Counted(es, dirs, nl, t)
<1>1. /\ par[Root] = Root /\ Acyclic(es)
      /\ \A e \in es : e.ino \in dirs => par[e.ino] = e.dir
      /\ \A e \in es : e.dir \notin orph
  BY PlacedAtRest
<1>2. \A k \in DOMAIN t : /\ k \in Nat \ {0} /\ k < L /\ t[k].do \notin {"link", "dotdot", "more", "file", "dir"}
                          /\ t[k].do = "less" <=> k = 3 /\ t[2].ino \in dirs
                          /\ t[k].do = "flush" => k > 2
                          /\ t[k].do = "drop" => k = 2 /\ (3 \in DOMAIN t => t[3].do = "flush")
  <2> SUFFICES ASSUME NEW k \in DOMAIN t
               PROVE  /\ k \in Nat \ {0} /\ k < L /\ t[k].do \notin {"link", "dotdot", "more", "file", "dir"}
                      /\ t[k].do = "less" <=> k = 3 /\ t[2].ino \in dirs
                      /\ t[k].do = "flush" => k > 2
                      /\ t[k].do = "drop" => k = 2 /\ (3 \in DOMAIN t => t[3].do = "flush")
    OBVIOUS
  <2>1. k \in Nat \ {0} /\ k < L /\ k \in 1..(L - 1)
    BY DEF IsRemoving
  <2>2. /\ t[k].do \notin {"link", "dotdot", "more", "file", "dir"}
        /\ t[k].do = "less" <=> k = 3 /\ t[2].ino \in dirs
        /\ t[k].do = "flush" => k > 2
        /\ t[k].do = "drop" => k = 2 /\ (3 \in DOMAIN t => t[3].do = "flush")
    <3>1. \A j \in 1..(L - 1) : /\ t[j].do \notin {"link", "dotdot", "more", "file", "dir"}
                                /\ t[j].do = "less" <=> j = 3 /\ t[2].ino \in dirs
                                /\ t[j].do = "flush" => j > 2
                                /\ t[j].do = "drop" => j = 2 /\ (3 \in 1..(L - 1) => t[3].do = "flush")
      <4> TAKE j \in 1..(L - 1)
      <4>1. j = 1 \/ j = 2 \/ j > 2
        OBVIOUS
      <4> QED
        BY <4>1 DEF IsRemoving, Unlinks
    <3> QED
      BY <2>1, <3>1
  <2> QED
    BY <2>1, <2>2
<1>3. L \in Nat /\ t[1].do = "remove" /\ Loose(t) = {}
  BY DEF IsRemoving, Loose, Unlinks
<1>4. LinksBelow(es, orph, t) /\ Agrees(es, dirs, par, t) /\ DotdotsOK(es, dirs, t) /\ LinkCountsOK(dirs, t)
  BY <1>1, <1>2 DEF LinksBelow, Agrees, DotdotsOK, LinkCountsOK
<1>5. Placed(es, dirs, orph, par, t)
  BY <1>1, <1>3, <1>4 DEF Placed
<1>6. CountsOK(es, dirs, nl, t)
  <2>1. DOMAIN t \subseteq Nat \ {0} /\ L \notin DOMAIN t /\ \A k \in DOMAIN t : k < L
    BY <1>2, <1>3
  <2> QED
    BY <2>1, CountsToRemove
<1>7. OrderOK(t)
  <2>1. ASSUME NEW k \in DOMAIN t, NEW m \in DOMAIN t, k < m, t[k].do = t[m].do, t[k].do \in {"more", "less"}
        PROVE  FALSE
    <3>1. k = 3 /\ m = 3
      BY <1>2, <2>1
    <3> QED
      BY <2>1, <3>1
  <2>2. ASSUME NEW k \in DOMAIN t, NEW m \in DOMAIN t, k < m, t[k].do = "flush", t[m].do \in {"more", "less"}
        PROVE  FALSE
    <3>1. m = 3 /\ k > 2 /\ k \in Nat
      BY <1>2, <2>2
    <3> QED
      BY <2>2, <3>1
  <2>3. \A k \in DOMAIN t : t[k].do = "drop" /\ k + 1 \in DOMAIN t => t[k + 1].do \in {"link", "flush"}
    <3>1. \A k \in DOMAIN t : t[k].do = "drop" => k + 1 = 3 /\ (3 \in DOMAIN t => t[3].do = "flush")
      BY <1>2
    <3> QED
      BY <3>1
  <2> QED
    BY <2>1, <2>2, <2>3 DEF OrderOK
<1> QED
  BY <1>4, <1>5, <1>6, <1>7 DEF Counted

\* rename, with the changes before L that remove its target: p and q are the old and the
\* new directory of i.
IsRenaming(es, dirs, t, L, N, i, p, q) ==
    /\ N \in Nat /\ L \in Nat \ {0} /\ L < N /\ DOMAIN t = 1..N
    /\ L = 1 \/ IsRemoving(es, dirs, t, L)
    /\ t[L].do = "link" /\ t[L].dir = q /\ t[L].ino = i /\ t[L + 1].do = "remove" /\ t[L + 1].dir = p
    /\ i \in dirs /\ p # q =>
          /\ L + 4 <= N
          /\ t[L + 2].do = "dotdot" /\ t[L + 2].ino = i /\ t[L + 2].parent = q
          /\ t[L + 3].do = "less" /\ t[L + 3].ino = p
          /\ t[L + 4].do = "more" /\ t[L + 4].ino = q
    /\ \A k \in DOMAIN t : k > L + 1 => t[k].do = "flush" \/ (i \in dirs /\ p # q /\ k <= L + 4)

Reparents(dirs, i, p, q) == i \in dirs /\ p # q

\* Where a rename changes what, with L its link.
LEMMA RenamingIs ==
    ASSUME NEW es, NEW dirs, NEW t, NEW L, NEW N, NEW i, NEW p, NEW q,
           IsRenaming(es, dirs, t, L, N, i, p, q), NEW k \in DOMAIN t
    PROVE  /\ k \in Nat \ {0} /\ t[k].do # "dir"
           /\ t[k].do = "link" <=> k = L
           /\ t[k].do = "dotdot" <=> Reparents(dirs, i, p, q) /\ k = L + 2
           /\ t[k].do = "more" <=> Reparents(dirs, i, p, q) /\ k = L + 4
           /\ t[k].do = "less" => (k = 3 /\ k < L) \/ (Reparents(dirs, i, p, q) /\ k = L + 3)
           /\ t[k].do = "flush" => k > 2 /\ (k < L \/ (IF Reparents(dirs, i, p, q) THEN k > L + 4 ELSE k > L + 1))
           /\ t[k].do = "drop" => t[k + 1].do \in {"link", "flush"}
<1> DEFINE mv == Reparents(dirs, i, p, q)
<1>1. /\ N \in Nat /\ L \in Nat \ {0} /\ k \in Nat \ {0} /\ DOMAIN t = 1..N /\ L < N
      /\ t[L].do = "link" /\ t[L + 1].do = "remove"
  BY DEF IsRenaming
<1>2. CASE k < L
  <2>1. IsRemoving(es, dirs, t, L) /\ k \in 1..(L - 1)
    BY <1>1, <1>2 DEF IsRenaming
  <2>2. k # L + 2 /\ k # L + 4 /\ k # L + 3 /\ k # L
    BY <1>1, <1>2
  <2>3. t[k].do = "drop" => t[k + 1].do \in {"link", "flush"}
    <3> SUFFICES ASSUME t[k].do = "drop" PROVE t[k + 1].do \in {"link", "flush"}
      OBVIOUS
    <3>1. k = 2 /\ k + 1 = 3 /\ (3 \in 1..(L - 1) => t[3].do = "flush")
      BY <2>1, RemovingIs
    <3>2. L = 3 \/ 3 \in 1..(L - 1)
      BY <1>1, <1>2, <3>1
    <3> QED
      BY <1>1, <3>1, <3>2
  <2> QED
    BY <1>1, <1>2, <2>1, <2>2, <2>3, RemovingIs
<1>3. CASE k = L \/ k = L + 1
  <2>1. k # L + 2 /\ k # L + 4 /\ (k = L + 1 => k # L)
    BY <1>1, <1>3
  <2> QED
    BY <1>1, <1>3, <2>1
<1>4. CASE k > L + 1 /\ ~mv
  <2>1. t[k].do = "flush" /\ k > 2 /\ k # L
    BY <1>1, <1>4 DEF IsRenaming, Reparents
  <2> QED
    BY <1>1, <1>4, <2>1
<1>5. CASE k > L + 1 /\ mv
  <2>1. k = L + 2 \/ k = L + 3 \/ k = L + 4 \/ k > L + 4
    BY <1>1, <1>5
  <2>2. /\ t[L + 2].do = "dotdot" /\ t[L + 3].do = "less" /\ t[L + 4].do = "more"
        /\ k > L + 4 => t[k].do = "flush"
    <3>1. k > L + 4 => ~(k <= L + 4)
      BY <1>1
    <3> QED
      BY <1>5, <3>1 DEF IsRenaming, Reparents
  <2>3. k # L /\ k > 2
    BY <1>1, <1>5
  <2> QED
    BY <1>1, <1>5, <2>1, <2>2, <2>3
<1> QED
  BY <1>1, <1>2, <1>3, <1>4, <1>5

\* rename, also over another inode and into another directory.
LEMMA SoundToRename ==
    ASSUME NEW es, NEW live, NEW dirs \in SUBSET Inos, NEW orph, NEW par, NEW nl \in [Inos -> Nat],
           NEW t, NEW L, NEW N, NEW i, NEW p, NEW q,
           InTree(es, live, dirs, orph, <<>>),
           Placed(es, dirs, orph, par, <<>>), Counted(es, dirs, nl, <<>>),
           IsRenaming(es, dirs, t, L, N, i, p, q), q \notin orph,
           \E e \in es : e.dir = p /\ e.ino = i,
           \E U \in SUBSET Inos : q \in U /\ i \notin U /\ \A e \in es : e.ino \in U => e.dir \in U
    PROVE  Placed(es, dirs, orph, par, t) /\ Counted(es, dirs, nl, t)
<1> DEFINE mv == Reparents(dirs, i, p, q)
<1>1. /\ par[Root] = Root /\ Acyclic(es)
      /\ \A e \in es : e.ino \in dirs => par[e.ino] = e.dir
      /\ \A e \in es : e.dir \notin orph
      /\ \A d \in dirs : nl[d] + 0 = 2 + Cardinality(Kids(es, dirs, d)) + 0
  BY PlacedAtRest, CountsAtRest
<1>2. \A k \in DOMAIN t :
           /\ k \in Nat \ {0} /\ t[k].do # "dir"
           /\ t[k].do = "link" <=> k = L
           /\ t[k].do = "dotdot" <=> mv /\ k = L + 2
           /\ t[k].do = "more" <=> mv /\ k = L + 4
           /\ t[k].do = "less" => (k = 3 /\ k < L) \/ (mv /\ k = L + 3)
           /\ t[k].do = "flush" => k > 2 /\ (k < L \/ (IF mv THEN k > L + 4 ELSE k > L + 1))
           /\ t[k].do = "drop" => t[k + 1].do \in {"link", "flush"}
  BY RenamingIs
<1>3. /\ N \in Nat /\ L \in Nat \ {0} /\ DOMAIN t = 1..N
      /\ 1 \in DOMAIN t /\ L \in DOMAIN t /\ L + 1 \in DOMAIN t
      /\ t[L].do = "link" /\ t[L].dir = q /\ t[L].ino = i /\ t[L + 1].do = "remove" /\ t[L + 1].dir = p
      /\ Follows(t, L, "remove") /\ Pending(t, "link")
  <2>1. /\ N \in Nat /\ L \in Nat \ {0} /\ DOMAIN t = 1..N /\ L < N
        /\ t[L].do = "link" /\ t[L].dir = q /\ t[L].ino = i /\ t[L + 1].do = "remove" /\ t[L + 1].dir = p
    BY DEF IsRenaming
  <2>2. 1 \in DOMAIN t /\ L \in DOMAIN t /\ L + 1 \in DOMAIN t
    BY <2>1
  <2> QED
    BY <2>1, <2>2 DEF Follows, Pending
<1>4. mv => /\ L + 2 \in DOMAIN t /\ L + 3 \in DOMAIN t /\ L + 4 \in DOMAIN t
            /\ t[L + 2].do = "dotdot" /\ t[L + 2].ino = i /\ t[L + 2].parent = q
            /\ t[L + 3].do = "less" /\ t[L + 3].ino = p
            /\ t[L + 4].do = "more" /\ t[L + 4].ino = q
  <2> SUFFICES ASSUME mv
               PROVE  /\ L + 2 \in DOMAIN t /\ L + 3 \in DOMAIN t /\ L + 4 \in DOMAIN t
                      /\ t[L + 2].do = "dotdot" /\ t[L + 2].ino = i /\ t[L + 2].parent = q
                      /\ t[L + 3].do = "less" /\ t[L + 3].ino = p
                      /\ t[L + 4].do = "more" /\ t[L + 4].ino = q
    OBVIOUS
  <2>1. L + 4 <= N
    BY DEF IsRenaming, Reparents
  <2>2. L + 2 \in DOMAIN t /\ L + 3 \in DOMAIN t /\ L + 4 \in DOMAIN t
    BY <1>3, <2>1
  <2> QED
    BY <2>2 DEF IsRenaming, Reparents
<1>5. PICK e0 \in es : e0.dir = p /\ e0.ino = i
  OBVIOUS
<1>6. i # Root
  BY <1>5 DEF InTree
<1>7. L = 1 \/ (L > 2 /\ t[1].do = "remove")
  BY DEF IsRenaming, IsRemoving
<1>8. Loose(t) = {}
  BY <1>3, <1>7 DEF Loose, Unlinks
<1>9. LinksBelow(es, orph, t)
  <2>1. \A k \in DOMAIN t : t[k].do = "link" => t[k].dir = q /\ t[k].ino = i
    BY <1>2, <1>3
  <2> QED
    BY <2>1 DEF LinksBelow
<1>10. Agrees(es, dirs, par, t)
  <2>1. i \in dirs => par[i] = q \/ DotdotPending(t, i)
    <3>1. mv => DotdotPending(t, i)
      BY <1>4 DEF DotdotPending
    <3>2. i \in dirs /\ p = q => par[i] = q
      BY <1>1, <1>5
    <3> QED
      BY <3>1, <3>2 DEF Reparents
  <2>2. \A k \in DOMAIN t : t[k].do = "link" => t[k].dir = q /\ t[k].ino = i
    BY <1>2, <1>3
  <2>3. \A k \in DOMAIN t : t[k].do # "dir"
    BY <1>2
  <2> QED
    BY <1>1, <2>1, <2>2, <2>3 DEF Agrees
<1>11. DotdotsOK(es, dirs, t)
  <2> SUFFICES ASSUME NEW k \in DOMAIN t, t[k].do = "dotdot"
               PROVE  /\ t[k].ino \in dirs \ {Root}
                      /\ \A j \in DOMAIN t : t[j].do = "link" =>
                            /\ k = j + 2 /\ Follows(t, j, "remove")
                            /\ t[j].ino = t[k].ino /\ t[j].dir = t[k].parent
    BY <1>3 DEF DotdotsOK
  <2>1. mv /\ k = L + 2
    BY <1>2
  <2>2. \A j \in DOMAIN t : t[j].do = "link" => j = L
    BY <1>2
  <2> QED
    BY <1>3, <1>4, <1>6, <2>1, <2>2 DEF Reparents
<1>12. Placed(es, dirs, orph, par, t)
  BY <1>1, <1>8, <1>9, <1>10, <1>11 DEF Placed
<1>13. CountsOK(es, dirs, nl, t)
  <2>1. CASE L = 1
    <3>1. es \ Gone(es, t) = es
      BY <1>3, <2>1 DEF Gone
    <3>2. \A op \in {"more", "less"} : \A d : ~Owed(t, op, d)
      <4> SUFFICES ASSUME NEW op \in {"more", "less"}, NEW k \in DOMAIN t, t[k].do = op,
                          \A j \in DOMAIN t : j < k => t[j].do \notin {"link", "flush"}
                   PROVE  FALSE
        BY DEF Owed
      <4>1. k # 1 /\ 1 < k
        BY <1>2, <1>3, <2>1
      <4> QED
        BY <1>3, <2>1, <4>1
    <3>3. \A op \in {"more", "less"} : \A d : Owes(t, op, d) = 0
      BY <3>2 DEF Owes
    <3> QED
      BY <1>1, <3>1, <3>3 DEF CountsOK
  <2>2. CASE L # 1
    <3>1. IsRemoving(es, dirs, t, L) /\ DOMAIN t \subseteq Nat \ {0}
      BY <1>2, <2>2 DEF IsRenaming
    <3> QED
      BY <1>3, <3>1, CountsToRemove
  <2> QED
    BY <2>1, <2>2
<1>14. OrderOK(t)
  <2>1. ASSUME NEW k \in DOMAIN t, NEW m \in DOMAIN t, k < m, t[k].do = t[m].do, t[k].do \in {"more", "less"}
        PROVE  \E j \in DOMAIN t : k < j /\ j < m /\ t[j].do \in {"link", "flush"}
    <3>1. CASE t[k].do = "more"
      <4>1. k = L + 4 /\ m = L + 4
        BY <1>2, <2>1, <3>1
      <4> QED
        BY <1>3, <2>1, <4>1
    <3>2. CASE t[k].do = "less"
      <4>1. (k = 3 /\ k < L) \/ k = L + 3
        BY <1>2, <3>2
      <4>2. (m = 3 /\ m < L) \/ m = L + 3
        BY <1>2, <2>1, <3>2
      <4>3. k < L /\ L < m
        BY <1>3, <2>1, <4>1, <4>2
      <4> QED
        BY <1>3, <4>3
    <3> QED
      BY <2>1, <3>1, <3>2
  <2>2. ASSUME NEW k \in DOMAIN t, NEW m \in DOMAIN t, k < m, t[k].do = "flush", t[m].do \in {"more", "less"}
        PROVE  \E j \in DOMAIN t : k < j /\ j < m /\ t[j].do = "link"
    <3>1. k > 2 /\ k \in Nat /\ (k < L \/ (mv => k > L + 4))
      BY <1>2, <2>2
    <3>2. (m = 3 /\ m < L) \/ (mv /\ m = L + 3) \/ (mv /\ m = L + 4)
      BY <1>2, <2>2
    <3> HIDE DEF mv
    <3>3. k < L /\ L < m
      BY <1>3, <2>2, <3>1, <3>2
    <3> QED
      BY <1>3, <3>3
  <2> QED
    BY <1>2, <2>1, <2>2 DEF OrderOK
<1>15. LinkCountsOK(dirs, t)
  <2>1. Moved(dirs, t, L) <=> mv
    <3>1. t[1].do # "dir"
      BY <1>2, <1>3
    <3> QED
      BY <1>3, <3>1 DEF Moved, Reparents
  <2>2. \A d : After(t, L, "more", d) <=> mv /\ d = q
    <3>1. \A d : After(t, L, "more", d) => mv /\ d = q
      BY <1>2, <1>4 DEF After
    <3>2. mv => After(t, L, "more", q)
      <4>1. L + 4 > L
        BY <1>3
      <4> QED
        BY <1>4, <4>1 DEF After
    <3> QED
      BY <3>1, <3>2
  <2>3. \A d : After(t, L, "less", d) <=> mv /\ d = p
    <3>1. ASSUME NEW d, After(t, L, "less", d)
          PROVE  mv /\ d = p
      <4>1. PICK m \in DOMAIN t : m > L /\ t[m].do = "less" /\ t[m].ino = d
        BY <3>1 DEF After
      <4>2. ~(m < L)
        BY <1>2, <1>3, <4>1
      <4>3. mv /\ m = L + 3
        BY <1>2, <4>1, <4>2
      <4> QED
        BY <1>4, <4>1, <4>3
    <3>2. mv => After(t, L, "less", p)
      <4>1. L + 3 > L
        BY <1>3
      <4> QED
        BY <1>4, <4>1 DEF After
    <3> QED
      BY <3>1, <3>2
  <2>4. \A k \in DOMAIN t : t[k].do = "link" => k = L
    BY <1>2
  <2> HIDE DEF mv
  <2> QED
    BY <1>3, <2>1, <2>2, <2>3, <2>4 DEF LinkCountsOK
<1> QED
  BY <1>12, <1>13, <1>14, <1>15 DEF Counted

-----------------------------------------------------------------------------
(* How each change keeps the tree and the counts                            *)

\* The parent entry and the link count of one inode.
LEMMA ParentsAndCounts ==
    ASSUME NEW ns, NEW bs
    PROVE  \A d \in Inos : Parents(ns, bs)[d] = bs[Head(ns[d].blocks)].dotdot /\ Counts(ns)[d] = ns[d].nlink
  BY DEF Parents, Counts

\* The first block of a directory, which has its "..".
LEMMA FirstBlock ==
    ASSUME NEW s \in Seq(Blocks), s # <<>>
    PROVE  /\ Head(s) \in ToSet(s) /\ Head(s) \in Blocks
           /\ \A b : Append(s, b) # <<>> /\ Head(Append(s, b)) = Head(s)
<1>1. Len(s) \in Nat \ {0} /\ DOMAIN s = 1..Len(s) /\ Head(s) = s[1] /\ s[1] \in Blocks
  OBVIOUS
<1>2. 1 \in DOMAIN s
  BY <1>1
<1>3. \A b : Append(s, b) # <<>> /\ Head(Append(s, b)) = Head(s)
  <2> TAKE b
  <2>1. Append(s, b)[1] = s[1] /\ Len(Append(s, b)) = Len(s) + 1
    BY <1>1
  <2> QED
    BY <1>1, <2>1
<1> QED
  BY <1>1, <1>2, <1>3 DEF ToSet

\* What is so while memory is sound.
LEMMA SoundIs ==
    ASSUME NamespaceInv, TreeInv, ~torn
    PROVE  /\ \E par, nl : /\ Meant(inode, data, stale, miscounted, par, nl)
                           /\ Fits(inode, data, orphans, par, nl, todo)
           /\ DirsIn(inode) \in SUBSET Inos /\ DirsIn(inode) \subseteq LiveIn(inode)
           /\ \A d \in DirsIn(inode) : /\ inode[d].blocks # <<>> /\ inode[d].blocks \in Seq(Blocks)
                                       /\ Head(inode[d].blocks) \in ToSet(inode[d].blocks)
                                       /\ Head(inode[d].blocks) \in bitmap
                                       /\ Head(inode[d].blocks) \in Blocks
<1>1. MemoryTyped /\ Agree(inode, bitmap)
  BY Here
<1>2. Sound(inode, data, orphans, stale, miscounted, todo)
  BY DEF TreeInv
<1>3. DirsIn(inode) \in SUBSET Inos /\ DirsIn(inode) \subseteq LiveIn(inode)
  BY DEF DirsIn, LiveIn
<1>4. \A d \in Inos : inode[d] \in Inode
  BY <1>1 DEF MemoryTyped
<1>6. ASSUME NEW d \in DirsIn(inode)
      PROVE  /\ inode[d].blocks # <<>> /\ inode[d].blocks \in Seq(Blocks)
             /\ Head(inode[d].blocks) \in ToSet(inode[d].blocks)
             /\ Head(inode[d].blocks) \in bitmap
             /\ Head(inode[d].blocks) \in Blocks
  <2>1. inode[d].blocks \in Seq(Blocks) /\ inode[d].blocks # <<>>
    BY <1>2, <1>3, <1>4 DEF Inode, Sound
  <2>2. Head(inode[d].blocks) \in ToSet(inode[d].blocks) /\ Head(inode[d].blocks) \in Blocks
    BY <2>1, FirstBlock
  <2>3. ToSet(inode[d].blocks) \subseteq bitmap
    BY <1>1, <1>3 DEF Agree
  <2> QED
    BY <2>1, <2>2, <2>3
<1> QED
  BY <1>2, <1>3, <1>6 DEF Sound

\* A change of what is in memory.
LEMMA MemorySound ==
    ASSUME TreeInv, UNCHANGED <<disk, whole>>, NEW par, NEW nl,
           \A d \in DirsIn(inode') : inode'[d].blocks # <<>>,
           Meant(inode', data', stale', miscounted', par, nl),
           Placed(EntriesIn(inode', data'), DirsIn(inode'), orphans', par, todo'),
           Counted(EntriesIn(inode', data'), DirsIn(inode'), nl, todo')
    PROVE  TreeInv'
<1>1. Fits(inode', data', orphans', par, nl, todo')
  BY DEF Fits
<1> QED
  BY <1>1 DEF TreeInv, Sound

\* ".." and the counts of the directories that there were are what they were.
LEMMA MeantStays ==
    ASSUME NEW ns, NEW bs, NEW ns2, NEW bs2, NEW old, NEW off, NEW old2, NEW off2, NEW par, NEW nl,
           Meant(ns, bs, old, off, par, nl), DirsIn(ns2) \subseteq DirsIn(ns), Root \notin old2,
           \A d \in DirsIn(ns2) : /\ Parents(ns2, bs2)[d] = Parents(ns, bs)[d] /\ Counts(ns2)[d] = Counts(ns)[d]
                                  /\ (d \in old => d \in old2) /\ (d \in off => d \in off2)
    PROVE  Meant(ns2, bs2, old2, off2, par, nl)
  BY DEF Meant

\* create writes its inode.
LEMMA WriteFileInodeSound ==
    ASSUME NamespaceInv, TreeInv, WriteFileInode
    PROVE  TreeInv'
<1> DEFINE i  == todo[1].ino
           es == EntriesIn(inode, data)
           ds == DirsIn(inode)
<1>1. /\ todo # <<>> /\ todo[1].do = "file" /\ Makes(todo[1]) /\ todo' = Tail(todo) /\ ~torn
      /\ UNCHANGED <<data, orphans, stale, miscounted, disk, whole>>
      /\ \A j \in Inos \ {i} : inode'[j] = inode[j]
      /\ EntriesIn(inode', data) = es /\ DirsIn(inode') = ds
  BY WriteFileInodeIs
<1>2. InTree(es, LiveIn(inode), ds, orphans, todo) /\ Rest(Tail(todo), todo)
  BY <1>1, HeadIs
<1>3. /\ ds \in SUBSET Inos /\ ds \subseteq LiveIn(inode)
      /\ \A d \in ds : inode[d].blocks # <<>>
  BY <1>1, SoundIs
<1>4. i \notin LiveIn(inode)
  BY <1>1, MakesFree
<1>5. \A d \in ds : d \in Inos /\ inode'[d] = inode[d]
  BY <1>1, <1>3, <1>4
<1>6. \A d \in ds : Parents(inode', data)[d] = Parents(inode, data)[d] /\ Counts(inode')[d] = Counts(inode)[d]
  BY <1>5, ParentsAndCounts
<1>7. PICK par, nl : Meant(inode, data, stale, miscounted, par, nl) /\ Fits(inode, data, orphans, par, nl, todo)
  BY <1>1, SoundIs
<1>8. nl \in [Inos -> Nat] /\ Placed(es, ds, orphans, par, todo) /\ Counted(es, ds, nl, todo) /\ Root \notin stale
  BY <1>7 DEF Meant, Fits
<1>9. Meant(inode', data, stale, miscounted, par, nl)
  BY <1>1, <1>6, <1>7, <1>8, MeantStays
<1> HIDE DEF es, ds, i
<1>10. Placed(es, ds, orphans, par, Tail(todo))
  BY <1>1, <1>2, <1>8, PlacedAfterMaking
<1>11. Counted(es, ds, nl, Tail(todo))
  BY <1>1, <1>2, <1>3, <1>8, CountedAfterMaking
<1>12. \A d \in ds : inode'[d].blocks # <<>>
  BY <1>3, <1>5
<1>13. /\ EntriesIn(inode', data') = es /\ DirsIn(inode') = ds /\ orphans' = orphans /\ todo' = Tail(todo)
       /\ data' = data /\ stale' = stale /\ miscounted' = miscounted
  BY <1>1
<1> QED
  BY <1>1, <1>9, <1>10, <1>11, <1>12, <1>13, MemorySound

\* mkdir writes its inode and a first block.
LEMMA MakeDirectorySound ==
    ASSUME NamespaceInv, TreeInv, MakeDirectory
    PROVE  TreeInv'
<1> DEFINE i   == todo[1].ino
           es  == EntriesIn(inode, data)
           ds  == DirsIn(inode)
           ds2 == ds \cup {i}
<1>1. /\ todo # <<>> /\ todo[1].do = "dir" /\ Makes(todo[1]) /\ todo' = Tail(todo) /\ ~torn
      /\ UNCHANGED <<orphans, stale, miscounted, disk, whole>>
      /\ \A j \in Inos \ {i} : inode'[j] = inode[j]
      /\ \A c \in bitmap : data'[c] = data[c]
      /\ inode'[i].nlink = 2 /\ inode'[i].blocks # <<>>
      /\ data'[Head(inode'[i].blocks)].dotdot = todo[1].parent
      /\ EntriesIn(inode', data') = es /\ DirsIn(inode') = ds2
  BY MakeDirectoryIs
<1>2. InTree(es, LiveIn(inode), ds, orphans, todo) /\ Rest(Tail(todo), todo)
  BY <1>1, HeadIs
<1>3. /\ ds \in SUBSET Inos /\ ds \subseteq LiveIn(inode)
      /\ \A d \in ds : inode[d].blocks # <<>> /\ Head(inode[d].blocks) \in bitmap
  BY <1>1, SoundIs
<1>4. i \notin LiveIn(inode) /\ i \in Inos
  BY <1>1, MakesFree
<1>5. \A d \in ds : d \in Inos /\ inode'[d] = inode[d] /\ data'[Head(inode[d].blocks)] = data[Head(inode[d].blocks)]
  BY <1>1, <1>3, <1>4
<1>6. \A d \in ds : Parents(inode', data')[d] = Parents(inode, data)[d] /\ Counts(inode')[d] = Counts(inode)[d]
  BY <1>5, ParentsAndCounts
<1>7. Parents(inode', data')[i] = todo[1].parent /\ Counts(inode')[i] = 2
  BY <1>1, <1>4, ParentsAndCounts
<1>8. \A d \in ds2 : inode'[d].blocks # <<>>
  BY <1>1, <1>3, <1>5
<1>9. ds2 = IF todo[1].do = "dir" THEN ds \cup {todo[1].ino} ELSE ds
  BY <1>1
<1>10. PICK par, nl : Meant(inode, data, stale, miscounted, par, nl) /\ Fits(inode, data, orphans, par, nl, todo)
  BY <1>1, SoundIs
<1>11. nl \in [Inos -> Nat] /\ Placed(es, ds, orphans, par, todo) /\ Counted(es, ds, nl, todo)
  BY <1>10 DEF Meant, Fits
<1> DEFINE par2 == [d \in Inos |-> IF d = i THEN todo[1].parent ELSE par[d]]
           nl2  == [d \in Inos |-> IF d = i THEN 2 ELSE nl[d]]
<1>12. /\ \A d \in ds : par2[d] = par[d] /\ nl2[d] = nl[d] /\ d # i
       /\ par2[i] = todo[1].parent /\ nl2[i] = 2 /\ nl2 \in [Inos -> Nat]
  BY <1>3, <1>4, <1>11
<1> HIDE DEF par2, nl2
<1>13. Meant(inode', data', stale, miscounted, par2, nl2)
  BY <1>1, <1>6, <1>7, <1>10, <1>12 DEF Meant
<1> HIDE DEF es, ds, ds2
<1>14. Placed(es, ds2, orphans, par2, Tail(todo))
  <2>1. Makes(todo[1]) /\ par2[todo[1].ino] = todo[1].parent
    BY <1>1, <1>12
  <2> QED
    BY <1>2, <1>9, <1>11, <1>12, <2>1, PlacedAfterMaking
<1>15. Counted(es, ds2, nl2, Tail(todo))
  <2>1. Makes(todo[1]) /\ nl2[todo[1].ino] = 2 /\ ds \in SUBSET Inos
    BY <1>1, <1>3, <1>12
  <2> QED
    BY <1>2, <1>9, <1>11, <1>12, <2>1, CountedAfterMaking
<1>16. /\ EntriesIn(inode', data') = es /\ DirsIn(inode') = ds2 /\ orphans' = orphans /\ todo' = Tail(todo)
       /\ stale' = stale /\ miscounted' = miscounted
  BY <1>1
<1> QED
  BY <1>1, <1>8, <1>13, <1>14, <1>15, <1>16, MemorySound

\* add_dir_entry, in whatever block.
LEMMA LinkedSound ==
    ASSUME NamespaceInv, TreeInv, Doing("link"), Step,
           IsLinked(inode, inode', data, data', bitmap, todo[1])
    PROVE  TreeInv'
<1> DEFINE es == EntriesIn(inode, data)
           ds == DirsIn(inode)
<1>1. /\ todo # <<>> /\ todo[1].do = "link" /\ todo' = Tail(todo) /\ ~torn
      /\ UNCHANGED <<orphans, stale, miscounted, disk, whole>>
  BY LinkHead DEF Step, Advance
<1>2. InTree(es, LiveIn(inode), ds, orphans, todo) /\ Rest(Tail(todo), todo)
  BY <1>1, HeadIs
<1>3. /\ ds \in SUBSET Inos
      /\ \A d \in ds : /\ inode[d].blocks # <<>> /\ inode[d].blocks \in Seq(Blocks)
                       /\ Head(inode[d].blocks) \in bitmap
  BY <1>1, SoundIs
<1>4. PICK e0 \in Entry : /\ Of(e0, todo[1]) /\ e0.ino = todo[1].ino
                          /\ EntriesIn(inode', data') = es \cup {e0}
  BY DEF IsLinked, Of
<1>5. /\ DirsIn(inode') = ds
      /\ \A j \in Inos : /\ inode'[j].nlink = inode[j].nlink
                         /\ inode'[j].blocks = inode[j].blocks \/ \E b : inode'[j].blocks = Append(inode[j].blocks, b)
      /\ \A c \in bitmap : data'[c].dotdot = data[c].dotdot
  BY DEF IsLinked
<1>6. ASSUME NEW d \in ds
      PROVE  /\ inode'[d].blocks # <<>> /\ Parents(inode', data')[d] = Parents(inode, data)[d]
             /\ Counts(inode')[d] = Counts(inode)[d]
  <2>1. d \in Inos /\ inode[d].blocks \in Seq(Blocks) /\ inode[d].blocks # <<>> /\ Head(inode[d].blocks) \in bitmap
    BY <1>3
  <2>2. \A b : Append(inode[d].blocks, b) # <<>> /\ Head(Append(inode[d].blocks, b)) = Head(inode[d].blocks)
    BY <2>1, FirstBlock
  <2>3. inode'[d].blocks # <<>> /\ Head(inode'[d].blocks) = Head(inode[d].blocks)
    BY <1>5, <2>1, <2>2
  <2> QED
    BY <1>5, <2>1, <2>3, ParentsAndCounts
<1>7. PICK par, nl : Meant(inode, data, stale, miscounted, par, nl) /\ Fits(inode, data, orphans, par, nl, todo)
  BY <1>1, SoundIs
<1>8. nl \in [Inos -> Nat] /\ Placed(es, ds, orphans, par, todo) /\ Counted(es, ds, nl, todo) /\ Root \notin stale
  BY <1>7 DEF Meant, Fits
<1>9. Meant(inode', data', stale, miscounted, par, nl)
  BY <1>5, <1>6, <1>7, <1>8, MeantStays
<1> HIDE DEF es, ds
<1>10. Placed(es \cup {e0}, ds, orphans, par, Tail(todo))
  BY <1>1, <1>2, <1>4, <1>8, PlacedAfterLink
<1>11. Counted(es \cup {e0}, ds, nl, Tail(todo))
  BY <1>1, <1>2, <1>3, <1>4, <1>8, CountedAfterLink
<1> QED
  BY <1>1, <1>4, <1>5, <1>6, <1>9, <1>10, <1>11, MemorySound

\* remove_dir_entry.
LEMMA RemoveNameSound ==
    ASSUME NamespaceInv, TreeInv, RemoveName
    PROVE  TreeInv'
<1> DEFINE es == EntriesIn(inode, data)
           ds == DirsIn(inode)
<1>1. /\ todo # <<>> /\ todo[1].do = "remove" /\ todo' = Tail(todo) /\ ~torn
      /\ UNCHANGED <<inode, orphans, stale, miscounted, disk, whole>>
      /\ \A c \in Blocks : data'[c].dotdot = data[c].dotdot
  BY RemoveNameIs
<1>2. InTree(es, LiveIn(inode), ds, orphans, todo) /\ Rest(Tail(todo), todo)
  BY <1>1, HeadIs
<1>3. /\ ds \in SUBSET Inos
      /\ \A d \in ds : inode[d].blocks # <<>> /\ Head(inode[d].blocks) \in Blocks
  BY <1>1, SoundIs
<1>4. PICK e1 \in es : Of(e1, todo[1]) /\ EntriesIn(inode, data') = es \ {e1}
  BY RemoveNameIs
<1>5. \A d \in ds : Parents(inode, data')[d] = Parents(inode, data)[d]
  BY <1>1, <1>3, ParentsAndCounts
<1>6. PICK par, nl : Meant(inode, data, stale, miscounted, par, nl) /\ Fits(inode, data, orphans, par, nl, todo)
  BY <1>1, SoundIs
<1>7. Placed(es, ds, orphans, par, todo) /\ Counted(es, ds, nl, todo) /\ Root \notin stale
  BY <1>6 DEF Meant, Fits
<1>8. Meant(inode, data', stale, miscounted, par, nl)
  BY <1>5, <1>6, <1>7, MeantStays
<1> HIDE DEF es, ds
<1>9. Placed(es \ {e1}, ds, orphans, par, Tail(todo))
  BY <1>1, <1>2, <1>4, <1>7, PlacedAfterRemove
<1>10. Counted(es \ {e1}, ds, nl, Tail(todo))
  BY <1>1, <1>2, <1>4, <1>7, CountedAfterRemove
<1>11. /\ EntriesIn(inode', data') = es \ {e1} /\ DirsIn(inode') = ds /\ orphans' = orphans /\ todo' = Tail(todo)
       /\ inode' = inode /\ stale' = stale /\ miscounted' = miscounted
  BY <1>1, <1>4 DEF ds
<1> QED
  BY <1>1, <1>3, <1>8, <1>9, <1>10, <1>11, MemorySound

\* The inode and its blocks are given back.
LEMMA FreeSound ==
    ASSUME NamespaceInv, TreeInv, FreeInodeAndBlocks
    PROVE  TreeInv'
<1> DEFINE i   == todo[1].ino
           es  == EntriesIn(inode, data)
           ds  == DirsIn(inode)
           ds2 == ds \ {i}
<1>1. /\ todo # <<>> /\ Unlinks(todo[1]) /\ todo' = Tail(todo) /\ ~torn /\ i \in LiveIn(inode)
      /\ UNCHANGED <<orphans, disk, whole>>
      /\ stale' = stale \ {i} /\ miscounted' = miscounted \ {i}
      /\ \A j \in Inos \ {i} : inode'[j] = inode[j]
      /\ \A b \in Blocks \ ToSet(inode[i].blocks) : data'[b] = data[b]
      /\ EntriesIn(inode', data') = es /\ DirsIn(inode') = ds2
  BY FreeIs
<1>2. InTree(es, LiveIn(inode), ds, orphans, todo) /\ Rest(Tail(todo), todo)
  BY <1>1, HeadIs
<1>3. /\ ds \in SUBSET Inos /\ ds \subseteq LiveIn(inode)
      /\ \A d \in ds : /\ inode[d].blocks # <<>> /\ Head(inode[d].blocks) \in ToSet(inode[d].blocks)
                       /\ Head(inode[d].blocks) \in Blocks
  BY <1>1, SoundIs
<1>4. Agree(inode, bitmap)
  BY <1>1, Here
<1>5. ASSUME NEW d \in ds2
      PROVE  d \in Inos /\ inode'[d] = inode[d] /\ data'[Head(inode[d].blocks)] = data[Head(inode[d].blocks)]
  <2>1. ToSet(inode[d].blocks) \cap ToSet(inode[i].blocks) = {}
    BY <1>1, <1>3, <1>4 DEF Agree
  <2> QED
    BY <1>1, <1>3, <2>1
<1>6. \A d \in ds2 : Parents(inode', data')[d] = Parents(inode, data)[d] /\ Counts(inode')[d] = Counts(inode)[d]
  BY <1>5, ParentsAndCounts
<1>7. \A d \in ds2 : inode'[d].blocks # <<>>
  BY <1>3, <1>5
<1>8. PICK par, nl : Meant(inode, data, stale, miscounted, par, nl) /\ Fits(inode, data, orphans, par, nl, todo)
  BY <1>1, SoundIs
<1>9. Placed(es, ds, orphans, par, todo) /\ Counted(es, ds, nl, todo) /\ Root \notin stale
  BY <1>8 DEF Meant, Fits
<1>10. Meant(inode', data', stale', miscounted', par, nl)
  <2>1. DirsIn(inode') \subseteq DirsIn(inode) /\ Root \notin stale'
    BY <1>1, <1>9
  <2>2. \A d \in DirsIn(inode') : (d \in stale => d \in stale') /\ (d \in miscounted => d \in miscounted')
    BY <1>1
  <2> QED
    BY <1>1, <1>6, <1>8, <2>1, <2>2, MeantStays
<1> HIDE DEF es, ds
<1>11. Placed(es, ds2, orphans, par, Tail(todo))
  BY <1>1, <1>2, <1>9, PlacedAfterFree
<1>12. Counted(es, ds2, nl, Tail(todo))
  BY <1>1, <1>2, <1>9, CountedAfterFree
<1>13. EntriesIn(inode', data') = es /\ DirsIn(inode') = ds2 /\ orphans' = orphans /\ todo' = Tail(todo)
  BY <1>1
<1> HIDE DEF ds2, i
<1> QED
  BY <1>1, <1>7, <1>10, <1>11, <1>12, <1>13, MemorySound

\* A link count, ".." or a carrier.
LEMMA QuietSound ==
    ASSUME NamespaceInv, TreeInv, todo # <<>>, Quiet(todo[1]), todo' = Tail(todo), UNCHANGED orphans,
           UNCHANGED <<disk, whole>>, IsSame(inode, inode', data, data'),
           NEW par, NEW nl, nl \in [Inos -> Nat], Fits(inode, data, orphans, par, nl, todo), NEW par2, NEW nl2,
           Meant(inode', data', stale', miscounted', par2, nl2),
           \A d \in DirsIn(inode) :
              /\ par2[d] = IF todo[1].do = "dotdot" /\ d = todo[1].ino THEN todo[1].parent ELSE par[d]
              /\ nl2[d] = IF todo[1].do \in {"more", "less"} /\ d = todo[1].ino
                          THEN CountAfter(todo[1].do, nl[d]) ELSE nl[d]
    PROVE  TreeInv'
<1> DEFINE es == EntriesIn(inode, data)
           ds == DirsIn(inode)
<1>1. ~torn /\ InTree(es, LiveIn(inode), ds, orphans, todo) /\ Rest(Tail(todo), todo)
  BY HeadIs
<1>2. EntriesIn(inode', data') = es /\ DirsIn(inode') = ds
  BY SameEntries
<1>3. /\ Placed(es, ds, orphans, par, todo) /\ Counted(es, ds, nl, todo)
      /\ ds \in SUBSET Inos /\ \A d \in ds : inode[d].blocks # <<>>
  BY <1>1, SoundIs DEF Fits
<1>4. \A d \in ds : inode'[d].blocks # <<>>
  BY <1>3 DEF IsSame
<1> HIDE DEF es
<1>5. Placed(es, ds, orphans, par2, Tail(todo))
  BY <1>1, <1>3, PlacedAfterQuiet
<1>6. Counted(es, ds, nl2, Tail(todo))
  BY <1>1, <1>3, CountedAfterQuiet
<1>7. orphans' = orphans
  OBVIOUS
<1> HIDE DEF ds
<1> QED
  BY <1>2, <1>4, <1>5, <1>6, <1>7, MemorySound

\* A link count goes up or down.
LEMMA CountLinksSound ==
    ASSUME NamespaceInv, TreeInv, CountLinks
    PROVE  TreeInv'
<1> DEFINE i == todo[1].ino
           c == CountAfter(todo[1].do, inode[i].nlink)
<1>1. /\ todo # <<>> /\ Head(todo) = todo[1] /\ Quiet(todo[1]) /\ ~torn /\ todo' = Tail(todo)
      /\ UNCHANGED <<data, orphans, stale, miscounted, disk, whole>> /\ todo[1].do \in {"more", "less"}
  BY HeadIs DEF CountLinks, Doing, Quiet, Step, Advance
<1>2. MemoryTyped /\ i \in Inos
  BY <1>1, Here, HeadIs, OpParts
<1>3. inode[i].nlink \in Nat
  BY <1>2 DEF MemoryTyped, Inode
<1>4. inode' = [inode EXCEPT ![i] = [inode[i] EXCEPT !.nlink = c]]
  BY <1>1, <1>2, <1>3 DEF CountLinks, MemoryTyped, CountAfter
<1> HIDE DEF c, i
<1>5. /\ inode'[i].kind = inode[i].kind /\ inode'[i].blocks = inode[i].blocks /\ inode'[i].nlink = c
      /\ \A j \in Inos \ {i} : inode'[j] = inode[j]
  BY <1>2, <1>3, <1>4 DEF MemoryTyped, Inode
<1>6. IsSame(inode, inode', data, data')
  BY <1>1, <1>5 DEF IsSame
<1>7. DirsIn(inode) \subseteq Inos
  BY DEF DirsIn
<1>8. PICK par, nl : Meant(inode, data, stale, miscounted, par, nl) /\ Fits(inode, data, orphans, par, nl, todo)
  BY <1>1, SoundIs
<1> DEFINE nl2 == [d \in Inos |-> IF d = i THEN CountAfter(todo[1].do, nl[d]) ELSE nl[d]]
<1>9. nl \in [Inos -> Nat] /\ nl2 \in [Inos -> Nat]
  <2>1. nl \in [Inos -> Nat]
    BY <1>8 DEF Meant
  <2>2. \A d \in Inos : CountAfter(todo[1].do, nl[d]) \in Nat
    BY <1>1, <2>1 DEF CountAfter
  <2> QED
    BY <2>1, <2>2
<1>10. ASSUME NEW d \in DirsIn(inode)
       PROVE  /\ par[d] = IF todo[1].do = "dotdot" /\ d = todo[1].ino THEN todo[1].parent ELSE par[d]
              /\ nl2[d] = IF todo[1].do \in {"more", "less"} /\ d = todo[1].ino
                          THEN CountAfter(todo[1].do, nl[d]) ELSE nl[d]
  BY <1>1, <1>7 DEF i
<1> HIDE DEF nl2
<1>11. Meant(inode', data', stale', miscounted', par, nl2)
  <2>1. DirsIn(inode') = DirsIn(inode)
    BY <1>6, SameEntries
  <2>2. ASSUME NEW d \in DirsIn(inode)
        PROVE  /\ Parents(inode', data')[d] = Parents(inode, data)[d]
               /\ d \notin miscounted => nl2[d] = Counts(inode')[d]
    <3>1. d \in Inos /\ inode'[d].blocks = inode[d].blocks /\ data' = data
      BY <1>1, <1>5, <1>7
    <3>2. Parents(inode', data')[d] = Parents(inode, data)[d]
      BY <3>1, ParentsAndCounts
    <3>3. Counts(inode')[d] = inode'[d].nlink /\ Counts(inode)[d] = inode[d].nlink
      BY <3>1, ParentsAndCounts
    <3>4. inode'[d].nlink = IF d = i THEN CountAfter(todo[1].do, inode[d].nlink) ELSE inode[d].nlink
      BY <1>5, <3>1 DEF c
    <3>5. d \notin miscounted => nl[d] = inode[d].nlink
      BY <1>8, <3>3 DEF Meant
    <3> QED
      BY <1>1, <1>10, <3>2, <3>3, <3>4, <3>5 DEF i
  <2> QED
    BY <1>1, <1>8, <1>9, <2>1, <2>2 DEF Meant
<1> QED
  BY <1>1, <1>6, <1>8, <1>9, <1>10, <1>11, QuietSound

\* update_dotdot.
LEMMA UpdateDotdotSound ==
    ASSUME NamespaceInv, TreeInv, UpdateDotdot
    PROVE  TreeInv'
<1> DEFINE i == todo[1].ino
           b == Head(inode[i].blocks)
           p == todo[1].parent
<1>1. /\ todo # <<>> /\ Head(todo) = todo[1] /\ Quiet(todo[1]) /\ ~torn /\ todo' = Tail(todo)
      /\ UNCHANGED <<inode, orphans, miscounted, disk, whole>> /\ todo[1].do = "dotdot"
      /\ stale' = stale \ {i}
  BY HeadIs DEF UpdateDotdot, Doing, Quiet, Advance
<1>2. MemoryTyped /\ Agree(inode, bitmap)
  BY <1>1, Here
<1>3. data' = [data EXCEPT ![b].dotdot = p]
  BY <1>1 DEF UpdateDotdot
<1>4. /\ DirsIn(inode) \in SUBSET Inos /\ DirsIn(inode) \subseteq LiveIn(inode)
      /\ \A d \in DirsIn(inode) : /\ Head(inode[d].blocks) \in ToSet(inode[d].blocks)
                                  /\ Head(inode[d].blocks) \in Blocks
  BY <1>1, SoundIs
<1>5. i \in DirsIn(inode)
  <2>1. DotdotsOK(EntriesIn(inode, data), DirsIn(inode), todo) /\ 1 \in DOMAIN todo
    BY <1>1, SoundIs, HeadIs DEF Fits, Placed, Rest
  <2> QED
    BY <1>1, <2>1 DEF DotdotsOK
<1>6. \A d \in DirsIn(inode) : Head(inode[d].blocks) = b => d = i
  <2> SUFFICES ASSUME NEW d \in DirsIn(inode), d # i PROVE Head(inode[d].blocks) # b
    OBVIOUS
  <2>1. ToSet(inode[d].blocks) \cap ToSet(inode[i].blocks) = {}
    BY <1>2, <1>4, <1>5 DEF Agree
  <2>2. Head(inode[d].blocks) \in ToSet(inode[d].blocks) /\ b \in ToSet(inode[i].blocks)
    BY <1>4, <1>5
  <2> QED
    BY <2>1, <2>2
<1>7. b \in Blocks
  BY <1>4, <1>5
<1> HIDE DEF b, p
<1>8. /\ \A c \in Blocks : data'[c].names = data[c].names
      /\ data'[b].dotdot = p /\ \A c \in Blocks \ {b} : data'[c].dotdot = data[c].dotdot
  BY <1>2, <1>3, <1>7 DEF MemoryTyped, Block
<1>9. IsSame(inode, inode', data, data')
  BY <1>1, <1>8 DEF IsSame
<1>10. ASSUME NEW d \in DirsIn(inode)
       PROVE  Parents(inode', data')[d] = IF d = i THEN p ELSE Parents(inode, data)[d]
  <2>1. /\ d \in Inos /\ Parents(inode', data')[d] = data'[Head(inode[d].blocks)].dotdot
        /\ Parents(inode, data)[d] = data[Head(inode[d].blocks)].dotdot
    BY <1>1, <1>4, ParentsAndCounts
  <2>2. CASE d = i
    BY <1>8, <2>1, <2>2 DEF b
  <2>3. CASE d # i
    BY <1>4, <1>6, <1>8, <2>1, <2>3
  <2> QED
    BY <2>2, <2>3
<1>11. PICK par, nl : Meant(inode, data, stale, miscounted, par, nl) /\ Fits(inode, data, orphans, par, nl, todo)
  BY <1>1, SoundIs
<1> DEFINE par2 == [d \in Inos |-> IF d = i THEN p ELSE par[d]]
<1>12. \A d \in DirsIn(inode) : par2[d] = IF d = i THEN p ELSE par[d]
  BY <1>4
<1> HIDE DEF par2
<1>13. nl \in [Inos -> Nat] /\ Meant(inode', data', stale', miscounted', par2, nl)
  BY <1>1, <1>10, <1>11, <1>12 DEF Meant
<1>14. \A d \in DirsIn(inode) :
          /\ par2[d] = IF todo[1].do = "dotdot" /\ d = todo[1].ino THEN todo[1].parent ELSE par[d]
          /\ nl[d] = IF todo[1].do \in {"more", "less"} /\ d = todo[1].ino
                     THEN CountAfter(todo[1].do, nl[d]) ELSE nl[d]
  BY <1>1, <1>12 DEF p
<1>15. /\ todo # <<>> /\ Quiet(todo[1]) /\ todo' = Tail(todo)
       /\ UNCHANGED orphans /\ UNCHANGED <<disk, whole>>
       /\ Fits(inode, data, orphans, par, nl, todo)
  BY <1>1, <1>11
<1> HIDE DEF i
<1> QED
  BY <1>9, <1>13, <1>14, <1>15, QuietSound

\* update_dotdot cannot read its block: ".." is meant to be what it was to be set to, and the
\* links of the two parents what they are.
LEMMA UpdateDotdotFailsSound ==
    ASSUME NamespaceInv, TreeInv, UpdateDotdotFails
    PROVE  TreeInv'
<1> DEFINE i   == todo[1].ino
           es  == EntriesIn(inode, data)
           ds  == DirsIn(inode)
           off == {e.ino : e \in {f \in ToSet(todo) : f.do \in {"less", "more"}}}
<1>1. /\ todo # <<>> /\ Quiet(todo[1]) /\ todo[1].do = "dotdot" /\ ~torn /\ todo' = <<>>
      /\ UNCHANGED <<inode, data, orphans, disk, whole>>
      /\ stale' = stale \cup {i} /\ miscounted' = miscounted \cup off
  BY HeadIs DEF UpdateDotdotFails, Doing, Quiet, GiveUp
<1>2. InTree(es, LiveIn(inode), ds, orphans, todo) /\ Rest(Tail(todo), todo)
  BY <1>1, HeadIs
<1>3. PICK par, nl : Meant(inode, data, stale, miscounted, par, nl) /\ Fits(inode, data, orphans, par, nl, todo)
  BY <1>1, SoundIs
<1>4. /\ nl \in [Inos -> Nat] /\ Placed(es, ds, orphans, par, todo) /\ Counted(es, ds, nl, todo)
      /\ ds \in SUBSET Inos /\ \A d \in ds : inode[d].blocks # <<>>
  BY <1>1, <1>3, SoundIs DEF Meant, Fits
<1>5. ToBeCounted(todo, off)
  BY DEF ToSet, ToBeCounted
<1> HIDE DEF off, es
<1> DEFINE par2 == [d \in Inos |-> IF d = i THEN todo[1].parent ELSE par[d]]
           nl2  == [d \in Inos |-> IF d \in off THEN 2 + Cardinality(Kids(es, ds, d)) ELSE nl[d]]
<1>6. /\ \A d \in ds : par2[d] = IF todo[1].do = "dotdot" /\ d = todo[1].ino THEN todo[1].parent ELSE par[d]
      /\ \A d \in ds : nl2[d] = IF d \in off THEN 2 + Cardinality(Kids(es, ds, d)) ELSE nl[d]
  <2> HIDE DEF ds
  <2>1. \A d \in ds : d \in Inos
    BY <1>4
  <2>2. \A d \in ds : par2[d] = IF d = i THEN todo[1].parent ELSE par[d]
    BY <2>1
  <2>3. \A d \in ds : nl2[d] = IF d \in off THEN 2 + Cardinality(Kids(es, ds, d)) ELSE nl[d]
    BY <2>1
  <2> QED
    BY <1>1, <2>2, <2>3
<1>7. nl2 \in [Inos -> Nat]
  <2>1. \A d \in Inos : 2 + Cardinality(Kids(es, ds, d)) \in Nat /\ nl[d] \in Nat
    BY <1>4, KidsCounted
  <2> QED
    BY <2>1
<1> HIDE DEF par2, nl2
<1>8. i # Root /\ ~Pending(Tail(todo), "dotdot")
  BY <1>1, <1>2, <1>4, FirstDotdot DEF Placed
<1>9. Meant(inode, data, stale', miscounted', par2, nl2)
  BY <1>1, <1>3, <1>6, <1>7, <1>8 DEF Meant
<1> HIDE DEF ds
<1>10. Placed(es, ds, orphans, par2, <<>>)
  <2>1. Placed(es, ds, orphans, par2, Tail(todo))
    BY <1>1, <1>2, <1>4, <1>6, PlacedAfterQuiet
  <2>2. Leaving(es, Tail(todo)) = {}
    BY <1>1, <1>2, LooseAndLeaving
  <2> QED
    BY <1>8, <2>1, <2>2, PlacedToRest
<1>11. Counted(es, ds, nl2, <<>>)
  <2>1. Quiet(todo[1]) /\ Counted(es, ds, nl, todo) /\ nl \in [Inos -> Nat] /\ ds \in SUBSET Inos
    BY <1>1, <1>4
  <2>2. Recounted(es, ds, off, nl, nl2)
    BY <1>6 DEF Recounted
  <2> QED
    BY <1>5, <2>1, <2>2, CountedAfterFault
<1>12. /\ EntriesIn(inode', data') = es /\ DirsIn(inode') = ds /\ orphans' = orphans /\ inode' = inode /\ data' = data
  BY <1>1 DEF es, ds
<1> QED
  BY <1>1, <1>4, <1>9, <1>10, <1>11, <1>12, MemorySound

\* An operation fails.
LEMMA GivenUpSound ==
    ASSUME NamespaceInv, TreeInv, todo # <<>>, todo' = <<>>, todo[1].do \in {"link", "dir", "drop", "flush"},
           UNCHANGED <<inode, data, stale, miscounted, disk, whole>>, orphans' \subseteq orphans \cup Loose(todo)
    PROVE  TreeInv'
<1> DEFINE es == EntriesIn(inode, data)
           ds == DirsIn(inode)
<1>1. /\ ~torn /\ InTree(es, LiveIn(inode), ds, orphans, todo) /\ Rest(Tail(todo), todo) /\ 1 \in DOMAIN todo
  BY HeadIs DEF Rest
<1>2. PICK par, nl : Meant(inode, data, stale, miscounted, par, nl) /\ Fits(inode, data, orphans, par, nl, todo)
  BY <1>1, SoundIs
<1>3. /\ Placed(es, ds, orphans, par, todo) /\ Counted(es, ds, nl, todo)
      /\ \A d \in ds : inode[d].blocks # <<>>
  BY <1>1, <1>2, SoundIs DEF Fits
<1> HIDE DEF es, ds
<1>4. Placed(es, ds, orphans', par, <<>>)
  BY <1>1, <1>3, PlacedAfterGivingUp
<1>5. Counted(es, ds, nl, <<>>)
  BY <1>1, <1>3, CountedAfterGivingUp
<1>6. /\ EntriesIn(inode', data') = es /\ DirsIn(inode') = ds /\ inode' = inode /\ data' = data
      /\ stale' = stale /\ miscounted' = miscounted
  BY DEF es, ds
<1> QED
  BY <1>2, <1>3, <1>4, <1>5, <1>6, MemorySound

\* The other places where an operation can fail.
LEMMA FailsSound ==
    ASSUME NamespaceInv, TreeInv, LinkFails \/ MakeDirectoryFails \/ FreeFails \/ FlushFails
    PROVE  TreeInv'
<1>1. /\ todo # <<>> /\ Head(todo) = todo[1] /\ ~torn /\ todo[1].do \in {"link", "dir", "drop", "flush"}
      /\ todo' = <<>> /\ UNCHANGED <<inode, data, stale, miscounted, disk, whole>>
      /\ \/ LinkFails \/ orphans' = orphans
         \/ todo[1].do = "drop" /\ orphans' = orphans \cup {todo[1].ino}
  BY HeadIs DEF LinkFails, MakeDirectoryFails, FreeFails, FlushFails, GiveUp, Doing
<1>2. CASE LinkFails
  <2> DEFINE i  == todo[1].ino
             es == EntriesIn(inode, data)
  <2>1. todo[1].do = "link" /\ i \in Inos
    BY <1>2, LinkHead DEF LinkFails
  <2>2. orphans' = orphans \cup {j \in {i} : Links(j) = {}}
    BY <1>1, <1>2 DEF LinkFails
  <2>3. InTree(es, LiveIn(inode), DirsIn(inode), orphans, todo) /\ Rest(Tail(todo), todo) /\ MemoryTyped
    BY <1>1, HeadIs, Here
  <2>4. CASE Follows(todo, 1, "remove")
    <3>1. PICK e \in es : e.ino = i
      BY <2>1, <2>3, <2>4, AfterTheLink
    <3>2. Links(i) # {}
      BY <2>1, <2>3, <3>1, LinksIs
    <3>3. orphans' \subseteq orphans
      BY <2>2, <3>2
    <3> QED
      BY <1>1, <3>3, GivenUpSound
  <2>5. CASE ~Follows(todo, 1, "remove")
    <3>1. Loose(todo) = {i}
      BY <2>1, <2>3, <2>5, AfterTheLink
    <3>2. orphans' \subseteq orphans \cup Loose(todo)
      BY <2>2, <3>1
    <3> QED
      BY <1>1, <3>2, GivenUpSound
  <2> QED
    BY <2>4, <2>5
<1>3. CASE ~LinkFails
  <2>1. orphans' \subseteq orphans \cup Loose(todo)
    BY <1>1, <1>3 DEF Loose, Unlinks
  <2> QED
    BY <1>1, <2>1, GivenUpSound
<1> QED
  BY <1>2, <1>3

\* A carrier is saved: the last one leaves disk and memory the same.
LEMMA FlushSound ==
    ASSUME NamespaceInv, TreeInv, Flush
    PROVE  TreeInv'
<1> DEFINE es == EntriesIn(inode, data)
           ds == DirsIn(inode)
<1>1. /\ todo # <<>> /\ Quiet(todo[1]) /\ todo[1].do = "flush" /\ todo' = Tail(todo) /\ ~torn
      /\ whole' = (disk' = Memory \/ (whole /\ disk' = disk))
      /\ UNCHANGED <<inode, data, orphans, stale, miscounted>>
  BY HeadIs DEF Flush, Doing, Quiet
<1>2. /\ InTree(es, LiveIn(inode), ds, orphans, todo) /\ Rest(Tail(todo), todo) /\ 1 \in DOMAIN todo
  BY <1>1, HeadIs DEF Rest
<1>3. PICK par, nl : Meant(inode, data, stale, miscounted, par, nl) /\ Fits(inode, data, orphans, par, nl, todo)
  BY <1>1, SoundIs
<1>4. /\ Placed(es, ds, orphans, par, todo) /\ Counted(es, ds, nl, todo)
      /\ \A d \in ds : inode[d].blocks # <<>>
      /\ ds \in SUBSET Inos /\ nl \in [Inos -> Nat]
  BY <1>1, <1>3, SoundIs DEF Meant, Fits
<1> HIDE DEF es, ds
<1>5. Placed(es, ds, orphans, par, Tail(todo)) /\ Counted(es, ds, nl, Tail(todo))
  BY <1>1, <1>2, <1>4, PlacedAfterQuiet, CountedAfterQuiet
<1>6. Placed(es, ds, orphans, par, <<>>) /\ Counted(es, ds, nl, <<>>)
  BY <1>1, <1>2, <1>4, PlacedAfterGivingUp, CountedAfterGivingUp
<1>7. /\ Sound(inode, data, orphans, stale, miscounted, Tail(todo))
      /\ Sound(inode, data, orphans, stale, miscounted, <<>>)
  BY <1>3, <1>4, <1>5, <1>6 DEF Sound, Fits, es, ds
<1>8. Sound(inode', data', orphans', stale', miscounted', todo')
  BY <1>1, <1>7
<1>9. whole' => Sound(disk'.inode, disk'.data, disk'.orphans, disk'.stale, disk'.miscounted, <<>>)
  <2>1. CASE disk' = Memory
    <3>1. /\ disk'.inode = inode /\ disk'.data = data /\ disk'.orphans = orphans
          /\ disk'.stale = stale /\ disk'.miscounted = miscounted
      BY <2>1 DEF Memory
    <3> QED
      BY <1>7, <3>1
  <2>2. CASE whole /\ disk' = disk
    BY <2>2 DEF TreeInv
  <2> QED
    BY <1>1, <2>1, <2>2
<1> QED
  BY <1>8, <1>9 DEF TreeInv

\* After a restart, memory is what the carriers hold.
LEMMA ReopenSound ==
    ASSUME TreeInv, NamespaceInv, Reopen
    PROVE  TreeInv'
<1>1. /\ inode' = disk.inode /\ data' = disk.data /\ orphans' = disk.orphans
      /\ stale' = disk.stale /\ miscounted' = disk.miscounted
      /\ todo' = <<>> /\ torn' = ~whole /\ disk' = disk /\ whole' = whole
  BY DEF Reopen
<1>2. whole => Sound(disk.inode, disk.data, disk.orphans, disk.stale, disk.miscounted, <<>>)
  BY DEF TreeInv
<1>3. whole \in BOOLEAN
  BY DEF NamespaceInv, TypeOK
<1> QED
  BY <1>1, <1>2, <1>3 DEF TreeInv

\* A formatted pool has a root that is its own parent.
LEMMA SoundAtFirst == Init => TreeInv
<1> SUFFICES ASSUME Init PROVE TreeInv
  OBVIOUS
<1> DEFINE es == EntriesIn(inode, data)
           ds == DirsIn(inode)
<1>1. /\ orphans = {} /\ stale = {} /\ miscounted = {} /\ disk = Memory /\ todo = <<>>
  BY DEF Init
<1>2. /\ Root \in Inos /\ 1 \in Blocks
  BY Numbers, NamespaceAssumption DEF Blocks
<1>3. NamespaceInv /\ ~torn
  BY InitInv DEF Init
<1>4. /\ inode[Root].nlink = 2 /\ inode[Root].blocks = <<1>> /\ inode[Root].kind = "dir"
      /\ \A i \in Inos \ {Root} : inode[i].kind = "free"
  BY <1>2 DEF Init, FreeInode
<1>5. data[1].dotdot = Root /\ \A b \in Blocks, n \in Names : data[b].names[n] = 0
  <2>1. data[1] = [ZeroBlock EXCEPT !.dotdot = Root] /\ \A b \in Blocks \ {1} : data[b] = ZeroBlock
    BY <1>2 DEF Init
  <2>2. [ZeroBlock EXCEPT !.dotdot = Root].dotdot = Root
    BY DEF ZeroBlock
  <2>3. /\ \A n \in Names : ZeroBlock.names[n] = 0
        /\ \A n \in Names : [ZeroBlock EXCEPT !.dotdot = Root].names[n] = 0
    BY Zeros
  <2> QED
    BY <2>1, <2>2, <2>3
<1>6. ds = {Root}
  BY <1>2, <1>4 DEF DirsIn
<1>7. es = {}
  <2> SUFFICES ASSUME NEW e \in es PROVE FALSE
    OBVIOUS
  <2>1. e \in Entry /\ data[e.block].names[e.name] = e.ino
    BY DEF EntriesIn
  <2> HIDE DEF es
  <2>2. e.ino = 0
    BY <1>5, <2>1, Entries
  <2> QED
    BY <2>1, <2>2, Entries, Numbers
<1>8. Head(inode[Root].blocks) = 1 /\ inode[Root].blocks # <<>>
  BY <1>4
<1>9. Parents(inode, data)[Root] = Root /\ Counts(inode)[Root] = 2
  BY <1>2, <1>4, <1>5, <1>8, ParentsAndCounts
<1> DEFINE no == <<>>
<1>10. DOMAIN no = {}
  OBVIOUS
<1>11. Placed({}, {Root}, {}, Parents(inode, data), no)
  <2>1. Acyclic({}) /\ LinksBelow({}, {}, no)
    BY <1>10 DEF Acyclic, LinksBelow
  <2>2. Agrees({}, {Root}, Parents(inode, data), no) /\ DotdotsOK({}, {Root}, no)
    BY <1>9, <1>10 DEF Agrees, DotdotsOK
  <2> QED
    BY <2>1, <2>2 DEF Placed
<1>12. Counted({}, {Root}, Counts(inode), no)
  <2>1. \A d \in {Root} : Kids({} \ Gone({}, no), {Root}, d) = {}
    BY DEF Kids
  <2>2. \A op, d : Owes(no, op, d) = 0
    BY <1>10 DEF Owes, Owed
  <2>3. CountsOK({}, {Root}, Counts(inode), no)
    <3>1. Cardinality({}) = 0 /\ Owes(no, "more", Root) = 0 /\ Owes(no, "less", Root) = 0
      BY <2>2, FS_EmptySet
    <3>2. Kids({} \ Gone({}, no), {Root}, Root) = {}
      BY <2>1
    <3>3. 2 + 0 = 2 + 0 + 0
      OBVIOUS
    <3> QED
      BY <1>9, <3>1, <3>2, <3>3 DEF CountsOK
  <2>4. OrderOK(no) /\ LinkCountsOK({Root}, no)
    BY <1>10 DEF OrderOK, LinkCountsOK
  <2> QED
    BY <2>3, <2>4 DEF Counted
<1>13. Meant(inode, data, {}, {}, Parents(inode, data), Counts(inode))
  <2>1. \A d \in Inos : inode[d].nlink \in Nat
    BY <1>3, Here DEF MemoryTyped, Inode
  <2> QED
    BY <2>1 DEF Meant, Counts
<1>14. Sound(inode, data, orphans, stale, miscounted, <<>>)
  BY <1>1, <1>6, <1>7, <1>8, <1>11, <1>12, <1>13 DEF Sound, Fits
<1>15. /\ disk.inode = inode /\ disk.data = data /\ disk.orphans = orphans
       /\ disk.stale = stale /\ disk.miscounted = miscounted
  BY <1>1 DEF Memory
<1> QED
  BY <1>1, <1>14, <1>15 DEF TreeInv

-----------------------------------------------------------------------------
(* How the plan of each operation relies on the tree and the counts         *)

\* What is so when an operation begins.
LEMMA SoundAtRest ==
    ASSUME NamespaceInv, TreeInv, Idle
    PROVE  /\ InTree(EntriesIn(inode, data), LiveIn(inode), DirsIn(inode), orphans, <<>>)
           /\ \E par, nl : /\ Meant(inode, data, stale, miscounted, par, nl) /\ nl \in [Inos -> Nat]
                           /\ Placed(EntriesIn(inode, data), DirsIn(inode), orphans, par, <<>>)
                           /\ Counted(EntriesIn(inode, data), DirsIn(inode), nl, <<>>)
           /\ DirsIn(inode) \in SUBSET Inos
           /\ \A d \in DirsIn(inode) : inode[d].blocks # <<>>
           /\ home \in Layouts /\ ~torn
<1>1. todo = <<>> /\ ~torn
  BY DEF Idle
<1>2. PICK par, nl : Meant(inode, data, stale, miscounted, par, nl) /\ Fits(inode, data, orphans, par, nl, <<>>)
  BY <1>1, SoundIs
<1>3. /\ nl \in [Inos -> Nat]
      /\ Placed(EntriesIn(inode, data), DirsIn(inode), orphans, par, <<>>)
      /\ Counted(EntriesIn(inode, data), DirsIn(inode), nl, <<>>)
  BY <1>2 DEF Meant, Fits
<1> QED
  BY <1>1, <1>2, <1>3, SoundIs, Here, AtRest

\* An operation begins with a plan that is right for the tree.
LEMMA BeginSound ==
    ASSUME NamespaceInv, TreeInv, Idle, NEW plan, Begin(plan),
           NEW par, NEW nl, Meant(inode, data, stale, miscounted, par, nl),
           Placed(EntriesIn(inode, data), DirsIn(inode), orphans, par, plan),
           Counted(EntriesIn(inode, data), DirsIn(inode), nl, plan)
    PROVE  TreeInv'
<1>1. todo' = plan /\ UNCHANGED <<inode, data, orphans, stale, miscounted, disk, whole>>
  BY DEF Begin
<1>2. \A d \in DirsIn(inode) : inode[d].blocks # <<>>
  BY SoundAtRest
<1>3. Sound(inode, data, orphans, stale, miscounted, plan)
  BY <1>2 DEF Sound, Fits
<1>4. Sound(inode', data', orphans', stale', miscounted', todo')
  BY <1>1, <1>3
<1> QED
  BY <1>1, <1>4 DEF TreeInv

\* A directory that the kernel knows has a name.
LEMMA KnownHasName ==
    ASSUME NamespaceInv, Idle, NEW p \in Inos, Known(p)
    PROVE  p \in DirsIn(inode) /\ p \notin orphans
<1>1. /\ InTree(EntriesIn(inode, data), LiveIn(inode), DirsIn(inode), orphans, <<>>) /\ MemoryTyped
      /\ Dirs = DirsIn(inode) /\ p \in Dirs
  BY AtRest
<1>2. Tree(EntriesIn(inode, data), LiveIn(inode), orphans) /\ DirsIn(inode) \subseteq LiveIn(inode)
  BY <1>1, NothingPlanned DEF InTree
<1>3. CASE p = Root
  BY <1>1, <1>2, <1>3 DEF Tree
<1>4. CASE p # Root
  <2>1. Links(p) # {}
    BY <1>4 DEF Known
  <2>2. \E e \in EntriesIn(inode, data) : e.ino = p
    BY <1>1, <2>1, LinksIs
  <2> QED
    BY <1>1, <1>2, <1>4, <2>2 DEF Tree
<1> QED
  BY <1>3, <1>4

\* Changes and then the carriers.
IsThenSync(h, t) == h \in Seq(Op) /\ t = h \o Sync

\* The changes of an operation come first, then the carriers.
LEMMA ThenSync ==
    ASSUME home \in Layouts, NEW h, NEW t, IsThenSync(h, t)
    PROVE  /\ t \in Seq(Op) /\ Len(h) \in Nat /\ Len(t) \in Nat /\ Len(t) >= Len(h) /\ DOMAIN t = 1..Len(t)
           /\ \A k \in 1..Len(h) : k \in DOMAIN t /\ t[k] = h[k]
           /\ \A k \in DOMAIN t : k > Len(h) => t[k].do = "flush"
<1> USE DEF IsThenSync
<1>1. Sync \in Seq(Op) /\ home.carriers \in Nat
  BY SyncIs, NamespaceAssumption
<1>2. DOMAIN Sync = 1..home.carriers /\ \A k \in 1..home.carriers : Sync[k].do = "flush"
  BY DEF Sync
<1>3. Len(Sync) = home.carriers
  BY <1>1, <1>2
<1> HIDE DEF Sync
<1>4. /\ t \in Seq(Op) /\ Len(t) = Len(h) + Len(Sync) /\ Len(h) \in Nat /\ DOMAIN t = 1..Len(h) + Len(Sync)
      /\ \A k \in 1..Len(h) + Len(Sync) : t[k] = IF k <= Len(h) THEN h[k] ELSE Sync[k - Len(h)]
  BY <1>1, ConcatProperties
<1>5. ASSUME NEW k \in DOMAIN t, k > Len(h) PROVE t[k].do = "flush"
  <2>1. k - Len(h) \in 1..home.carriers /\ ~(k <= Len(h))
    BY <1>1, <1>3, <1>4, <1>5
  <2> QED
    BY <1>2, <1>4, <2>1
<1> QED
  BY <1>1, <1>3, <1>4, <1>5

\* create.
LEMMA CreateSound ==
    ASSUME NamespaceInv, TreeInv, NEW p \in Inos, NEW n \in Names, Create(p, n)
    PROVE  TreeInv'
<1> DEFINE i == Min(FreeInos)
           a == [do |-> "file", ino |-> i]
           l == [do |-> "link", dir |-> p, name |-> n, ino |-> i]
           h == <<a, l>>
           t == h \o Sync
<1>1. Idle /\ p \in DirsIn(inode) /\ p \notin orphans /\ i \in Inos /\ i \notin LiveIn(inode)
  BY AtRest, FirstFreeInode, KnownHasName DEF Create
<1>2. Begin(t) /\ home \in Layouts
  BY <1>1, SoundAtRest DEF Create
<1> HIDE DEF i
<1>3. a \in Op /\ l \in Op
  BY <1>1, Ops
<1>4. h \in Seq(Op) /\ Len(h) = 2 /\ h[1] = a /\ h[2] = l
  BY <1>3
<1> HIDE DEF h
<1>5. /\ Len(t) \in Nat /\ Len(t) >= 2 /\ DOMAIN t = 1..Len(t) /\ t[1] = a /\ t[2] = l
      /\ \A k \in DOMAIN t : k > 2 => t[k].do = "flush"
  <2>1. /\ Len(t) \in Nat /\ Len(t) >= Len(h) /\ DOMAIN t = 1..Len(t)
        /\ \A k \in 1..Len(h) : k \in DOMAIN t /\ t[k] = h[k]
        /\ \A k \in DOMAIN t : k > Len(h) => t[k].do = "flush"
    <3>1. IsThenSync(h, t)
      BY <1>4 DEF IsThenSync
    <3> QED
      BY <1>2, <3>1, ThenSync
  <2>2. 1 \in 1..Len(h) /\ 2 \in 1..Len(h)
    BY <1>4
  <2> QED
    BY <1>4, <2>1, <2>2
<1> HIDE DEF t
<1>6. IsMaking(t, Len(t))
  BY <1>5 DEF IsMaking, Makes
<1>7. PICK par, nl : /\ Meant(inode, data, stale, miscounted, par, nl)
                    /\ Placed(EntriesIn(inode, data), DirsIn(inode), orphans, par, <<>>)
                    /\ Counted(EntriesIn(inode, data), DirsIn(inode), nl, <<>>)
  BY <1>1, SoundAtRest
<1>8. /\ Placed(EntriesIn(inode, data), DirsIn(inode), orphans, par, t)
      /\ Counted(EntriesIn(inode, data), DirsIn(inode), nl, t)
  <2>1. /\ InTree(EntriesIn(inode, data), LiveIn(inode), DirsIn(inode), orphans, <<>>)
        /\ DirsIn(inode) \in SUBSET Inos
    BY <1>1, SoundAtRest
  <2>2. t[1].ino \notin LiveIn(inode) /\ t[2].dir \in Inos \ orphans /\ t[2].dir \in DirsIn(inode)
    BY <1>1, <1>5
  <2> QED
    BY <1>6, <1>7, <2>1, <2>2, SoundToMake
<1> QED
  BY <1>1, <1>2, <1>7, <1>8, BeginSound

\* mkdir.
LEMMA MkdirSound ==
    ASSUME NamespaceInv, TreeInv, NEW p \in Inos, NEW n \in Names, Mkdir(p, n)
    PROVE  TreeInv'
<1> DEFINE i == Min(FreeInos)
           a == [do |-> "dir", ino |-> i, parent |-> p]
           l == [do |-> "link", dir |-> p, name |-> n, ino |-> i]
           c == [do |-> "more", ino |-> p]
           h == <<a, l, c>>
           t == h \o Sync
<1>1. Idle /\ p \in DirsIn(inode) /\ p \notin orphans /\ i \in Inos /\ i \notin LiveIn(inode)
  BY AtRest, FirstFreeInode, KnownHasName DEF Mkdir
<1>2. Begin(t) /\ home \in Layouts
  BY <1>1, SoundAtRest DEF Mkdir
<1> HIDE DEF i
<1>3. a \in Op /\ l \in Op /\ c \in Op
  BY <1>1, Ops
<1>4. h \in Seq(Op) /\ Len(h) = 3 /\ h[1] = a /\ h[2] = l /\ h[3] = c
  BY <1>3
<1> HIDE DEF h
<1>5. /\ Len(t) \in Nat /\ Len(t) >= 3 /\ DOMAIN t = 1..Len(t) /\ t[1] = a /\ t[2] = l /\ t[3] = c
      /\ \A k \in DOMAIN t : k > 3 => t[k].do = "flush"
  <2>1. /\ Len(t) \in Nat /\ Len(t) >= Len(h) /\ DOMAIN t = 1..Len(t)
        /\ \A k \in 1..Len(h) : k \in DOMAIN t /\ t[k] = h[k]
        /\ \A k \in DOMAIN t : k > Len(h) => t[k].do = "flush"
    <3>1. IsThenSync(h, t)
      BY <1>4 DEF IsThenSync
    <3> QED
      BY <1>2, <3>1, ThenSync
  <2>2. 1 \in 1..Len(h) /\ 2 \in 1..Len(h) /\ 3 \in 1..Len(h)
    BY <1>4
  <2> QED
    BY <1>4, <2>1, <2>2
<1> HIDE DEF t
<1>6. \A k \in DOMAIN t : k > 2 => t[k].do = "flush" \/ (k = 3 /\ t[1].do = "dir")
  BY <1>5
<1>7. IsMaking(t, Len(t))
  BY <1>5, <1>6 DEF IsMaking, Makes
<1>8. PICK par, nl : /\ Meant(inode, data, stale, miscounted, par, nl)
                    /\ Placed(EntriesIn(inode, data), DirsIn(inode), orphans, par, <<>>)
                    /\ Counted(EntriesIn(inode, data), DirsIn(inode), nl, <<>>)
  BY <1>1, SoundAtRest
<1>9. /\ Placed(EntriesIn(inode, data), DirsIn(inode), orphans, par, t)
      /\ Counted(EntriesIn(inode, data), DirsIn(inode), nl, t)
  <2>1. /\ InTree(EntriesIn(inode, data), LiveIn(inode), DirsIn(inode), orphans, <<>>)
        /\ DirsIn(inode) \in SUBSET Inos
    BY <1>1, SoundAtRest
  <2>2. t[1].ino \notin LiveIn(inode) /\ t[2].dir \in Inos \ orphans /\ t[2].dir \in DirsIn(inode)
    BY <1>1, <1>5
  <2> QED
    BY <1>7, <1>8, <2>1, <2>2, SoundToMake
<1> QED
  BY <1>1, <1>2, <1>8, <1>9, BeginSound

\* The plans of unlink and rmdir, for what each is for.
LEMMA RemovingPlans ==
    ASSUME NamespaceInv, Idle, NEW p \in Dirs, NEW n \in Names, Lookup(p, n) \in Live,
           NEW t, t = IF Lookup(p, n) \in Dirs THEN RmdirPlan(p, n) ELSE UnlinkPlan(p, n)
    PROVE  /\ t \in Seq(Op) /\ DOMAIN t = 1..Len(t) /\ Len(t) \in Nat
           /\ IsRemoving(EntriesIn(inode, data), DirsIn(inode), t, Len(t) + 1)
<1> DEFINE i == Lookup(p, n)
           r == [do |-> "remove", dir |-> p, name |-> n]
           u == [do |-> "drop", ino |-> i]
           f == [do |-> "free", ino |-> i]
           c == [do |-> "less", ino |-> p]
           g == <<r, u>>
           h == <<r, f, c>>
           es == EntriesIn(inode, data)
<1>1. UnlinkPlan(p, n) = g \o Sync /\ RmdirPlan(p, n) = h \o Sync
  BY DEF UnlinkPlan, RmdirPlan
<1>2. i \in Inos /\ p \in Inos /\ Dirs = DirsIn(inode) /\ home \in Layouts
  BY AtRest, Here DEF Idle
<1>3. \E e \in es : e.dir = p /\ e.name = n /\ e.ino = i
  BY Found
<1> HIDE DEF i, es
<1>4. r \in Op /\ u \in Op /\ f \in Op /\ c \in Op
  BY <1>2, Ops
<1>5. h \in Seq(Op) /\ Len(h) = 3 /\ h[1] = r /\ h[2] = f /\ h[3] = c
  BY <1>4
<1>6. g \in Seq(Op) /\ Len(g) = 2 /\ g[1] = r /\ g[2] = u
  BY <1>4
<1> HIDE DEF g, h
<1>7. CASE i \in Dirs
  <2>1. t = h \o Sync
    BY <1>1, <1>7 DEF i
  <2>2. /\ t \in Seq(Op) /\ Len(t) \in Nat /\ Len(t) >= Len(h) /\ DOMAIN t = 1..Len(t)
        /\ \A k \in 1..Len(h) : k \in DOMAIN t /\ t[k] = h[k]
        /\ \A k \in DOMAIN t : k > Len(h) => t[k].do = "flush"
    <3>1. IsThenSync(h, t)
      BY <1>5, <2>1 DEF IsThenSync
    <3> QED
      BY <1>2, <3>1, ThenSync
  <2>3. 1 \in 1..Len(h) /\ 2 \in 1..Len(h) /\ 3 \in 1..Len(h)
    BY <1>5
  <2>4. t[1] = r /\ t[2] = f /\ t[3] = c /\ Len(t) >= 3
    BY <1>5, <2>2, <2>3
  <2>5. 1..((Len(t) + 1) - 1) = DOMAIN t /\ Len(t) + 1 \in Nat /\ Len(t) + 1 > 3
    BY <2>2, <2>4
  <2>6. \A k \in DOMAIN t : k > 2 => t[k].do = "flush" \/ (k = 3 /\ t[2].ino \in DirsIn(inode))
    BY <1>2, <1>5, <1>7, <2>2, <2>4
  <2>7. Unlinks(t[2]) /\ t[2].do = "free" /\ \E e \in es : Of(e, t[1]) /\ e.ino = t[2].ino
    BY <1>3, <2>4 DEF Unlinks, Of
  <2>8. IsRemoving(es, DirsIn(inode), t, Len(t) + 1)
    BY <2>4, <2>5, <2>6, <2>7 DEF IsRemoving
  <2> QED
    BY <2>2, <2>8 DEF es
<1>8. CASE i \notin Dirs
  <2>1. t = g \o Sync
    BY <1>1, <1>8 DEF i
  <2>2. /\ t \in Seq(Op) /\ Len(t) \in Nat /\ Len(t) >= Len(g) /\ DOMAIN t = 1..Len(t)
        /\ \A k \in 1..Len(g) : k \in DOMAIN t /\ t[k] = g[k]
        /\ \A k \in DOMAIN t : k > Len(g) => t[k].do = "flush"
    <3>1. IsThenSync(g, t)
      BY <1>6, <2>1 DEF IsThenSync
    <3> QED
      BY <1>2, <3>1, ThenSync
  <2>3. 1 \in 1..Len(g) /\ 2 \in 1..Len(g)
    BY <1>6
  <2>4. t[1] = r /\ t[2] = u /\ Len(t) >= 2
    BY <1>6, <2>2, <2>3
  <2>5. 1..((Len(t) + 1) - 1) = DOMAIN t /\ Len(t) + 1 \in Nat /\ Len(t) + 1 > 2
    BY <2>2, <2>4
  <2>6. \A k \in DOMAIN t : k > 2 => t[k].do = "flush"
    BY <1>6, <2>2
  <2>7. Unlinks(t[2]) /\ t[2].ino \notin DirsIn(inode) /\ \E e \in es : Of(e, t[1]) /\ e.ino = t[2].ino
    BY <1>2, <1>3, <1>8, <2>4 DEF Unlinks, Of
  <2>8. IsRemoving(es, DirsIn(inode), t, Len(t) + 1)
    BY <2>4, <2>5, <2>6, <2>7 DEF IsRemoving
  <2> QED
    BY <2>2, <2>8 DEF es
<1> QED
  BY <1>7, <1>8

\* unlink and rmdir.
LEMMA RemovalSound ==
    ASSUME NamespaceInv, TreeInv, Idle, NEW p \in Dirs, NEW n \in Names, Lookup(p, n) \in Live,
           NEW t, t = IF Lookup(p, n) \in Dirs THEN RmdirPlan(p, n) ELSE UnlinkPlan(p, n), Begin(t)
    PROVE  TreeInv'
<1> DEFINE es == EntriesIn(inode, data)
           ds == DirsIn(inode)
           L  == Len(t) + 1
<1>1. DOMAIN t = 1..Len(t) /\ Len(t) \in Nat /\ IsRemoving(es, ds, t, L)
  BY RemovingPlans
<1>2. DOMAIN t = 1..(L - 1)
  BY <1>1
<1>3. InTree(es, LiveIn(inode), ds, orphans, <<>>) /\ ds \in SUBSET Inos
  BY SoundAtRest
<1>4. PICK par, nl : /\ Meant(inode, data, stale, miscounted, par, nl) /\ nl \in [Inos -> Nat]
                    /\ Placed(es, ds, orphans, par, <<>>) /\ Counted(es, ds, nl, <<>>)
  BY SoundAtRest
<1> HIDE DEF es, ds, L
<1>5. Placed(es, ds, orphans, par, t) /\ Counted(es, ds, nl, t)
  BY <1>1, <1>2, <1>3, <1>4, SoundToRemove
<1> QED
  BY <1>4, <1>5, BeginSound DEF es, ds

-----------------------------------------------------------------------------
(* Going up                                                                 *)

\* f goes up n times from directory d.
IsUp(f, d, n) == f = [k \in 0..n |-> IF k = 0 THEN d ELSE Up(f[k - 1])]

\* Above goes from a directory to the one that names it, at most InodeCount times.
LEMMA GoesUp ==
    ASSUME NEW d
    PROVE  \E f : IsUp(f, d, InodeCount) /\ Above(d) = {f[k] : k \in 0..InodeCount}
<1> DEFINE S == {n \in Nat : ~ \E f : IsUp(f, d, n)}
<1>1. S = {}
  <2> SUFFICES ASSUME S # {} PROVE FALSE
    OBVIOUS
  <2>1. S \in SUBSET Nat
    OBVIOUS
  <2> HIDE DEF S
  <2>2. PICK n \in S : \A m \in S : n <= m
    BY <2>1, LeastExists
  <2>3. n \in Nat /\ ~ \E f : IsUp(f, d, n)
    BY <2>2 DEF S
  <2>4. CASE n = 0
    <3> DEFINE f == [k \in 0..0 |-> d]
    <3>1. f = [k \in 0..0 |-> IF k = 0 THEN d ELSE Up(f[k - 1])]
      OBVIOUS
    <3> QED
      BY <2>3, <2>4, <3>1 DEF IsUp
  <2>5. CASE n # 0
    <3>1. n - 1 \in Nat /\ ~(n <= n - 1)
      BY <2>3, <2>5
    <3>2. PICK g : IsUp(g, d, n - 1)
      BY <2>2, <3>1 DEF S
    <3> DEFINE f == [k \in 0..n |-> IF k = 0 THEN d ELSE Up(g[k - 1])]
    <3>3. \A k \in 0..(n - 1) : g[k] = IF k = 0 THEN d ELSE Up(g[k - 1])
      BY <3>2 DEF IsUp
    <3>4. \A k \in 0..(n - 1) : f[k] = g[k]
      BY <2>3, <3>1, <3>3
    <3>5. \A k \in 0..n : k # 0 => k - 1 \in 0..(n - 1)
      BY <2>3
    <3>6. \A k \in 0..n : (IF k = 0 THEN d ELSE Up(g[k - 1])) = (IF k = 0 THEN d ELSE Up(f[k - 1]))
      BY <3>4, <3>5
    <3>7. f = [k \in 0..n |-> IF k = 0 THEN d ELSE Up(f[k - 1])]
      BY <3>6
    <3> QED
      BY <2>3, <3>7 DEF IsUp
  <2> QED
    BY <2>4, <2>5
<1> HIDE DEF S
<1>2. \E f : IsUp(f, d, InodeCount)
  BY <1>1, NamespaceAssumption DEF S
<1> DEFINE up == CHOOSE f : f = [k \in 0..InodeCount |-> IF k = 0 THEN d ELSE Up(f[k - 1])]
<1>3. up = [k \in 0..InodeCount |-> IF k = 0 THEN d ELSE Up(up[k - 1])]
  BY <1>2 DEF IsUp
<1>4. Above(d) = {up[k] : k \in 0..InodeCount}
  BY DEF Above
<1> HIDE DEF up
<1> QED
  BY <1>3, <1>4 DEF IsUp

\* A directory that has a name, at rest: up is the directory that names it.
LEMMA OneUp ==
    ASSUME NamespaceInv, TreeInv, Idle, NEW d \in DirsIn(inode) \ orphans
    PROVE  /\ Up(d) \in DirsIn(inode) \ orphans
           /\ \A e \in EntriesIn(inode, data) : e.ino = d => e.dir = Up(d) /\ d # Root
           /\ d # Root => \E e \in EntriesIn(inode, data) : e.ino = d
<1> DEFINE es == EntriesIn(inode, data)
           ds == DirsIn(inode)
<1>1. InTree(es, LiveIn(inode), ds, orphans, <<>>) /\ d \in Inos /\ MemoryTyped
  BY SoundAtRest, AtRest
<1>2. \A e \in es : e.dir \notin orphans
  BY SoundAtRest, PlacedAtRest
<1>3. /\ \A l \in Links(d) : \E e \in es : e.ino = d /\ l = <<e.dir, e.block, e.name>>
      /\ \A e \in es : e.ino = d => <<e.dir, e.block, e.name>> \in Links(d)
  BY <1>1, LinksIs
<1> HIDE DEF es, ds
<1>4. Tree(es, LiveIn(inode), orphans)
  BY <1>1, NothingPlanned DEF InTree
<1>5. Root \in ds /\ ds \subseteq LiveIn(inode) /\ \A e \in es : e.dir \in ds /\ e.ino \in LiveIn(inode) \ {Root}
  BY <1>1 DEF InTree
<1>6. d \in ds
  BY DEF ds
<1>7. Root \notin orphans /\ (d # Root => \E e \in es : e.ino = d)
  BY <1>4, <1>5, <1>6 DEF Tree
<1>8. \A e \in es : e.ino = d => e.dir = Up(d) /\ d # Root
  <2> SUFFICES ASSUME NEW e \in es, e.ino = d PROVE e.dir = Up(d) /\ d # Root
    OBVIOUS
  <2>1. Links(d) # {}
    BY <1>3
  <2>2. PICK l \in Links(d) : Up(d) = l[1]
    BY <2>1 DEF Up
  <2>3. PICK f \in es : f.ino = d /\ l = <<f.dir, f.block, f.name>>
    BY <1>3
  <2>4. e = f
    BY <1>4, <2>3 DEF Tree
  <2> QED
    BY <1>5, <2>2, <2>3, <2>4
<1>9. d = Root => Up(d) = Root
  <2>1. d = Root => Links(d) = {}
    BY <1>3, <1>5
  <2> QED
    BY <2>1 DEF Up
<1>10. Up(d) \in ds \ orphans
  BY <1>2, <1>5, <1>6, <1>7, <1>8, <1>9
<1> QED
  BY <1>7, <1>8, <1>10 DEF es, ds

\* On the way up there are directories that have a name,
LEMMA WayUp ==
    ASSUME NamespaceInv, TreeInv, Idle, NEW d \in DirsIn(inode) \ orphans, NEW f, IsUp(f, d, InodeCount)
    PROVE  /\ InodeCount \in Nat /\ f[0] = d
           /\ \A k \in 0..InodeCount : f[k] \in DirsIn(inode) \ orphans
           /\ \A k \in 0..InodeCount : k # 0 => k - 1 \in 0..InodeCount /\ f[k] = Up(f[k - 1])
<1> DEFINE S  == {k \in 0..InodeCount : f[k] \notin DirsIn(inode) \ orphans}
<1>1. InodeCount \in Nat
  BY NamespaceAssumption
<1>2. f[0] = d /\ \A k \in 0..InodeCount : k # 0 => k - 1 \in 0..InodeCount /\ f[k] = Up(f[k - 1])
  BY <1>1 DEF IsUp
<1>3. S = {}
  <2> SUFFICES ASSUME S # {} PROVE FALSE
    OBVIOUS
  <2>1. S \in SUBSET Nat
    BY <1>1
  <2> HIDE DEF S
  <2>2. PICK n \in S : \A m \in S : n <= m
    BY <2>1, LeastExists
  <2>3. n \in 0..InodeCount /\ f[n] \notin DirsIn(inode) \ orphans
    BY <2>2 DEF S
  <2>4. n # 0
    BY <1>2, <2>3
  <2>5. n - 1 \in 0..InodeCount /\ f[n] = Up(f[n - 1]) /\ ~(n <= n - 1)
    BY <1>1, <1>2, <2>3, <2>4
  <2>6. f[n - 1] \in DirsIn(inode) \ orphans
    BY <2>2, <2>5 DEF S
  <2>7. Up(f[n - 1]) \in DirsIn(inode) \ orphans
    BY <2>6, OneUp
  <2> QED
    BY <2>3, <2>5, <2>7
<1> QED
  BY <1>1, <1>2, <1>3

\* and one of them is the root: else one of them would come twice, and be below itself.
LEMMA RootIsAbove ==
    ASSUME NamespaceInv, TreeInv, Idle, NEW d \in DirsIn(inode) \ orphans, NEW f, IsUp(f, d, InodeCount)
    PROVE  \E k \in 0..InodeCount : f[k] = Root
<1> SUFFICES ASSUME \A k \in 0..InodeCount : f[k] # Root PROVE FALSE
  OBVIOUS
<1> DEFINE es == EntriesIn(inode, data)
           N  == InodeCount
<1>1. /\ N \in Nat
      /\ \A k \in 0..N : f[k] \in DirsIn(inode) \ orphans
      /\ \A k \in 0..N : k # 0 => k - 1 \in 0..N /\ f[k] = Up(f[k - 1])
  BY WayUp
<1>2. \A k \in 0..N : f[k] \in Inos
  BY <1>1 DEF DirsIn
<1>3. PICK j \in 0..N, k \in 0..N : j # k /\ f[j] = f[k]
  <2> DEFINE g == [m \in 0..N |-> f[m]]
  <2>1. g \in [0..N -> Inos]
    BY <1>2
  <2>2. IsFiniteSet(0..N) /\ Cardinality(0..N) = N + 1
    <3>1. 0 \in Int /\ N \in Int /\ ~(0 > N) /\ N - 0 + 1 = N + 1
      BY <1>1
    <3> QED
      BY <3>1, FS_Interval
  <2>3. IsFiniteSet(Inos) /\ Cardinality(Inos) = N
    <3>1. 1 \in Int /\ N \in Int /\ (1 > N => N = 0) /\ N - 1 + 1 = N
      BY <1>1
    <3> QED
      BY <3>1, FS_Interval DEF Inos
  <2>4. Cardinality(Inos) < Cardinality(0..N)
    BY <1>1, <2>2, <2>3
  <2>5. \E j, k \in 0..N : j # k /\ g[j] = g[k]
    <3> DEFINE A == 0..N
    <3>1. g \in [A -> Inos] /\ IsFiniteSet(A) /\ IsFiniteSet(Inos) /\ Cardinality(Inos) < Cardinality(A)
      BY <2>1, <2>2, <2>3, <2>4
    <3> HIDE DEF g, A
    <3>2. \E j, k \in A : j # k /\ g[j] = g[k]
      BY <3>1, FS_PigeonHole
    <3> QED
      BY <3>2 DEF A
  <2> HIDE DEF g
  <2> QED
    BY <2>5 DEF g
<1>4. PICK a \in 0..N, b \in 0..N : a < b /\ f[a] = f[b]
  BY <1>1, <1>3
<1> DEFINE S == {f[m] : m \in a..(b - 1)}
<1>5. a \in a..(b - 1) /\ \A m \in a..(b - 1) : m \in 0..N /\ m + 1 \in 0..N /\ (m + 1) - 1 = m /\ m + 1 # 0
  BY <1>1, <1>4
<1>6. S \in SUBSET Inos /\ S # {}
  BY <1>2, <1>5
<1>7. \A m \in a..(b - 1) : f[m + 1] \in S
  <2> TAKE m \in a..(b - 1)
  <2>1. CASE m + 1 = b
    BY <1>4, <1>5, <2>1
  <2>2. CASE m + 1 # b
    <3>1. m + 1 \in a..(b - 1)
      BY <1>1, <1>4, <2>2
    <3> QED
      BY <3>1
  <2> QED
    BY <2>1, <2>2
<1>8. Acyclic(es)
  BY SoundAtRest, PlacedAtRest
<1> HIDE DEF S
<1>9. PICK x \in S : \A e \in es : e.ino = x => e.dir \notin S
  BY <1>6, <1>8 DEF Acyclic
<1>10. PICK m \in a..(b - 1) : x = f[m]
  BY <1>9 DEF S
<1>11. f[m + 1] = Up(f[m]) /\ f[m] \in DirsIn(inode) \ orphans /\ f[m] # Root
  BY <1>1, <1>5
<1>12. \E e \in es : e.ino = x /\ e.dir = f[m + 1]
  BY <1>10, <1>11, OneUp
<1> QED
  BY <1>7, <1>9, <1>12

\* What is above a directory, without an inode that it may not be moved to: what
\* the kernel tests is enough for the tree.
LEMMA AllowedIs ==
    ASSUME NamespaceInv, TreeInv, Idle, NEW q \in DirsIn(inode) \ orphans, NEW i, Allowed(i, q)
    PROVE  \E U \in SUBSET Inos : /\ q \in U /\ i \notin U
                                  /\ \A e \in EntriesIn(inode, data) : e.ino \in U => e.dir \in U
<1>1. PICK f : IsUp(f, q, InodeCount) /\ Above(q) = {f[k] : k \in 0..InodeCount}
  BY GoesUp
<1>2. /\ InodeCount \in Nat /\ f[0] = q
      /\ \A k \in 0..InodeCount : f[k] \in DirsIn(inode) \ orphans
      /\ \A k \in 0..InodeCount : k # 0 => k - 1 \in 0..InodeCount /\ f[k] = Up(f[k - 1])
  BY <1>1, WayUp
<1> DEFINE K == {k \in 0..InodeCount : f[k] = Root}
<1>3. K \in SUBSET Nat /\ K # {}
  BY <1>1, <1>2, RootIsAbove
<1> HIDE DEF K
<1>4. PICK m \in K : \A k \in K : m <= k
  BY <1>3, LeastExists
<1>5. m \in 0..InodeCount /\ f[m] = Root
  BY <1>4 DEF K
<1> DEFINE U == {f[k] : k \in 0..m}
<1>6. \A k \in 0..m : k \in 0..InodeCount
  BY <1>2, <1>5
<1>7. U \in SUBSET Inos /\ q \in U /\ i \notin U
  <2>1. 0 \in 0..m
    BY <1>2, <1>5
  <2>2. \A k \in 0..m : f[k] \in Inos
    BY <1>2, <1>6 DEF DirsIn
  <2>3. \A k \in 0..m : f[k] # i
    BY <1>1, <1>6 DEF Allowed
  <2> QED
    BY <1>2, <2>1, <2>2, <2>3
<1>8. ASSUME NEW e \in EntriesIn(inode, data), e.ino \in U PROVE e.dir \in U
  <2>1. PICK k \in 0..m : e.ino = f[k]
    BY <1>8
  <2>2. f[k] \in DirsIn(inode) \ orphans
    BY <1>2, <1>6
  <2>3. e.dir = Up(f[k]) /\ f[k] # Root
    BY <2>1, <2>2, OneUp
  <2>4. k # m
    BY <1>5, <2>3
  <2>5. k + 1 \in 0..m /\ k + 1 # 0 /\ (k + 1) - 1 = k
    BY <1>2, <1>5, <2>4
  <2>6. f[k + 1] = Up(f[k])
    BY <1>2, <1>6, <2>5
  <2> QED
    BY <2>3, <2>5, <2>6
<1> QED
  BY <1>7, <1>8

-----------------------------------------------------------------------------
(* Renames                                                                  *)

\* Changes at other places.
LEMMA RemovingSame ==
    ASSUME NEW es, NEW dirs, NEW t, NEW u, NEW L, IsRemoving(es, dirs, t, L),
           1..(L - 1) \subseteq DOMAIN u, \A k \in 1..(L - 1) : u[k] = t[k]
    PROVE  IsRemoving(es, dirs, u, L)
<1>1. L \in Nat /\ L > 2
  BY DEF IsRemoving
<1>2. 1 \in 1..(L - 1) /\ 2 \in 1..(L - 1) /\ (L > 3 => 3 \in 1..(L - 1))
  BY <1>1
<1>3. u[1] = t[1] /\ u[2] = t[2] /\ (L > 3 => u[3] = t[3])
  BY <1>2
<1> QED
  BY <1>1, <1>3 DEF IsRemoving

\* What a rename removes before.
LEMMA ReplacingIs ==
    ASSUME NamespaceInv, Idle, NEW q \in Dirs, NEW m \in Names, NEW i \in Live, Replaceable(i, Lookup(q, m)),
           NEW pre, pre = ReplacePlan(i, q, m)
    PROVE  /\ pre \in Seq(Op) /\ Len(pre) \in Nat /\ DOMAIN pre = 1..Len(pre)
           /\ \/ Len(pre) = 0
              \/ IsRemoving(EntriesIn(inode, data), DirsIn(inode), pre, Len(pre) + 1)
<1> DEFINE t == Lookup(q, m)
<1>1. CASE t = 0
  <2>1. pre = <<>>
    BY <1>1 DEF ReplacePlan
  <2>2. <<>> \in Seq(Op) /\ Len(<<>>) = 0 /\ 0 \in Nat /\ DOMAIN <<>> = 1..0
    OBVIOUS
  <2> QED
    BY <2>1, <2>2
<1>2. CASE t # 0
  <2>1. t \in Live /\ inode[t].kind = inode[i].kind
    BY <1>2 DEF Replaceable
  <2>2. t \in Dirs <=> inode[i].kind = "dir"
    BY <2>1, AtRest DEF Dirs
  <2>3. pre = IF t \in Dirs THEN RmdirPlan(q, m) ELSE UnlinkPlan(q, m)
    BY <1>2, <2>2 DEF ReplacePlan
  <2> QED
    BY <2>1, <2>3, RemovingPlans
<1> QED
  BY <1>1, <1>2

\* What a rename does at the end.
IsMoving(s, i, p, q) ==
    /\ i \in DirsIn(inode) /\ p # q =>
          /\ Len(s) >= 3
          /\ s[1].do = "dotdot" /\ s[1].ino = i /\ s[1].parent = q
          /\ s[2].do = "less" /\ s[2].ino = p
          /\ s[3].do = "more" /\ s[3].ino = q
    /\ \A k \in 1..Len(s) : s[k].do = "flush" \/ (i \in DirsIn(inode) /\ p # q /\ k <= 3)

IsMovePlan(s, i, p, q) == s = MovePlan(i, p, q) \o Sync

\* The end of a rename: "..", the two link counts and the sync.
LEMMA MovingIs ==
    ASSUME home \in Layouts, NEW i \in Inos, NEW p \in Inos, NEW q \in Inos, NEW s, IsMovePlan(s, i, p, q)
    PROVE  s \in Seq(Op) /\ Len(s) \in Nat /\ QuietPlan(s) /\ IsMoving(s, i, p, q)
<1> DEFINE a  == [do |-> "dotdot", ino |-> i, parent |-> q]
           b  == [do |-> "less", ino |-> p]
           c  == [do |-> "more", ino |-> q]
           mv == MovePlan(i, p, q)
<1>1. i \in DirsIn(inode) <=> inode[i].kind = "dir"
  BY DEF DirsIn
<1>2. mv = IF i \in DirsIn(inode) /\ p # q THEN <<a, b, c>> ELSE <<>>
  BY <1>1 DEF MovePlan
<1>3. mv \in Seq(Op) /\ QuietPlan(mv)
  BY MovePlanIs
<1>4. Sync \in Seq(Op) /\ QuietPlan(Sync)
  BY SyncIs
<1>5. s = mv \o Sync
  BY DEF IsMovePlan
<1>6. s \in Seq(Op) /\ QuietPlan(s)
  <2> HIDE DEF mv
  <2> QED
    BY <1>3, <1>4, <1>5, QuietConcat
<1> DEFINE g == <<a, b, c>>
<1>7. a \in Op /\ b \in Op /\ c \in Op
  BY Ops
<1>8. g \in Seq(Op) /\ Len(g) = 3 /\ g[1] = a /\ g[2] = b /\ g[3] = c
  BY <1>7
<1>9. CASE i \in DirsIn(inode) /\ p # q
  <2>1. s = g \o Sync
    BY <1>2, <1>5, <1>9
  <2> HIDE DEF g
  <2>2. IsThenSync(g, s)
    BY <1>8, <2>1 DEF IsThenSync
  <2>3. /\ Len(s) \in Nat /\ Len(s) >= Len(g) /\ DOMAIN s = 1..Len(s)
        /\ \A k \in 1..Len(g) : k \in DOMAIN s /\ s[k] = g[k]
        /\ \A k \in DOMAIN s : k > Len(g) => s[k].do = "flush"
    BY <2>2, ThenSync
  <2>4. 1 \in 1..Len(g) /\ 2 \in 1..Len(g) /\ 3 \in 1..Len(g)
    BY <1>8
  <2>5. s[1] = a /\ s[2] = b /\ s[3] = c /\ Len(s) >= 3
    BY <1>8, <2>3, <2>4
  <2>6. ASSUME NEW k \in 1..Len(s) PROVE s[k].do = "flush" \/ k <= 3
    BY <1>8, <2>3
  <2>7. /\ s[1].do = "dotdot" /\ s[1].ino = i /\ s[1].parent = q
        /\ s[2].do = "less" /\ s[2].ino = p /\ s[3].do = "more" /\ s[3].ino = q
    BY <2>5
  <2>8. IsMoving(s, i, p, q)
    BY <1>9, <2>5, <2>6, <2>7 DEF IsMoving
  <2> QED
    BY <1>6, <2>3, <2>8
<1>10. CASE ~(i \in DirsIn(inode) /\ p # q)
  <2> DEFINE o == <<>>
  <2>1. s = o \o Sync /\ o \in Seq(Op) /\ Len(o) = 0
    <3>1. mv = o
      BY <1>2, <1>10
    <3>2. s = o \o Sync
      BY <1>5, <3>1
    <3>3. o \in Seq(Op) /\ Len(o) = 0
      OBVIOUS
    <3> QED
      BY <3>2, <3>3
  <2> HIDE DEF o
  <2>2. IsThenSync(o, s)
    BY <2>1 DEF IsThenSync
  <2>3. /\ Len(s) \in Nat /\ DOMAIN s = 1..Len(s)
        /\ \A k \in DOMAIN s : k > Len(o) => s[k].do = "flush"
    BY <2>2, ThenSync
  <2>4. \A k \in 1..Len(s) : s[k].do = "flush"
    BY <2>1, <2>3
  <2> QED
    BY <1>6, <1>10, <2>3, <2>4 DEF IsMoving
<1> QED
  BY <1>9, <1>10

\* Where the changes of a rename are in its plan.
LEMMA JoinedIs ==
    ASSUME NEW pre, NEW h, NEW s, NEW t, IsJoined(pre, h, s, t)
    PROVE  /\ Len(pre) \in Nat /\ Len(s) \in Nat /\ DOMAIN t = 1..(Len(pre) + 2 + Len(s))
           /\ \A k \in 1..Len(pre) : t[k] = pre[k]
           /\ t[Len(pre) + 1] = h[1] /\ t[Len(pre) + 2] = h[2]
           /\ \A k \in 1..Len(s) : t[Len(pre) + 2 + k] = s[k]
<1> DEFINE r == h \o s
<1>1. /\ pre \in Seq(Op) /\ h \in Seq(Op) /\ s \in Seq(Op) /\ Len(h) = 2 /\ t = pre \o r
      /\ Len(pre) \in Nat /\ Len(s) \in Nat
  BY DEF IsJoined
<1>2. /\ r \in Seq(Op) /\ Len(r) = 2 + Len(s)
      /\ \A k \in 1..2 + Len(s) : r[k] = IF k <= 2 THEN h[k] ELSE s[k - 2]
  <2>1. /\ r \in Seq(Op) /\ Len(r) = Len(h) + Len(s)
        /\ \A k \in 1..Len(h) + Len(s) : r[k] = IF k <= Len(h) THEN h[k] ELSE s[k - Len(h)]
    BY <1>1, ConcatProperties
  <2> HIDE DEF r
  <2> QED
    BY <1>1, <2>1
<1> HIDE DEF r
<1>3. /\ Len(t) = Len(pre) + Len(r) /\ DOMAIN t = 1..Len(pre) + Len(r)
      /\ \A k \in 1..Len(pre) + Len(r) : t[k] = IF k <= Len(pre) THEN pre[k] ELSE r[k - Len(pre)]
  <2>1. pre \in Seq(Op) /\ r \in Seq(Op) /\ t = pre \o r
    BY <1>1, <1>2
  <2> QED
    BY <2>1, ConcatProperties
<1>4. DOMAIN t = 1..(Len(pre) + 2 + Len(s)) /\ \A k \in 1..Len(pre) : t[k] = pre[k]
  BY <1>1, <1>2, <1>3
<1>5. \A k \in 1..2 + Len(s) : t[Len(pre) + k] = r[k]
  <2> TAKE k \in 1..2 + Len(s)
  <2>1. Len(pre) + k \in 1..Len(pre) + Len(r) /\ ~(Len(pre) + k <= Len(pre)) /\ (Len(pre) + k) - Len(pre) = k
    BY <1>1, <1>2
  <2> QED
    BY <1>3, <2>1
<1>6. t[Len(pre) + 1] = h[1] /\ t[Len(pre) + 2] = h[2]
  <2>1. 1 \in 1..2 + Len(s) /\ 2 \in 1..2 + Len(s) /\ 1 <= 2 /\ 2 <= 2
    BY <1>1
  <2> QED
    BY <1>2, <1>5, <2>1
<1>7. \A k \in 1..Len(s) : t[Len(pre) + 2 + k] = s[k]
  <2> TAKE k \in 1..Len(s)
  <2>1. 2 + k \in 1..2 + Len(s) /\ ~(2 + k <= 2) /\ (2 + k) - 2 = k /\ Len(pre) + (2 + k) = Len(pre) + 2 + k
    BY <1>1
  <2>2. t[Len(pre) + (2 + k)] = r[2 + k] /\ r[2 + k] = s[k]
    BY <1>2, <1>5, <2>1
  <2> QED
    BY <2>1, <2>2
<1> QED
  BY <1>1, <1>4, <1>6, <1>7

\* The parts of the plan of a rename make a rename.
LEMMA RenamingPlan ==
    ASSUME NEW es, NEW ds, ds = DirsIn(inode), NEW pre, NEW h, NEW s, NEW t, IsJoined(pre, h, s, t),
           NEW i, NEW p, NEW q, IsMoving(s, i, p, q),
           Len(pre) = 0 \/ IsRemoving(es, ds, pre, Len(pre) + 1), Len(pre) \in Nat,
           h[1].do = "link", h[1].dir = q, h[1].ino = i, h[2].do = "remove", h[2].dir = p
    PROVE  IsRenaming(es, ds, t, Len(pre) + 1, Len(pre) + 2 + Len(s), i, p, q)
<1> DEFINE m == Len(pre)
           L == m + 1
           N == m + 2 + Len(s)
<1>1. /\ m \in Nat /\ Len(s) \in Nat /\ DOMAIN t = 1..N
      /\ \A k \in 1..m : t[k] = pre[k]
      /\ t[L] = h[1] /\ t[m + 2] = h[2]
      /\ \A k \in 1..Len(s) : t[m + 2 + k] = s[k]
  BY JoinedIs
<1>2. m = 0 \/ IsRemoving(es, ds, pre, L)
  OBVIOUS
<1> HIDE DEF m
<1>3. L = 1 \/ IsRemoving(es, ds, t, L)
  <2>1. CASE m = 0
    BY <2>1
  <2>2. CASE m # 0
    <3>1. 1..(L - 1) = 1..m /\ 1..m \subseteq 1..N
      BY <1>1
    <3>2. 1..(L - 1) \subseteq DOMAIN t /\ \A k \in 1..(L - 1) : t[k] = pre[k]
      BY <1>1, <3>1
    <3>3. IsRemoving(es, ds, pre, L)
      BY <1>2, <2>2
    <3> HIDE DEF L
    <3> QED
      BY <3>2, <3>3, RemovingSame
  <2> QED
    BY <2>1, <2>2
<1>4. t[L + 1] = h[2] /\ L \in Nat \ {0} /\ N \in Nat /\ L < N
  <2>1. L + 1 = m + 2
    BY <1>1
  <2> QED
    BY <1>1, <2>1
<1>5. i \in ds /\ p # q =>
         /\ L + 4 <= N
         /\ t[L + 2].do = "dotdot" /\ t[L + 2].ino = i /\ t[L + 2].parent = q
         /\ t[L + 3].do = "less" /\ t[L + 3].ino = p
         /\ t[L + 4].do = "more" /\ t[L + 4].ino = q
  <2> SUFFICES ASSUME i \in ds, p # q
               PROVE  /\ L + 4 <= N
                      /\ t[L + 2].do = "dotdot" /\ t[L + 2].ino = i /\ t[L + 2].parent = q
                      /\ t[L + 3].do = "less" /\ t[L + 3].ino = p
                      /\ t[L + 4].do = "more" /\ t[L + 4].ino = q
    OBVIOUS
  <2>1. /\ Len(s) >= 3
        /\ s[1].do = "dotdot" /\ s[1].ino = i /\ s[1].parent = q
        /\ s[2].do = "less" /\ s[2].ino = p
        /\ s[3].do = "more" /\ s[3].ino = q
    BY DEF IsMoving
  <2>2. 1 \in 1..Len(s) /\ 2 \in 1..Len(s) /\ 3 \in 1..Len(s) /\ L + 4 <= N
    BY <1>1, <2>1
  <2>3. m + 2 + 1 = L + 2 /\ m + 2 + 2 = L + 3 /\ m + 2 + 3 = L + 4
    BY <1>1
  <2>4. t[m + 2 + 1] = s[1] /\ t[m + 2 + 2] = s[2] /\ t[m + 2 + 3] = s[3]
    BY <1>1, <2>2
  <2>5. t[L + 2] = s[1] /\ t[L + 3] = s[2] /\ t[L + 4] = s[3]
    BY <2>3, <2>4
  <2> QED
    BY <2>1, <2>2, <2>5
<1>6. ASSUME NEW k \in DOMAIN t, k > L + 1
      PROVE  t[k].do = "flush" \/ (i \in ds /\ p # q /\ k <= L + 4)
  <2> DEFINE j == k - (m + 2)
  <2>1. k \in Nat /\ j \in 1..Len(s) /\ m + 2 + j = k /\ (j <= 3 => k <= L + 4)
    BY <1>1, <1>6
  <2> HIDE DEF j
  <2>2. t[k] = s[j]
    BY <1>1, <2>1
  <2>3. s[j].do = "flush" \/ (i \in ds /\ p # q /\ j <= 3)
    BY <2>1 DEF IsMoving
  <2> QED
    BY <2>1, <2>2, <2>3
<1>7. t[L].do = "link" /\ t[L].dir = q /\ t[L].ino = i /\ t[L + 1].do = "remove" /\ t[L + 1].dir = p
  BY <1>1, <1>4
<1> HIDE DEF L, N
<1>8. IsRenaming(es, ds, t, L, N, i, p, q)
  BY <1>1, <1>3, <1>4, <1>5, <1>6, <1>7 DEF IsRenaming
<1> QED
  BY <1>8 DEF L, N, m

\* Plans are put together from either end.
LEMMA Regroup == \A x, y, z \in Seq(Op) : (x \o y) \o z = x \o (y \o z)
  BY ConcatAssociative

\* rename.
LEMMA RenameSound ==
    ASSUME NamespaceInv, TreeInv,
           NEW p \in Inos, NEW q \in Inos, NEW n \in Names, NEW m \in Names, Rename(p, n, q, m)
    PROVE  TreeInv'
<1> DEFINE i   == Lookup(p, n)
           l   == [do |-> "link", dir |-> q, name |-> m, ino |-> i]
           r   == [do |-> "remove", dir |-> p, name |-> n]
           h   == <<l, r>>
           pre == ReplacePlan(i, q, m)
           mv  == MovePlan(i, p, q)
           s   == mv \o Sync
           t   == pre \o (h \o s)
           es  == EntriesIn(inode, data)
           ds  == DirsIn(inode)
<1>1. Idle /\ p \in Dirs /\ q \in Dirs /\ q \in ds /\ q \notin orphans
  BY AtRest, KnownHasName DEF Rename
<1>2. i \in Live /\ Replaceable(i, Lookup(q, m)) /\ i \in Inos /\ Allowed(i, q)
  BY <1>1, AtRest DEF Rename
<1>3. Begin(pre \o h \o mv \o Sync)
  BY DEF Rename
<1>4. \E e \in es : e.dir = p /\ e.ino = i
  BY <1>1, <1>2, Found
<1>5. pre \in Seq(Op) /\ Len(pre) \in Nat /\ (Len(pre) = 0 \/ IsRemoving(es, ds, pre, Len(pre) + 1))
  BY <1>1, <1>2, ReplacingIs
<1>6. \E U \in SUBSET Inos : q \in U /\ i \notin U /\ \A e \in es : e.ino \in U => e.dir \in U
  <2>1. q \in ds \ orphans
    BY <1>1
  <2> HIDE DEF i
  <2> QED
    BY <1>1, <1>2, <2>1, AllowedIs
<1>7. home \in Layouts
  BY <1>1, SoundAtRest
<1> HIDE DEF i, pre
<1>8. s \in Seq(Op) /\ QuietPlan(s) /\ IsMoving(s, i, p, q)
  <2>1. IsMovePlan(s, i, p, q)
    BY DEF IsMovePlan
  <2> HIDE DEF s
  <2> QED
    BY <1>2, <1>7, <2>1, MovingIs
<1>9. mv \in Seq(Op) /\ Sync \in Seq(Op)
  BY <1>1, <1>2, MovePlanIs, AtRest
<1>10. l \in Op /\ r \in Op
  BY <1>2, Ops
<1>11. h \in Seq(Op) /\ Len(h) = 2 /\ h[1] = l /\ h[2] = r
  BY <1>10
<1> HIDE DEF h, mv
<1>12. pre \o h \o mv \o Sync = t
  <2>1. (pre \o h) \in Seq(Op)
    BY <1>5, <1>11, ConcatProperties
  <2>2. (pre \o h) \o mv \o Sync = (pre \o h) \o s
    <3>1. \A x \in Seq(Op) : (x \o mv) \o Sync = x \o (mv \o Sync)
      BY <1>9, Regroup
    <3> QED
      BY <2>1, <3>1
  <2>3. (pre \o h) \o s = pre \o (h \o s)
    <3>1. h \in Seq(Op) /\ s \in Seq(Op) /\ pre \in Seq(Op)
      BY <1>5, <1>8, <1>11
    <3> HIDE DEF s
    <3> QED
      BY <3>1, Regroup
  <2> QED
    BY <2>2, <2>3
<1> HIDE DEF s
<1>13. IsJoined(pre, h, s, t)
  <2>1. t = pre \o (h \o s)
    OBVIOUS
  <2> HIDE DEF t
  <2> QED
    BY <1>5, <1>8, <1>11, <2>1 DEF IsJoined
<1> HIDE DEF t
<1>14. h[1].do = "link" /\ h[1].dir = q /\ h[1].ino = i /\ h[2].do = "remove" /\ h[2].dir = p
  BY <1>11
<1> HIDE DEF l, r, es
<1> DEFINE L == Len(pre) + 1
           N == Len(pre) + 2 + Len(s)
<1>15. IsRenaming(es, ds, t, L, N, i, p, q)
  BY <1>5, <1>8, <1>13, <1>14, RenamingPlan
<1>16. InTree(es, LiveIn(inode), ds, orphans, <<>>) /\ ds \in SUBSET Inos
  BY <1>1, SoundAtRest DEF es
<1>17. PICK par, nl : /\ Meant(inode, data, stale, miscounted, par, nl) /\ nl \in [Inos -> Nat]
                     /\ Placed(es, ds, orphans, par, <<>>) /\ Counted(es, ds, nl, <<>>)
  BY <1>1, SoundAtRest DEF es
<1> HIDE DEF ds, L, N
<1>18. Placed(es, ds, orphans, par, t) /\ Counted(es, ds, nl, t)
  BY <1>1, <1>4, <1>6, <1>15, <1>16, <1>17, SoundToRename
<1>19. Begin(t)
  BY <1>3, <1>12
<1> QED
  BY <1>1, <1>17, <1>18, <1>19, BeginSound DEF es, ds

-----------------------------------------------------------------------------
(* The theorems about the tree and the counts                               *)

\* Every step keeps the tree and the counts.
LEMMA NextSound == NamespaceInv /\ TreeInv /\ [Next]_vars => TreeInv'
<1> SUFFICES ASSUME NamespaceInv, TreeInv, [Next]_vars PROVE TreeInv'
  OBVIOUS
<1>1. ASSUME NEW p \in Inos, NEW n \in Names, Create(p, n) \/ Mkdir(p, n) PROVE TreeInv'
  BY <1>1, CreateSound, MkdirSound
<1>2. ASSUME NEW p \in Inos, NEW n \in Names, Unlink(p, n) PROVE TreeInv'
  <2>1. /\ Idle /\ p \in Dirs /\ Lookup(p, n) \in Live /\ Lookup(p, n) \notin Dirs /\ Begin(UnlinkPlan(p, n))
    BY <1>2, AtRest DEF Unlink
  <2> QED
    BY <2>1, RemovalSound
<1>3. ASSUME NEW p \in Inos, NEW n \in Names, Rmdir(p, n) PROVE TreeInv'
  <2>1. /\ Idle /\ p \in Dirs /\ Lookup(p, n) \in Live /\ Lookup(p, n) \in Dirs /\ Begin(RmdirPlan(p, n))
    BY <1>3, AtRest DEF Rmdir
  <2> QED
    BY <2>1, RemovalSound
<1>4. ASSUME NEW p \in Inos, NEW q \in Inos, NEW n \in Names, NEW m \in Names, Rename(p, n, q, m)
      PROVE  TreeInv'
  BY <1>4, RenameSound
<1>5. CASE WriteFileInode \/ MakeDirectory
  BY <1>5, WriteFileInodeSound, MakeDirectorySound
<1>6. CASE LinkInRoom \/ LinkInNewBlock
  BY <1>6, LinkInRoomIs, LinkInNewBlockIs, LinkedSound
<1>7. CASE RemoveName \/ FreeInodeAndBlocks \/ CountLinks \/ UpdateDotdot
  BY <1>7, RemoveNameSound, FreeSound, CountLinksSound, UpdateDotdotSound
<1>8. CASE MakeDirectoryFails \/ LinkFails \/ FreeFails \/ UpdateDotdotFails \/ FlushFails
  BY <1>8, FailsSound, UpdateDotdotFailsSound
<1>9. CASE Flush \/ Reopen
  BY <1>9, FlushSound, ReopenSound
<1>10. CASE Abandoned \/ UNCHANGED vars
  BY <1>10 DEF Abandoned, vars, TreeInv
<1> QED
  BY <1>1, <1>2, <1>3, <1>4, <1>5, <1>6, <1>7, <1>8, <1>9, <1>10 DEF Next

\* In every state ".." and the link counts are those of the tree, but for the changes that
\* the running operation still makes, and for the directories where a failed update_dotdot
\* kept rename from making them; and they are on the carriers of one sync.
THEOREM TreeAndCounts == Spec => []TreeInv
<1>1. Init => TreeInv
  BY SoundAtFirst
<1>2. NamespaceInv /\ TreeInv /\ [Next]_vars => TreeInv'
  BY NextSound
<1> QED
  BY <1>1, <1>2, InTheTree, PTL DEF Spec

\* Nothing is owed between operations.
LEMMA CountedAtRest == NamespaceInv /\ TreeInv => LinksCounted
<1> SUFFICES ASSUME NamespaceInv, TreeInv, Idle, NEW d \in Dirs \ miscounted
             PROVE  inode[d].nlink = 2 + Cardinality({c \in Dirs \ {Root} : \E l \in Links(c) : l[1] = d})
  BY DEF LinksCounted
<1> DEFINE es == EntriesIn(inode, data)
           ds == DirsIn(inode)
           K  == {c \in Dirs \ {Root} : \E l \in Links(c) : l[1] = d}
<1>1. Dirs = ds /\ MemoryTyped /\ ds \in SUBSET Inos
  BY AtRest, SoundAtRest
<1>2. PICK par, nl : Meant(inode, data, stale, miscounted, par, nl) /\ Counted(es, ds, nl, <<>>)
  BY SoundAtRest
<1>3. nl[d] = Counts(inode)[d]
  BY <1>1, <1>2 DEF Meant
<1>4. K = Kids(es, ds, d)
  <2>1. ASSUME NEW c \in Inos PROVE (\E l \in Links(c) : l[1] = d) <=> (\E e \in es : e.ino = c /\ e.dir = d)
    <3>1. /\ \A l \in Links(c) : \E e \in es : e.ino = c /\ l = <<e.dir, e.block, e.name>>
          /\ \A e \in es : e.ino = c => <<e.dir, e.block, e.name>> \in Links(c)
      BY <1>1, LinksIs
    <3> HIDE DEF es
    <3>2. \A e \in es : <<e.dir, e.block, e.name>>[1] = e.dir
      OBVIOUS
    <3>3. (\E l \in Links(c) : l[1] = d) => (\E e \in es : e.ino = c /\ e.dir = d)
      BY <3>1, <3>2
    <3>4. (\E e \in es : e.ino = c /\ e.dir = d) => (\E l \in Links(c) : l[1] = d)
      BY <3>1, <3>2
    <3> QED
      BY <3>3, <3>4
  <2> HIDE DEF es, ds
  <2> QED
    BY <1>1, <2>1 DEF Kids
<1> HIDE DEF es, ds, K
<1>5. nl[d] + 0 = 2 + Cardinality(Kids(es, ds, d)) + 0 /\ Cardinality(Kids(es, ds, d)) \in Nat
  BY <1>1, <1>2, CountsAtRest
<1>6. Counts(inode)[d] = inode[d].nlink /\ inode[d].nlink \in Nat
  <2>1. d \in Inos
    BY <1>1
  <2> QED
    BY <1>1, <2>1, ParentsAndCounts DEF MemoryTyped, Inode
<1>7. inode[d].nlink = 2 + Cardinality(K)
  BY <1>4, <1>5, <1>6, <1>3
<1> QED
  BY <1>7 DEF K

\* mkdir, rmdir and rename between directories keep the link count of every directory at two
\* and one for each directory in it, also when an operation fails, when the target of
\* a rename is replaced, and after a restart; but for the two parents of a rename whose
\* update_dotdot failed.
THEOREM LinkCountsAreRight == Spec => []LinksCounted
  BY CountedAtRest, InTheTree, TreeAndCounts, PTL

\* No ".." is owed between operations, and the way up ends at the root.
LEMMA TreeAtRest == NamespaceInv /\ TreeInv => TreeSound
<1> SUFFICES ASSUME NamespaceInv, TreeInv, Idle
             PROVE  /\ Parent(Root) = Root
                    /\ \A d \in Dirs \ ({Root} \cup orphans) :
                          /\ d \notin stale => \A l \in Links(d) : l[1] = Parent(d)
                          /\ Root \in Above(d)
  BY DEF TreeSound
<1>1. Dirs = DirsIn(inode) /\ MemoryTyped /\ DirsIn(inode) \in SUBSET Inos
  BY AtRest, SoundAtRest
<1>2. PICK par, nl : /\ Meant(inode, data, stale, miscounted, par, nl)
                    /\ Placed(EntriesIn(inode, data), DirsIn(inode), orphans, par, <<>>)
  BY SoundAtRest
<1>3. par[Root] = Root /\ \A e \in EntriesIn(inode, data) : e.ino \in DirsIn(inode) => par[e.ino] = e.dir
  BY <1>2, PlacedAtRest
<1>4. \A d \in DirsIn(inode) \ stale : par[d] = Parent(d)
  <2> SUFFICES ASSUME NEW d \in DirsIn(inode) \ stale PROVE par[d] = Parent(d)
    OBVIOUS
  <2>1. d \in Inos /\ par[d] = Parents(inode, data)[d]
    BY <1>1, <1>2 DEF Meant
  <2> QED
    BY <2>1, ParentsAndCounts DEF Parent
<1>5. Parent(Root) = Root
  <2>1. Root \in DirsIn(inode) /\ Root \notin stale
    BY <1>2, SoundAtRest DEF InTree, Meant
  <2> QED
    BY <1>3, <1>4, <2>1
<1>6. ASSUME NEW d \in Dirs \ ({Root} \cup orphans)
      PROVE  (d \notin stale => \A l \in Links(d) : l[1] = Parent(d)) /\ Root \in Above(d)
  <2>1. d \in DirsIn(inode) \ orphans /\ d \in Inos
    BY <1>1
  <2>2. ASSUME d \notin stale, NEW l \in Links(d) PROVE l[1] = Parent(d)
    <3>1. PICK e \in EntriesIn(inode, data) : e.ino = d /\ l = <<e.dir, e.block, e.name>>
      BY <1>1, <2>1, LinksIs
    <3>2. e.dir = Parent(d)
      BY <1>3, <1>4, <2>1, <2>2, <3>1
    <3> QED
      BY <3>1, <3>2
  <2>3. Root \in Above(d)
    <3>1. PICK f : IsUp(f, d, InodeCount) /\ Above(d) = {f[k] : k \in 0..InodeCount}
      BY GoesUp
    <3>2. \E k \in 0..InodeCount : f[k] = Root
      BY <2>1, <3>1, RootIsAbove
    <3> QED
      BY <3>1, <3>2
  <2> QED
    BY <2>2, <2>3
<1> QED
  BY <1>6, <1>5

\* Renames keep the tree a tree: between operations ".." of every directory that has a name is
\* the directory that names it, unless the update_dotdot of its last rename failed, and going
\* up from it by the names ends at the root, for any number of directories, after failures
\* and restarts too.
THEOREM DirectoriesFormATree == Spec => []TreeSound
  BY TreeAtRest, InTheTree, TreeAndCounts, PTL
=============================================================================
